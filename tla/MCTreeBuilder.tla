--------------------------- MODULE MCTreeBuilder ---------------------------
(* A small instance of TreeBuilder and of the macro: bodies of at most     *)
(* MaxItems items, nested in any way.                                      *)
EXTENDS BuildTreeMacro

CONSTANTS MaxItems, MacroTags

AlphabeticalOrder ==
  [t \in Tags |-> CASE t = "a" -> 1 [] t = "b" -> 2 [] t = "c" -> 3]

SomeNeeds == {{"CHILDREN"}, {"CAPTURE", "TEXT"}}

ItemsToWrite ==
  {RuleItem(needs) : needs \in SomeNeeds}
    \cup {NodeItem(tag, mode, 0) : tag \in MacroTags, mode \in Modes}

(* The texts with their items at these places.                             *)
Written(places) ==
  LET MayStand(item, p) ==
        /\ item.kind = "rule" => p # <<>> /\ PartsOf(places, p) = 0
        /\ p = <<>> => item.tag = "a"
      At(item, p) ==
        IF item.kind = "rule" THEN item
        ELSE NodeItem(item.tag, item.mode, PartsOf(places, p))
  IN {[p \in places |-> At(items[p], p)] :
        items \in {choice \in [places -> ItemsToWrite] :
                     \A p \in places : MayStand(choice[p], p)}}

SmallMacros ==
  UNION {Written(places) : places \in UNION {Shapes(n) : n \in 0 .. MaxItems}}
=============================================================================
