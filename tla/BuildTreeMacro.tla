--------------------------- MODULE BuildTreeMacro ---------------------------
(***************************************************************************)
(* The build_tree! macro (macros.rs): a nested declaration, expanded item  *)
(* by item into calls of TreeBuilder.  The items of a text are known by    *)
(* their positions, <<>> for the root; the calls that an expansion still   *)
(* owes are kept in `pending`, among the items that are not yet expanded.  *)
(*                                                                         *)
(* A chain written by hand is one with nothing pending: all of TreeBuilder *)
(* is part of this specification.                                          *)
(***************************************************************************)
EXTENDS TreeBuilder, Nesting

CONSTANT Macros     \* what is written between the parentheses

(* A rule is known by its needs; a node has a tag, an access mode and so   *)
(* many items in its body.                                                 *)
RuleItem(needs) == [kind |-> "rule", needs |-> needs]

NodeItem(tag, mode, items) ==
  [kind |-> "node", tag |-> tag, mode |-> mode, items |-> items]

Modes == {"none", "streaming", "capture"}

IsText(text) ==
  /\ IsNested([p \in DOMAIN text |->
                 IF text[p].kind = "node" THEN text[p].items ELSE 0])
  /\ IsFiniteSet(DOMAIN text)
  /\ text[<<>>].kind = "node"
  /\ \A p \in DOMAIN text :
       \/ text[p] \in [kind : {"rule"}, needs : RuleNeeds]
       \/ text[p] \in [kind : {"node"}, tag : Tags, mode : Modes, items : Nat]

ASSUME MacrosAssumption == \A text \in Macros : IsText(text)

VARIABLES macro,    \* <<text>> for a macro, <<>> for a chain
          pending

macroVars == <<vars, macro, pending>>

Text == macro[1]
IsNode(p) == Text[p].kind = "node"

Call(call, at) == [call |-> call, at |-> at]

ModeOf(p) == IF Text[p].mode = "none" THEN <<>> ELSE <<Call("mode", p)>>
Body(p) == [i \in 1 .. Text[p].items |-> Call("item", Append(p, i))]

-----------------------------------------------------------------------------
MacroInit ==
  /\ Init
  /\ \/ macro = <<>> /\ pending = <<>>
     \/ /\ macro \in {<<text>> : text \in Macros}
        /\ Text[<<>>].tag = declarations[Root].tag
        /\ pending = ModeOf(<<>>) \o Body(<<>>) \o <<Call("build", <<>>)>>

Chain == pending = <<>> /\ Next /\ UNCHANGED <<macro, pending>>

Pending(call) == built = "no" /\ pending # <<>> /\ Head(pending).call = call
Here == Head(pending).at

(* Faulty variant: the arms for a last item forget done().                 *)
DoneUnlessLast(node, rest) ==
  IF Head(rest).call \in {"done", "build"} THEN rest ELSE <<Call("done", node)>> \o rest

DoneThen(node, rest) == <<Call("done", node)>> \o rest

ExpandNode ==
  /\ Pending("item")
  /\ IsNode(Here)
  /\ Node(Text[Here].tag)
  /\ pending' = ModeOf(Here) \o Body(Here) \o DoneThen(Here, Tail(pending))

ExpandMode ==
  /\ Pending("mode")
  /\ AccessMode(Text[Here].mode = "capture")
  /\ pending' = Tail(pending)

ExpandRule ==
  /\ Pending("item")
  /\ ~IsNode(Here)
  /\ AddRule(Text[Here].needs)
  /\ pending' = Tail(pending)

ExpandDone ==
  /\ Pending("done")
  /\ Done \/ DoneOnRoot
  /\ pending' = Tail(pending)

ExpandBuild ==
  /\ Pending("build")
  /\ BuildTree
  /\ pending' = <<>>

Expand ==
  /\ ExpandNode \/ ExpandMode \/ ExpandRule \/ ExpandDone \/ ExpandBuild
  /\ UNCHANGED macro

MacroSpec == MacroInit /\ [][Chain \/ Expand]_macroVars

-----------------------------------------------------------------------------
TextNodes == {p \in DOMAIN Text : IsNode(p)}

(* The number of a node among all nodes of the text, as they are read.     *)
Place(p) == Cardinality({q \in TextNodes : StartsBefore(q, p)}) + 1

PathOf(p) == [k \in 1 .. Len(p) + 1 |-> Text[SubSeq(p, 1, k - 1)].tag]

RulesIn(p) == {i \in 1 .. Text[p].items : ~IsNode(Append(p, i))}

(* Rules of p were added to d, and no others: each at its place.           *)
HasRules(d, p, rules) ==
  /\ Len(d.rules) = Cardinality(rules)
  /\ \A i \in rules :
       d.rules[Cardinality({j \in rules : j <= i})] = Text[Append(p, i)].needs

(* The calls a macro expands to declare what its nesting reads as: every   *)
(* node at its path with its mode and its own rules in order, after all    *)
(* nodes that start before it, even where children stand among the rules;  *)
(* no done() meets the root, and build() is called with the cursor back    *)
(* there.                                                                  *)
MacroBuilds ==
  macro # <<>> /\ built # "no" =>
    /\ built # "panic"
    /\ parent_stack = <<Root>>
    /\ Len(declarations) = Cardinality(TextNodes)
    /\ \A p \in TextNodes :
         LET d == declarations[Place(p)]
         IN /\ d.full_path = PathOf(p)
            /\ d.is_capture <=> Text[p].mode = "capture"
            /\ HasRules(d, p, RulesIn(p))
=============================================================================
