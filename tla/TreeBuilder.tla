---------------------------- MODULE TreeBuilder ----------------------------
(***************************************************************************)
(* TreeBuilder (tree/builder.rs): the chain of calls by which a program    *)
(* declares its descriptor tree, and build(), which ends it with a tree or *)
(* an error.  The operators build() is made of are in DescriptorTree; this *)
(* module adds the cursor the calls move (parent_stack) and the lookup of  *)
(* a child as the library performs it, by binary search.                   *)
(***************************************************************************)
EXTENDS DescriptorTree, SequencesExt

CONSTANTS Tags,
          TagOrder,         \* the order of tags as strings
          RuleNeeds,        \* what a rule may need
          DefaultLimit, Limits,
          MaxDeclarations, MaxRules   \* bounds on the calls of a chain

ASSUME TagOrderAssumption == TagOrder \in [Tags -> Nat] /\ IsInjective(TagOrder)
ASSUME RuleNeedsAssumption == RuleNeeds \subseteq SUBSET NodeNeeds
ASSUME LimitsAssumption == DefaultLimit \in Nat /\ Limits \subseteq Nat

VARIABLES declarations,
          parent_stack,          \* from the root to the current node
          capture_memory_limit,
          built                  \* "no", what build() returned, or "panic"

vars == <<declarations, parent_stack, capture_memory_limit, built>>

Declaration(tag, above, parent) ==
  [tag |-> tag, full_path |-> Append(above, tag), is_capture |-> FALSE,
   rules |-> <<>>, parent_index |-> parent]

Current == Last(parent_stack)

-----------------------------------------------------------------------------
(* TreeBuilder::new(root_tag).                                             *)
Init ==
  /\ \E tag \in Tags : declarations = <<Declaration(tag, <<>>, NoNode)>>
  /\ parent_stack = <<Root>>
  /\ capture_memory_limit = DefaultLimit
  /\ built = "no"

(* streaming() and capture_subtree().                                      *)
AccessMode(capture) ==
  /\ declarations' = [declarations EXCEPT ![Current].is_capture = capture]
  /\ UNCHANGED <<parent_stack, capture_memory_limit, built>>

AddRule(needs) ==
  /\ declarations' = [declarations EXCEPT ![Current].rules = Append(@, needs)]
  /\ UNCHANGED <<parent_stack, capture_memory_limit, built>>

(* Faulty variant: the index of the child is read after it was pushed.     *)
ChildIndexLate == Len(declarations) + 2

ChildIndex == Len(declarations) + 1

Node(tag) ==
  /\ declarations' =
       Append(declarations,
              Declaration(tag, declarations[Current].full_path, Current))
  /\ parent_stack' = Append(parent_stack, ChildIndex)
  /\ UNCHANGED <<capture_memory_limit, built>>

(* Faulty variant: done() on the root is not caught.                       *)
NeverAtRoot == FALSE

AtRoot == Len(parent_stack) = 1

(* "Panics if called on the root."                                         *)
DoneOnRoot ==
  /\ AtRoot
  /\ built' = "panic"
  /\ UNCHANGED <<declarations, parent_stack, capture_memory_limit>>

Done ==
  /\ ~AtRoot
  /\ parent_stack' = Front(parent_stack)
  /\ UNCHANGED <<declarations, capture_memory_limit, built>>

CaptureLimit(bytes) ==
  /\ capture_memory_limit' = bytes
  /\ UNCHANGED <<declarations, parent_stack, built>>

(* build() may be called with the cursor anywhere.                         *)
BuildTree ==
  /\ built' = IF BuildError(declarations) = "none" THEN "tree"
              ELSE BuildError(declarations)
  /\ UNCHANGED <<declarations, parent_stack, capture_memory_limit>>

Consumed == built # "no" /\ UNCHANGED vars

RuleCount == Len(FlattenSeq([i \in DOMAIN declarations |-> declarations[i].rules]))

Next ==
  \/ /\ built = "no"
     /\ \/ \E capture \in BOOLEAN : AccessMode(capture)
        \/ RuleCount < MaxRules /\ \E needs \in RuleNeeds : AddRule(needs)
        \/ Len(declarations) < MaxDeclarations /\ \E tag \in Tags : Node(tag)
        \/ Done
        \/ DoneOnRoot
        \/ \E bytes \in Limits : CaptureLimit(bytes)
        \/ BuildTree
  \/ Consumed

Spec == Init /\ [][Next]_vars

-----------------------------------------------------------------------------
(* The tree that build() returned.                                         *)
Tree == Build(declarations, capture_memory_limit)

(* PathSegment::cmp.                                                       *)
Before(tag, other) == TagOrder[tag] < TagOrder[other]

Children(tree, parent) ==
  {c \in NodeIds(tree) : tree.nodes[c].parent_id = parent}

(* Faulty variant: the children are left in the order of declaration.      *)
ChildrenDeclared(tree, parent) ==
  LET children == Children(tree, parent)
  IN CHOOSE s \in [1 .. Cardinality(children) -> children] :
       \A i, j \in DOMAIN s : i < j => s[i] < s[j]

(* children_sorted: sort_by, of children whose tags are distinct.          *)
ChildrenSorted(tree, parent) ==
  LET children == Children(tree, parent)
  IN CHOOSE s \in [1 .. Cardinality(children) -> children] :
       \A i, j \in DOMAIN s :
          i < j => Before(tree.nodes[s[i]].tag, tree.nodes[s[j]].tag)

(* child_of: binary_search_by, in what is left from lo to hi.              *)
BinarySearch(tree, parent, tag) ==
  LET children == ChildrenSorted(tree, parent)
      n        == Len(children)
      TagAt(i) == tree.nodes[children[i]].tag
      Search[window \in (1 .. n + 1) \X (0 .. n)] ==
        LET lo  == window[1]
            hi  == window[2]
            mid == (lo + hi) \div 2
        IN IF lo > hi THEN NoNode
           ELSE IF TagAt(mid) = tag THEN children[mid]
           ELSE IF Before(TagAt(mid), tag) THEN Search[<<mid + 1, hi>>]
           ELSE Search[<<lo, mid - 1>>]
  IN Search[<<1, n>>]

-----------------------------------------------------------------------------
TypeOK ==
  /\ declarations \in
       Seq([tag : Tags, full_path : Seq(Tags), is_capture : BOOLEAN,
            rules : Seq(RuleNeeds), parent_index : Nat])
  /\ parent_stack \in Seq(DOMAIN declarations)
  /\ capture_memory_limit \in Nat
  /\ built \in {"no", "tree", "panic", "DuplicatePath", "IncompatibleAccessMode",
                "NestedCapture"}

(* The cursor is the chain of declarations from the root to the current    *)
(* node, however the calls went up and down before: what node() declares   *)
(* next lands where the fluent chain is read to put it.                    *)
CursorIsPath ==
  /\ parent_stack # <<>> /\ parent_stack[1] = Root
  /\ \A k \in DOMAIN parent_stack :
       LET d == declarations[parent_stack[k]]
       IN /\ d.full_path = [i \in 1 .. k |-> declarations[parent_stack[i]].tag]
          /\ k > 1 => d.parent_index = parent_stack[k - 1]

Paths == {declarations[i].full_path : i \in DOMAIN declarations}

(* Some rule needs a subtree at a path where none is captured.             *)
RuleWithoutCapture ==
  \E i \in DOMAIN declarations : \E r \in DOMAIN declarations[i].rules :
     /\ "CAPTURE" \in declarations[i].rules[r]
     /\ \A j \in DOMAIN declarations :
          declarations[j].is_capture =>
            declarations[j].full_path # declarations[i].full_path

CaptureInCapture ==
  \E i, j \in DOMAIN declarations :
     /\ declarations[i].is_capture /\ declarations[j].is_capture
     /\ IsStrictPrefix(declarations[i].full_path, declarations[j].full_path)

(* build() refuses what its documentation names ("no duplicate paths, no   *)
(* nested captures, rule/access-mode compatibility") and nothing else,     *)
(* judged by the paths instead of the parent indices it follows.  The      *)
(* error it returns is one the declarations deserve; of several, repeated  *)
(* paths come first, then rules, then captures.                            *)
Accepts ==
  LET repeated == Cardinality(Paths) < Len(declarations)
  IN built \notin {"no", "panic"} =>
       /\ built = "DuplicatePath" <=> repeated
       /\ built = "IncompatibleAccessMode" <=> ~repeated /\ RuleWithoutCapture
       /\ built = "NestedCapture"
            <=> ~repeated /\ ~RuleWithoutCapture /\ CaptureInCapture
       /\ built = "tree"
            <=> ~repeated /\ ~RuleWithoutCapture /\ ~CaptureInCapture

(* A node keeps all that is read of it: by its own rules, by the rules of  *)
(* the nodes below it, which may ask for its attributes and text, and, in  *)
(* its summary, by a parent whose rules ask for their children.            *)
NeedsCovered ==
  built = "tree" =>
    \A n \in NodeIds(Tree) :
       LET node == Tree.nodes[n]
       IN /\ \A r \in DOMAIN node.rules : node.rules[r] \subseteq node.needs
          /\ "CAPTURE" \in node.needs <=> declarations[n].is_capture
          /\ \A m \in NodeIds(Tree) :
               IsStrictPrefix(node.full_path, Tree.nodes[m].full_path)
                 => {"ATTRS", "TEXT"} \subseteq node.needs
          /\ \A m \in NodeIds(Tree) :
               /\ Tree.nodes[m].full_path = Front(node.full_path)
               /\ \E r \in DOMAIN Tree.nodes[m].rules : "CHILDREN" \in Tree.nodes[m].rules[r]
               => node.summary_needs = AllNeeds

(* Whatever was declared, in whatever order and however the cursor moved,  *)
(* a tree that build() returns is what the parser takes for granted.       *)
BuildsTree == built = "tree" => IsTree(Tree)

(* Searching the sorted children finds the declaration at the parent's     *)
(* path followed by the tag, and nothing when there is none.               *)
LookupByPath ==
  built = "tree" =>
    \A n \in NodeIds(Tree) : \A tag \in Tags :
       LET found == BinarySearch(Tree, n, tag)
           path  == Append(Tree.nodes[n].full_path, tag)
       IN /\ found = ChildOf(Tree, n, tag)
          /\ IF path \in Paths
             THEN found # NoNode /\ Tree.nodes[found].full_path = path
             ELSE found = NoNode
=============================================================================
