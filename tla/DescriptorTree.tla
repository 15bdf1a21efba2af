--------------------------- MODULE DescriptorTree ---------------------------
(***************************************************************************)
(* The descriptor tree an xml-oxydizer program declares once and shares by *)
(* every file it validates (tree/descriptor.rs), and the checks and        *)
(* propagation passes TreeBuilder::build runs over the declarations to     *)
(* obtain it (tree/builder.rs).  Pure operators, no state.                 *)
(*                                                                         *)
(* A rule is seen only through its needs(): a rule IS the set of flags it  *)
(* needs.  A declaration is a record                                       *)
(*   [tag, full_path, is_capture, rules (a sequence of needs),             *)
(*    parent_index],                                                       *)
(* the position of a declaration is its NodeId, counted from 1, and NoNode *)
(* stands for the source's None.                                           *)
(***************************************************************************)
EXTENDS Naturals, Sequences, FiniteSets

NodeNeeds == {"ATTRS", "TEXT", "CHILDREN", "CAPTURE"}

AllNeeds == NodeNeeds \ {"CAPTURE"}

NoNode == 0
Root == 1

IsCapture(needs) == "CAPTURE" \in needs

-----------------------------------------------------------------------------
(* build(): the three checks, in the order that decides which error wins.  *)

(* Faulty variant: a path is only compared with the one declared before.   *)
HasDuplicateNeighbour(decls) ==
  \E i, j \in DOMAIN decls : i = j + 1 /\ decls[i].full_path = decls[j].full_path

HasDuplicatePath(decls) ==
  \E i, j \in DOMAIN decls : i < j /\ decls[i].full_path = decls[j].full_path

(* Faulty variant: the access mode of the node is not looked at.           *)
HasCaptureRule(decls) ==
  \E i \in DOMAIN decls : \E r \in DOMAIN decls[i].rules : IsCapture(decls[i].rules[r])

HasIncompatibleRule(decls) ==
  \E i \in DOMAIN decls : \E r \in DOMAIN decls[i].rules :
     IsCapture(decls[i].rules[r]) /\ ~decls[i].is_capture

(* The walk along parent_index of the nested-capture check.  A child is    *)
(* always declared after its parent, so the recursion descends.            *)
ProperAncestors(decls) ==
  LET Above[i \in 0 .. Len(decls)] ==
        IF i = NoNode \/ decls[i].parent_index = NoNode
        THEN {}
        ELSE {decls[i].parent_index} \cup Above[decls[i].parent_index]
  IN Above

HasNestedCapture(decls) ==
  \E i \in DOMAIN decls :
     /\ decls[i].is_capture
     /\ \E a \in ProperAncestors(decls)[i] : decls[a].is_capture

BuildError(decls) ==
  IF decls = <<>> THEN "NoRoot"
  ELSE IF HasDuplicatePath(decls) THEN "DuplicatePath"
  ELSE IF HasIncompatibleRule(decls) THEN "IncompatibleAccessMode"
  ELSE IF HasNestedCapture(decls) THEN "NestedCapture"
  ELSE "none"

-----------------------------------------------------------------------------
(* Faulty variant: nothing is kept for the rules of descendants.           *)
NeedsOfOwnRules(decls, i) ==
  (UNION {decls[i].rules[r] : r \in DOMAIN decls[i].rules})
    \cup (IF decls[i].is_capture THEN {"CAPTURE"} ELSE {})

(* build(): needs of a node.  The union of what its rules need, CAPTURE    *)
(* for a capture node, and ATTRS and TEXT for a node with declared         *)
(* children, whose rules may ask for their ancestors' attributes and text. *)
HasDeclaredChild(decls, i) ==
  \E c \in DOMAIN decls : decls[c].parent_index = i

Needs(decls, i) ==
  (UNION {decls[i].rules[r] : r \in DOMAIN decls[i].rules})
    \cup (IF decls[i].is_capture THEN {"CAPTURE"} ELSE {})
    \cup (IF HasDeclaredChild(decls, i) THEN {"ATTRS", "TEXT"} ELSE {})

(* What the summary of node i must carry: all or nothing, as its parent's  *)
(* needs contain CHILDREN or not.                                          *)
SummaryNeeds(decls, i) ==
  IF /\ decls[i].parent_index # NoNode
     /\ "CHILDREN" \in Needs(decls, decls[i].parent_index)
  THEN AllNeeds
  ELSE {}

Build(decls, limit) ==
  [nodes |-> [i \in DOMAIN decls |->
                [tag           |-> decls[i].tag,
                 full_path     |-> decls[i].full_path,
                 rules         |-> decls[i].rules,
                 parent_id     |-> decls[i].parent_index,
                 needs         |-> Needs(decls, i),
                 summary_needs |-> SummaryNeeds(decls, i)]],
   capture_memory_limit |-> limit]

-----------------------------------------------------------------------------
(* DescriptorTree.                                                         *)
NodeIds(tree) == DOMAIN tree.nodes

(* child_of: the child of parent with that tag, or NoNode.  Paths being    *)
(* distinct, a parent has at most one.                                     *)
ChildOf(tree, parent, tag) ==
  LET found == {c \in NodeIds(tree) : /\ parent # NoNode
                                      /\ tree.nodes[c].parent_id = parent
                                      /\ tree.nodes[c].tag = tag}
  IN IF found = {} THEN NoNode ELSE CHOOSE c \in found : TRUE

(* root_id, filtered by the tag of the root node.                          *)
RootIfTagged(tree, tag) ==
  IF tree.nodes[Root].tag = tag THEN Root ELSE NoNode

(* What the parser relies on in a tree, assumed of its constant Trees and  *)
(* promised by build(): every node but the root is below its parent, no    *)
(* two are at the same path, and a parent keeps what the rules below it    *)
(* read, a child what the rules of its parent read.                        *)
IsPlaced(tree) ==
  /\ tree.nodes[Root].parent_id = NoNode
  /\ tree.nodes[Root].full_path = <<tree.nodes[Root].tag>>
  /\ \A n \in NodeIds(tree) \ {Root} :
       LET node == tree.nodes[n]
       IN /\ node.parent_id \in NodeIds(tree)
          /\ node.full_path = Append(tree.nodes[node.parent_id].full_path, node.tag)
  /\ \A m, n \in NodeIds(tree) :
       tree.nodes[m].full_path = tree.nodes[n].full_path => m = n

KeepsForOthers(tree) ==
  \A n \in NodeIds(tree) \ {Root} :
     LET node   == tree.nodes[n]
         parent == tree.nodes[node.parent_id]
     IN /\ {"ATTRS", "TEXT"} \subseteq parent.needs
        /\ "CHILDREN" \in parent.needs => node.summary_needs = AllNeeds

IsTree(tree) ==
  LET tags == {tree.nodes[n].tag : n \in NodeIds(tree)}
  IN /\ tree.capture_memory_limit \in Nat
     /\ Root \in NodeIds(tree)
     /\ tree.nodes \in Seq([tag : tags, full_path : Seq(tags),
                            rules : Seq(SUBSET NodeNeeds),
                            parent_id : {NoNode} \cup NodeIds(tree),
                            needs : SUBSET NodeNeeds,
                            summary_needs : SUBSET NodeNeeds])
     /\ IsPlaced(tree)
     /\ KeepsForOthers(tree)
=============================================================================
