------------------------------ MODULE MCParser ------------------------------
(***************************************************************************)
(* Small instances of Parser: the descriptor trees, obtained from          *)
(* declarations through Build, and the parts of documents.                 *)
(***************************************************************************)
EXTENDS CaptureMemory, FiniteSetsExt

Decl(path, rules, capture, parent) ==
  [tag |-> path[Len(path)], full_path |-> path, rules |-> rules,
   is_capture |-> capture, parent_index |-> parent]

(* r/a with the tag of the root again below it, all streaming; r reads its *)
(* children, a does not.                                                   *)
StreamingTree ==
  Build(<<Decl(<<"r">>, <<{"CHILDREN"}>>, FALSE, 0),
          Decl(<<"r", "a">>, <<{"ATTRS"}, {"TEXT"}>>, FALSE, 1),
          Decl(<<"r", "a", "r">>, <<{}>>, FALSE, 2)>>, 100)

(* Captured elements among streaming siblings.                             *)
MixedTree ==
  Build(<<Decl(<<"r">>, <<{"CHILDREN"}>>, FALSE, 0),
          Decl(<<"r", "a">>, <<{"CAPTURE"}>>, TRUE, 1),
          Decl(<<"r", "b">>, <<{"ATTRS"}>>, FALSE, 1)>>, 100)

(* The same with the tag of the root for the streaming sibling, which has  *)
(* a child that asks for nothing.                                          *)
LimitedTree(limit) ==
  Build(<<Decl(<<"r">>, <<{"CHILDREN"}>>, FALSE, 0),
          Decl(<<"r", "a">>, <<{"CAPTURE"}>>, TRUE, 1),
          Decl(<<"r", "r">>, <<{"ATTRS"}, {"TEXT"}>>, FALSE, 1),
          Decl(<<"r", "r", "a">>, <<{}>>, FALSE, 3)>>, limit)

(* A captured root, with a declaration below the capture.                  *)
CaptureTree(limit) ==
  Build(<<Decl(<<"r">>, <<{"CAPTURE", "TEXT"}>>, TRUE, 0),
          Decl(<<"r", "a">>, <<{"ATTRS"}>>, FALSE, 1)>>, limit)

(* Nothing is asked for but the elements themselves.                       *)
BareTree ==
  Build(<<Decl(<<"r">>, <<{}>>, FALSE, 0),
          Decl(<<"r", "a">>, <<{}>>, FALSE, 1)>>, 100)

StructureTrees == {StreamingTree, MixedTree, CaptureTree(100)}
DataTrees == {LimitedTree(9), CaptureTree(9)}
CapturingTrees == {CaptureTree(100)}
BareTrees == {BareTree}

(* The hypotheses of the theorems that have any hold of these instances.   *)
ASSUME HypothesesAssumption == IsInjective(HashOf) /\ RulesFit

NoAttributes == {<<>>}
DistinctHashes == [t \in Tags |-> CASE t = "r" -> 1 [] t = "a" -> 2 [] t = "b" -> 3]

SomeAttributes == {<<"x">>, <<Garbled, Malformed>>}

(* SizeOf, node by node; it grows as the builder counts.                   *)
RECURSIVE DomSize(_)
DomSize(node) ==
  NodeBytes + AttrBytes * Len(node.attrs) + Len(node.text)
    + MapThenSumSet(LAMBDA i : DomSize(node.children[i]), DOMAIN node.children)

Leaves == {BuildNode(t, attrs) : t \in Tags, attrs \in AttrLists}

ASSUME SizeAssumption ==
  \A attrs \in AttrLists, text \in {<<>>, <<Garbled>>} :
    \A children \in {<<>>} \cup {<<c>> : c \in Leaves}, child \in Leaves, t \in Tags :
      Grows(t, attrs, text, children, Garbled, child)

-----------------------------------------------------------------------------
(* What comments and documents of the repository say, and the code does    *)
(* not do: each of these is refuted by a run of its own.                   *)

(* tree/descriptor.rs: "Validation rules attached to this node, evaluated  *)
(* at element close."  So of the children an open element has closed, each *)
(* that is declared has been evaluated.  A declaration below a captured    *)
(* one is accepted, and its rules never run.                               *)
IsDeclaredBelow(node, children) ==
  {i \in DOMAIN children : ChildOf(tree, node, children[i].tag) # NoNode}

RulesEvaluatedAtClose ==
  status = "reading" =>
    \A d \in DOMAIN doc : \A n \in DV!Declared(d) :
       Len(doc[d].evaluated) = Cardinality(IsDeclaredBelow(n, doc[d].children))

(* IMPROVEMENT.md: rules that call children_summaries() "work in either    *)
(* mode".  The view of a captured element has no summaries, whatever it    *)
(* contains.                                                               *)
SummariesInEitherMode ==
  \A i \in DOMAIN observed :
     IsSubtree(observed[i]) =>
       Len(ChildrenSummaries(observed[i])) =
         Cardinality(IsDeclaredBelow(NodeOf(observed[i]), observed[i].root.children))

(* error.rs: "unexpected root element", ReaderError::RootMismatch.  So a   *)
(* document whose outermost element is not the declared root is refused.   *)
(* It is skipped, and accepted.                                            *)
RootMatches ==
  status = "reading" /\ doc # <<>> => doc[1].tag = tree.nodes[Root].tag

(* rule.rs: text() is the "Direct text content of this element".  So a     *)
(* rule that asked for it sees every piece of character data read directly *)
(* inside the element that closes.  CDATA sections and references are      *)
(* dropped.                                                                *)
TextIsContent ==
  [][\A i \in DOMAIN observed' :
       {"TEXT", "CAPTURE"} \cap tree.nodes[NodeOf(observed'[i])].needs # {} =>
         Len(TextOf(observed'[i])) = Last(doc).content]_vars

(* tree/builder.rs: streaming is "O(depth) memory".  Here: no more than    *)
(* two records for each open element, when no rule asks for anything.  A   *)
(* context keeps a summary of each child it closes, asked for or not.      *)
StreamingMemory ==
  MapThenSumSet(LAMBDA k : 1 + Len(context_stack[k].children), DOMAIN context_stack)
    <= 2 * Len(context_stack)
=============================================================================
