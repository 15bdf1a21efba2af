------------------------------- MODULE Views -------------------------------
(***************************************************************************)
(* What a rule sees: the NodeAccess interface (rule.rs) as implemented by  *)
(* StreamingViewOwned (reader/parser.rs), for an element closed in         *)
(* streaming mode, and by SubtreeView (view.rs), for a captured one.       *)
(*                                                                         *)
(* A view is a record with the fields of the Rust structs: kind, ctx or    *)
(* root, descriptor_id, index and parent_stack, the contexts of the        *)
(* ancestors, outermost first.                                             *)
(*                                                                         *)
(* The rules are the user's (external): evaluate() may return any          *)
(* diagnostics, here at most MaxDiags per element.                         *)
(***************************************************************************)
EXTENDS Naturals, Sequences

CONSTANT MaxDiags

StreamingViewOwned(ctx, parent_stack) ==
  [kind |-> "streaming", ctx |-> ctx, parent_stack |-> parent_stack]

SubtreeView(root, descriptor_id, index, parent_stack) ==
  [kind |-> "subtree", root |-> root, descriptor_id |-> descriptor_id,
   index |-> index, parent_stack |-> parent_stack]

IsSubtree(v) == v.kind = "subtree"

NodeOf(v) == IF IsSubtree(v) THEN v.descriptor_id ELSE v.ctx.descriptor_id

TagOf(tree, v) ==
  IF IsSubtree(v) THEN v.root.tag ELSE tree.nodes[NodeOf(v)].tag

AttrsOf(v) == IF IsSubtree(v) THEN v.root.attrs ELSE v.ctx.attrs

TextOf(v) == IF IsSubtree(v) THEN v.root.text ELSE v.ctx.text

ElementIndex(v) == IF IsSubtree(v) THEN v.index ELSE v.ctx.index

PathOf(tree, v) == tree.nodes[NodeOf(v)].full_path

ChildrenSummaries(v) == IF IsSubtree(v) THEN <<>> ELSE v.ctx.children

(* An Option is a sequence of at most one value.                           *)
Subtree(v) == IF IsSubtree(v) THEN <<v.root>> ELSE <<>>

Depth(v) == Len(v.parent_stack)

(* The ancestor `level` steps above the parent: checked_sub(level + 1) is  *)
(* None below zero, and Rust counts the stack from 0.                      *)
Ancestor(v, level) ==
  IF Len(v.parent_stack) < level + 1
  THEN <<>>
  ELSE <<v.parent_stack[Len(v.parent_stack) - level]>>

-----------------------------------------------------------------------------
(* The diagnostics an evaluation of all rules of a node may yield, in the  *)
(* order of the rules, and the indexes, from 0, of the rules that stayed   *)
(* silent: what passes, before it is packed.                               *)
Diagnostic(tree, node) == [node : {node}, rule : DOMAIN tree.nodes[node].rules]

Evaluations(tree, node) ==
  {diags \in UNION {[1 .. n -> Diagnostic(tree, node)] : n \in 0 .. MaxDiags} :
     \A i, j \in DOMAIN diags : i < j => diags[i].rule <= diags[j].rule}

Passed(tree, node, diags) ==
  {r - 1 : r \in {k \in DOMAIN tree.nodes[node].rules :
                    \A i \in DOMAIN diags : diags[i].rule # k}}
=============================================================================
