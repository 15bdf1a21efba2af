------------------------------ MODULE Capture ------------------------------
(***************************************************************************)
(* CaptureBuilder (reader/capture.rs): the memory-limited stack of         *)
(* BuildNodes on which the events of a captured element are assembled into *)
(* a tree.  A builder is a record [stack, memory_usage, memory_limit]; the *)
(* operations return the builder they leave, and Overflows says whether    *)
(* the limit check that each of them makes fails.                          *)
(*                                                                         *)
(* Sizes are abstract: an element costs NodeBytes (size_of::<BuildNode>    *)
(* and its tag), an attribute AttrBytes, a piece of text one unit.         *)
(***************************************************************************)
EXTENDS Naturals, Sequences, SequencesExt

CONSTANTS NodeBytes, AttrBytes

ASSUME SizesAssumption == NodeBytes \in Nat /\ AttrBytes \in Nat

BuildNode(tag, attrs) ==
  [tag |-> tag, attrs |-> attrs, text |-> <<>>, children |-> <<>>]

NewBuilder(limit) ==
  [stack |-> <<>>, memory_usage |-> 0, memory_limit |-> limit]

(* Faulty variant: a capture may not fill its limit.                       *)
OverflowsWhenFull(builder) == builder.memory_usage >= builder.memory_limit

Overflows(builder) == builder.memory_usage > builder.memory_limit

StartElement(builder, tag, attrs) ==
  [stack        |-> Append(builder.stack, BuildNode(tag, attrs)),
   memory_usage |-> builder.memory_usage + NodeBytes + AttrBytes * Len(attrs),
   memory_limit |-> builder.memory_limit]

(* Faulty variant: every closed node moves under the captured element.     *)
EndElementUnderRoot(builder) ==
  LET rest == Front(builder.stack)
  IN [builder EXCEPT !.stack =
        IF rest = <<>> THEN @ ELSE [rest EXCEPT ![1].children = Append(@, Last(builder.stack))]]

(* The closed node moves under its parent; the outermost one, having no    *)
(* parent, goes back on the stack to wait for finalize.                    *)
EndElement(builder) ==
  LET node == Last(builder.stack)
      rest == Front(builder.stack)
  IN [stack |-> IF rest = <<>>
                THEN <<node>>
                ELSE [rest EXCEPT ![Len(rest)].children = Append(@, node)],
      memory_usage |-> builder.memory_usage,
      memory_limit |-> builder.memory_limit]

TextPiece(builder, piece) ==
  LET top == Len(builder.stack)
  IN [stack        |-> [builder.stack EXCEPT ![top].text = Append(@, piece)],
      memory_usage |-> builder.memory_usage + 1,
      memory_limit |-> builder.memory_limit]

(* finalize: the arena copy of the first node of the stack, field by       *)
(* field and child by child, is that node.                                 *)
Finalize(builder) == Head(builder.stack)
=============================================================================
