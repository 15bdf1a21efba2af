--------------------------- MODULE CaptureMemory ---------------------------
(***************************************************************************)
(* What the memory limit of a capture promises, stated over the document:  *)
(* the builder of capture.rs only ever counts what is added.               *)
(***************************************************************************)
EXTENDS Parser

CONSTANT SizeOf(_)   \* what a BuildNode and all nodes below it cost

(* A size is known by how it grows.                                        *)
Grows(tag, attrs, text, children, piece, child) ==
  LET size(t, c) ==
        SizeOf([tag |-> tag, attrs |-> attrs, text |-> t, children |-> c])
  IN /\ size(<<>>, <<>>) = NodeBytes + AttrBytes * Len(attrs)
     /\ size(text, children) \in Nat
     /\ size(Append(text, piece), children) = size(text, children) + 1
     /\ size(text, Append(children, child)) = size(text, children) + SizeOf(child)

IsSize ==
  \A tag, attrs, text, children, piece, child :
    IsSeq(attrs) /\ IsSeq(text) /\ IsSeq(children) =>
      Grows(tag, attrs, text, children, piece, child)

-----------------------------------------------------------------------------
(* The open element at that depth is in a captured element or is one.      *)
InCapture(depth) ==
  \E d \in 1 .. depth : \E n \in DV!Declared(d) : IsCapture(tree.nodes[n].needs)

(* The first n sizes together.                                             *)
Total(sizes, n) ==
  LET upTo[i \in 0 .. n] == IF i = 0 THEN 0 ELSE upTo[i - 1] + sizes[i]
  IN upTo[n]

(* What a capture must hold: the captured element and all that was read in *)
(* it, under its open elements and in those it has closed.                 *)
CapturedSize ==
  Total([d \in 1 .. Len(doc) |-> IF InCapture(d) THEN SizeOf(Dom(doc[d])) ELSE 0],
        Len(doc))

(* capture_limit is enforced exactly: a capture that goes on is within the *)
(* limit, and one that is refused had just gone over it (check_limit runs  *)
(* after every addition and before anything is stored).                    *)
CaptureBudget ==
  /\ status = "reading" /\ InCapture(Len(doc)) =>
        CapturedSize <= tree.capture_memory_limit
  /\ status = "CaptureOverflow" =>
        InCapture(Len(doc)) /\ CapturedSize > tree.capture_memory_limit
=============================================================================
