----------------------------- MODULE FileOutput -----------------------------
(***************************************************************************)
(* What the receiver of the diagnostics is promised of one file, whoever   *)
(* else sends on the same channel: the diagnostics that the rules produce  *)
(* arrive in their order, each once, at most DiagBuffer of them are ever   *)
(* held back, none after the file is accepted and fewer than DiagBuffer    *)
(* are lost if it is rejected; nothing comes after the verdict.            *)
(*                                                                         *)
(* Parser implements it, and so does Pipeline for each of its files: where *)
(* the two models meet.                                                    *)
(***************************************************************************)
EXTENDS Naturals, Sequences, SequencesExt

CONSTANT DiagBuffer

VARIABLES produced, delivered, verdict

vars == <<produced, verdict, delivered>>

(* Input may be refused before the first rule runs.                        *)
Init ==
  /\ produced = <<>>
  /\ delivered = <<>>
  /\ verdict \in {"none", "failed"}

Progress ==
  /\ verdict = "none"
  /\ IsPrefix(produced, produced')
  /\ IsPrefix(delivered, delivered')
  /\ IsPrefix(delivered', produced')
  /\ Len(produced') - Len(delivered') <= DiagBuffer
  /\ UNCHANGED verdict

Accept ==
  /\ verdict = "none"
  /\ verdict' = "ok"
  /\ delivered' = produced
  /\ UNCHANGED produced

Reject ==
  /\ verdict = "none"
  /\ verdict' = "failed"
  /\ Len(produced) - Len(delivered) < DiagBuffer
  /\ UNCHANGED <<produced, delivered>>

Next == Progress \/ Accept \/ Reject

Spec == Init /\ [][Next]_vars
=============================================================================
