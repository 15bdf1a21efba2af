--------------------------- MODULE PipelineOutput ---------------------------
(***************************************************************************)
(* What the receiver of the diagnostics sees of one file of the pipeline,  *)
(* Watched, whichever of the files that is: what of the other files comes  *)
(* in between is left out.                                                 *)
(***************************************************************************)
EXTENDS Pipeline

CONSTANT Watched

ASSUME WatchedAssumption == Watched \in Files

(* A file's part of what is sent.                                          *)
Of(file, sent) ==
  LET Upto[i \in 0 .. Len(sent)] ==
        IF i = 0 THEN <<>>
        ELSE IF sent[i].file = file THEN Append(Upto[i - 1], sent[i])
        ELSE Upto[i - 1]
  IN Upto[Len(sent)]

(* The first diagnostics of the file.                                      *)
FirstDiags(n) == [i \in 1 .. n |-> Diag(Watched, i)]

Output == INSTANCE FileOutput
            WITH produced  <- FirstDiags(reported[Watched]),
                 delivered <- Of(Watched, received \o channel),
                 verdict   <- outcome[Watched]

(* To a receiver that stays the file is as if it were the only one: no     *)
(* order of the workers' sends disturbs what is promised of it             *)
(* (process_file, with diagnostics_tx shared by all).                      *)
FileAsAlone == Output!Spec
=============================================================================
