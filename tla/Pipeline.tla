------------------------------ MODULE Pipeline ------------------------------
(***************************************************************************)
(* run_pipeline and run_pipeline_streaming (pipeline.rs): rayon workers    *)
(* validate files side by side and send their diagnostics to one bounded   *)
(* crossbeam channel, until no file is left and the call returns the       *)
(* errors of the files that failed.                                        *)
(*                                                                         *)
(* parse_file (module Parser) is seen through its output only: rules       *)
(* report diagnostics, at most MaxPerFile in a file, into a buffer that is *)
(* sent whenever it holds DiagBuffer of them and when the file ends; an    *)
(* error drops what is in the buffer.  Outside the library are the         *)
(* producer at the far end of file_rx and the receiver of the diagnostics. *)
(***************************************************************************)
EXTENDS Naturals, Sequences, FiniteSets, SequencesExt

CONSTANTS Batch,         \* the files, in the order they are given or produced
          Workers,       \* threads of the rayon pool
          Entry,         \* "batch" (run_pipeline) or "streaming"
          Consumer,      \* when the caller reads: "concurrent", "afterwards",
                         \* or "drops", concurrently until it drops diag_rx
          FileCapacity,  \* capacity of the channel of files
          DiagCapacity,  \* capacity of the channel of diagnostics
          DiagBuffer,    \* DIAG_BUFFER_DEFAULT
          MaxPerFile     \* bound on the diagnostics of a file

ASSUME BatchAssumption == Batch \in Seq(Range(Batch)) /\ IsInjective(Batch)
ASSUME WorkersAssumption == IsFiniteSet(Workers) /\ Workers # {}
ASSUME ModesAssumption ==
  /\ Entry \in {"batch", "streaming"}
  /\ Consumer \in {"concurrent", "afterwards", "drops"}
ASSUME CapacityAssumption ==
  /\ FileCapacity \in Nat \ {0} /\ DiagCapacity \in Nat \ {0}
  /\ DiagBuffer \in Nat \ {0} /\ MaxPerFile \in Nat

VARIABLES
  unsent, file_tx,     \* the producer: files to come, its end of the channel
  files,               \* the vector of files, or the channel of files
  worker,              \* what each worker is doing
  reported,            \* number of diagnostics the rules reported, by file
  outcome,             \* what parse_file returned, by file
  diag_tx, diag_rx,    \* the two ends of the channel of diagnostics
  channel, received,   \* diagnostics on their way, and those received
  returned, errors     \* the call has returned, with these errors

producing == <<unsent, file_tx>>
receiving == <<diag_rx, received>>
returning == <<diag_tx, returned, errors>>
vars == <<producing, files, worker, reported, outcome, receiving, channel,
          returning>>

Files == Range(Batch)

Idle == [stage |-> "idle"]

Busy(stage, file, buffer) == [stage |-> stage, file |-> file, buffer |-> buffer]

Diag(file, n) == [file |-> file, number |-> n]

-----------------------------------------------------------------------------
Init ==
  /\ IF Entry = "batch"
     THEN unsent = <<>> /\ file_tx = "dropped" /\ files = Batch
     ELSE unsent = Batch /\ file_tx = "open" /\ files = <<>>
  /\ worker = [w \in Workers |-> Idle]
  /\ reported = [f \in Files |-> 0]
  /\ outcome = [f \in Files |-> "none"]
  /\ diag_tx = "open" /\ diag_rx = "open"
  /\ channel = <<>> /\ received = <<>>
  /\ returned = FALSE /\ errors = {}

(* The producer sends its files and then drops file_tx.                    *)
Produce ==
  /\ unsent # <<>>
  /\ Len(files) < FileCapacity
  /\ files' = Append(files, Head(unsent))
  /\ unsent' = Tail(unsent)
  /\ UNCHANGED <<file_tx, worker, reported, outcome, receiving, channel, returning>>

DropFileTx ==
  /\ unsent = <<>>
  /\ file_tx = "open"
  /\ file_tx' = "dropped"
  /\ UNCHANGED <<unsent, files, worker, reported, outcome, receiving, channel,
                 returning>>

(* Faulty variant: the files are collected before any is validated.        *)
AvailableOnceAllArrived ==
  IF file_tx = "dropped" THEN DOMAIN files ELSE {}

(* A vector is split between the workers at rayon's discretion; par_bridge *)
(* takes the files of a channel in their order.                            *)
Available == IF Entry = "batch" THEN DOMAIN files ELSE {1} \cap DOMAIN files

(* Faulty variant: an item handed out stays for another worker.            *)
StillWaiting(i) == files

LeftWaiting(i) == RemoveAt(files, i)

Take(w) ==
  /\ worker[w] = Idle
  /\ \E i \in Available :
        /\ worker' = [worker EXCEPT ![w] = Busy("parsing", files[i], <<>>)]
        /\ files' = LeftWaiting(i)
  /\ UNCHANGED <<producing, reported, outcome, receiving, channel, returning>>

(* Faulty variant: the buffer may hold DiagBuffer diagnostics.             *)
IsOverfull(buffer) == Len(buffer) > DiagBuffer

IsFull(buffer) == Len(buffer) >= DiagBuffer

(* buffer_diagnostic.                                                      *)
Report(w) ==
  /\ worker[w].stage = "parsing"
  /\ LET f      == worker[w].file
         n      == reported[f] + 1
         buffer == Append(worker[w].buffer, Diag(f, n))
         stage  == IF IsFull(buffer) THEN "flushing" ELSE "parsing"
     IN /\ n <= MaxPerFile
        /\ reported' = [reported EXCEPT ![f] = n]
        /\ worker' = [worker EXCEPT ![w] = Busy(stage, f, buffer)]
  /\ UNCHANGED <<producing, files, outcome, receiving, channel, returning>>

(* End of the file: one last flush.                                        *)
Finish(w) ==
  /\ worker[w].stage = "parsing"
  /\ worker' = [worker EXCEPT ![w].stage = "finishing"]
  /\ UNCHANGED <<producing, files, reported, outcome, receiving, channel, returning>>

(* Faulty variant: a send does not give up when the receiver has gone.     *)
SendToReceiver(diag) ==
  /\ diag_rx # "dropped"
  /\ Len(channel) < DiagCapacity
  /\ channel' = Append(channel, diag)

(* A send waits for room; once the receiver is gone it fails, which        *)
(* flush_diagnostics ignores.                                              *)
Send(diag) ==
  IF diag_rx = "dropped"
  THEN UNCHANGED channel
  ELSE /\ Len(channel) < DiagCapacity
       /\ channel' = Append(channel, diag)

Flush(w) ==
  /\ worker[w].stage \in {"flushing", "finishing"}
  /\ worker[w].buffer # <<>>
  /\ Send(Head(worker[w].buffer))
  /\ worker' = [worker EXCEPT ![w].buffer = Tail(@)]
  /\ UNCHANGED <<producing, files, reported, outcome, receiving, returning>>

Flushed(w) ==
  /\ worker[w].stage = "flushing"
  /\ worker[w].buffer = <<>>
  /\ worker' = [worker EXCEPT ![w].stage = "parsing"]
  /\ UNCHANGED <<producing, files, reported, outcome, receiving, channel, returning>>

Accept(w) ==
  /\ worker[w].stage = "finishing"
  /\ worker[w].buffer = <<>>
  /\ outcome' = [outcome EXCEPT ![worker[w].file] = "ok"]
  /\ worker' = [worker EXCEPT ![w] = Idle]
  /\ UNCHANGED <<producing, files, reported, receiving, channel, returning>>

(* Faulty variant: a worker whose file failed takes no other.              *)
RejectAndStop(w) ==
  /\ worker[w].stage = "parsing"
  /\ outcome' = [outcome EXCEPT ![worker[w].file] = "failed"]
  /\ worker' = [worker EXCEPT ![w].stage = "failed"]
  /\ UNCHANGED <<producing, files, reported, receiving, channel, returning>>

(* parse_file returns an error: its locals go, the buffer among them.      *)
Reject(w) ==
  /\ worker[w].stage = "parsing"
  /\ outcome' = [outcome EXCEPT ![worker[w].file] = "failed"]
  /\ worker' = [worker EXCEPT ![w] = Idle]
  /\ UNCHANGED <<producing, files, reported, receiving, channel, returning>>

(* Faulty variant: files still in hand are not waited for.                 *)
AllTaken == files = <<>> /\ file_tx = "dropped"

(* The parallel iterator is exhausted and every item it yielded processed. *)
Exhausted ==
  files = <<>> /\ file_tx = "dropped" /\ \A w \in Workers : worker[w] = Idle

(* Faulty variant: diag_tx is kept by the caller's side.                   *)
ReturnKeepingTx ==
  /\ ~returned
  /\ Exhausted
  /\ returned' = TRUE
  /\ errors' = {f \in Files : outcome[f] = "failed"}
  /\ UNCHANGED <<producing, files, worker, reported, outcome, receiving, channel,
                 diag_tx>>

(* diag_tx, which the call owns, goes with it.                             *)
Return ==
  /\ ~returned
  /\ Exhausted
  /\ returned' = TRUE
  /\ errors' = {f \in Files : outcome[f] = "failed"}
  /\ diag_tx' = "dropped"
  /\ UNCHANGED <<producing, files, worker, reported, outcome, receiving, channel>>

Receive ==
  /\ diag_rx = "open"
  /\ Consumer = "afterwards" => returned
  /\ channel # <<>>
  /\ received' = Append(received, Head(channel))
  /\ channel' = Tail(channel)
  /\ UNCHANGED <<producing, files, worker, reported, outcome, diag_rx, returning>>

(* Nothing left and no sender: the receiver's iteration ends.              *)
Disconnect ==
  /\ diag_rx = "open"
  /\ channel = <<>>
  /\ diag_tx = "dropped"
  /\ diag_rx' = "ended"
  /\ UNCHANGED <<producing, files, worker, reported, outcome, received, channel,
                 returning>>

DropDiagRx ==
  /\ Consumer = "drops"
  /\ diag_rx = "open"
  /\ diag_rx' = "dropped"
  /\ channel' = <<>>
  /\ UNCHANGED <<producing, files, worker, reported, outcome, received, returning>>

Over == returned /\ diag_rx # "open" /\ UNCHANGED vars

Validate(w) ==
  Report(w) \/ Finish(w) \/ Flush(w) \/ Flushed(w) \/ Accept(w) \/ Reject(w)

Next ==
  \/ Produce
  \/ DropFileTx
  \/ \E w \in Workers : Take(w)
  \/ \E w \in Workers : Validate(w)
  \/ Return
  \/ Receive
  \/ Disconnect
  \/ DropDiagRx
  \/ Over

(* Threads that can run do run.  rayon lets some idle worker take a file   *)
(* that is there, no particular one.  The producer owes nothing.           *)
Fairness ==
  /\ WF_vars(\E w \in Workers : Take(w))
  /\ \A w \in Workers : WF_vars(Validate(w))
  /\ WF_vars(Return)
  /\ WF_vars(Receive)
  /\ WF_vars(Disconnect)

Spec == Init /\ [][Next]_vars /\ Fairness

-----------------------------------------------------------------------------
Diags == [file : Files, number : Nat]

TypeOK ==
  /\ unsent \in Seq(Files) /\ files \in Seq(Files)
  /\ worker \in [Workers ->
        {Idle} \cup [stage : {"parsing", "flushing", "finishing"}, file : Files,
                     buffer : Seq(Diags)]]
  /\ reported \in [Files -> Nat]
  /\ outcome \in [Files -> {"none", "ok", "failed"}]
  /\ file_tx \in {"open", "dropped"} /\ diag_tx \in {"open", "dropped"}
  /\ diag_rx \in {"open", "dropped", "ended"}
  /\ channel \in Seq(Diags) /\ received \in Seq(Diags)
  /\ returned \in BOOLEAN /\ errors \subseteq Files

(* Every file is in one place: with the producer, waiting, in the hands of *)
(* one worker, or done (a file lost or validated twice would break it).    *)
InHand(f) == {w \in Workers : worker[w] # Idle /\ worker[w].file = f}

Waiting(f) == Cardinality({i \in DOMAIN (unsent \o files) : (unsent \o files)[i] = f})

OnePlace ==
  \A f \in Files :
     Waiting(f) + Cardinality(InHand(f)) + (IF outcome[f] = "none" THEN 0 ELSE 1) = 1

(* What has been sent of a file is its first diagnostics, in order, each   *)
(* once, however the workers' sends interleave: all of them if the file    *)
(* was accepted, and if it was rejected all but the last, fewer than       *)
(* DiagBuffer, that were still in the buffer.                              *)
FirstIn(sent, f, n) ==
  LET Mine == {i \in DOMAIN sent : sent[i].file = f}
  IN /\ {sent[i] : i \in Mine} = {Diag(f, k) : k \in 1 .. n}
     /\ \A i, j \in Mine : i < j => sent[i].number < sent[j].number

Delivery ==
  diag_rx # "dropped" =>
    \A f \in Files : \E n \in 0 .. reported[f] :
       /\ FirstIn(received \o channel, f, n)
       /\ outcome[f] = "ok" => n = reported[f]
       /\ outcome[f] = "failed" => n = reported[f] - (reported[f] % DiagBuffer)

(* When the call returns, and so when the receiver's iteration ends, every *)
(* file has been validated, a bad one having kept none of the others from  *)
(* it; the errors name exactly the files that failed, and a receiver whose *)
(* iteration has ended holds all that was sent.                            *)
Complete ==
  /\ returned =>
       \A f \in Files : IF f \in errors THEN outcome[f] = "failed" ELSE outcome[f] = "ok"
  /\ diag_rx = "ended" => returned /\ channel = <<>>

-----------------------------------------------------------------------------
(* A file that has arrived is validated, whatever the producer goes on to  *)
(* do ("validated in parallel as they arrive").                            *)
ArrivedIsValidated ==
  \A f \in Files : f \in Range(files) ~> outcome[f] # "none"

(* The call returns once the producer has dropped its end, even when the   *)
(* receiver is dropped half-way through; and then the receiver's iteration *)
(* ends, since no sender is left.                                          *)
Returns == file_tx = "dropped" ~> returned
IterationEnds == returned ~> diag_rx # "open"
=============================================================================
