--------------------------- MODULE PipelineProofs ---------------------------
(***************************************************************************)
(* When the pipeline returns, every file has been validated and the errors *)
(* name exactly those that failed: for any files, workers, capacities and  *)
(* behaviour of the producer and of the receiver.                          *)
(***************************************************************************)
EXTENDS Pipeline, SequenceFacts

(* No file is forgotten: it is still to come, waiting, in a worker's       *)
(* hands, or done.                                                         *)
NoneForgotten ==
  \A f \in Files :
     \/ f \in Range(unsent) \cup Range(files)
     \/ \E w \in Workers : worker[w] # Idle /\ worker[w].file = f
     \/ outcome[f] # "none"

(* Once the producer has finished nothing more arrives, and once the call  *)
(* has returned nothing is left and nobody works.                          *)
Settled ==
  /\ file_tx = "dropped" => unsent = <<>>
  /\ returned =>
       /\ file_tx = "dropped" /\ files = <<>>
       /\ \A w \in Workers : worker[w] = Idle
       /\ errors = {f \in Files : outcome[f] = "failed"}
  /\ diag_tx = "dropped" => returned
  /\ diag_rx = "ended" => diag_tx = "dropped" /\ channel = <<>>

IInv == TypeOK /\ NoneForgotten /\ Settled

(* The states of a worker with a file in its hands.                        *)
BusyWorkers ==
  [stage : {"parsing", "flushing", "finishing"}, file : Files, buffer : Seq(Diags)]

(* A worker that is not idle has a file in its hands.                      *)
LEMMA WorkerStates ==
  ASSUME TypeOK, NEW w \in Workers, worker[w].stage # "idle"
  PROVE  worker[w] \in BusyWorkers /\ worker[w] # Idle
BY DEF TypeOK, BusyWorkers, Idle

(* The inductive invariant holds initially.                                *)
LEMMA InitIInv == Init => IInv
<1> SUFFICES ASSUME Init PROVE IInv
  OBVIOUS
<1>1. Batch \in Seq(Files) /\ <<>> \in Seq(Files) /\ <<>> \in Seq(Diags)
  BY BatchAssumption, EmptySeq DEF Files
<1>2. TypeOK
  BY <1>1 DEF Init, TypeOK
<1>3. NoneForgotten
  BY DEF Init, NoneForgotten, Files
<1>4. Settled
  BY DEF Init, Settled
<1>5. QED  BY <1>2, <1>3, <1>4 DEF IInv

(* A step in which worker w goes on with the same file: reporting and      *)
(* sending diagnostics.                                                    *)
LEMMA WorkerGoesOn ==
  ASSUME IInv, NEW w \in Workers, worker[w].stage # "idle",
         NEW b \in BusyWorkers, b.file = worker[w].file,
         worker' = [worker EXCEPT ![w] = b],
         reported' \in [Files -> Nat], channel' \in Seq(Diags),
         UNCHANGED <<producing, files, outcome, receiving, returning>>
  PROVE  IInv'
<1>1. worker[w] \in BusyWorkers /\ worker[w] # Idle /\ b # Idle
  BY WorkerStates DEF IInv, BusyWorkers, Idle
<1>2. TypeOK'
  BY DEF IInv, TypeOK, BusyWorkers, producing, receiving, returning
<1>3. NoneForgotten'
  BY <1>1 DEF IInv, TypeOK, NoneForgotten, producing
<1>4. ~returned  BY <1>1 DEF IInv, Settled
<1>5. Settled'
  BY <1>4 DEF IInv, Settled, producing, receiving, returning
<1>6. QED  BY <1>2, <1>3, <1>5 DEF IInv

(* A step in which worker w is done with its file.                         *)
LEMMA WorkerIsDone ==
  ASSUME IInv, NEW w \in Workers, worker[w].stage # "idle",
         NEW result \in {"ok", "failed"},
         outcome' = [outcome EXCEPT ![worker[w].file] = result],
         worker' = [worker EXCEPT ![w] = Idle],
         UNCHANGED <<producing, files, reported, receiving, channel, returning>>
  PROVE  IInv'
<1>1. worker[w] \in BusyWorkers /\ worker[w] # Idle
  BY WorkerStates DEF IInv
<1>2. TypeOK'
  BY <1>1 DEF IInv, TypeOK, BusyWorkers, producing, receiving, returning
<1>3. NoneForgotten'
  BY <1>1 DEF IInv, TypeOK, NoneForgotten, BusyWorkers, producing
<1>4. ~returned  BY <1>1 DEF IInv, Settled
<1>5. Settled'
  BY <1>4 DEF IInv, Settled, producing, receiving, returning
<1>6. QED  BY <1>2, <1>3, <1>5 DEF IInv

(* parse_file and the sends it makes preserve the invariant.               *)
LEMMA ValidateStep ==
  ASSUME IInv, NEW w \in Workers, Validate(w)
  PROVE  IInv'
<1>0. worker[w].stage # "idle" /\ worker[w] \in BusyWorkers
  BY WorkerStates DEF IInv, Validate, Report, Finish, Flush, Flushed, Accept, Reject
<1>1. CASE Report(w)
  <2> DEFINE f      == worker[w].file
             n      == reported[f] + 1
             buffer == Append(worker[w].buffer, Diag(f, n))
             stage  == IF IsFull(buffer) THEN "flushing" ELSE "parsing"
             b      == Busy(stage, f, buffer)
  <2>1. f \in Files /\ n \in Nat /\ reported \in [Files -> Nat]
    BY <1>0 DEF IInv, TypeOK, BusyWorkers
  <2>2. Diag(f, n) \in Diags  BY <2>1 DEF Diag, Diags
  <2>3. worker[w].buffer \in Seq(Diags)  BY <1>0 DEF BusyWorkers
  <2>4. buffer \in Seq(Diags)  BY <2>2, <2>3, AppendProperties
  <2>5. /\ reported' = [reported EXCEPT ![f] = n]
        /\ worker' = [worker EXCEPT ![w] = b]
        /\ UNCHANGED <<producing, files, outcome, receiving, channel, returning>>
    BY <1>1 DEF Report
  <2>6. b \in BusyWorkers /\ b.file = worker[w].file
    <3> HIDE DEF n, buffer
    <3>1. QED  BY <2>1, <2>4 DEF Busy, BusyWorkers
  <2>7. reported' \in [Files -> Nat]
    <3> HIDE DEF n
    <3>1. QED  BY <2>1, <2>5
  <2>8. channel' \in Seq(Diags)  BY <2>5 DEF IInv, TypeOK
  <2> HIDE DEF b
  <2>9. QED  BY <1>0, <2>5, <2>6, <2>7, <2>8, WorkerGoesOn
<1>2. CASE Finish(w) \/ Flushed(w)
  <2>1. PICK stage \in {"parsing", "finishing"} :
           worker' = [worker EXCEPT ![w].stage = stage]
    BY <1>2 DEF Finish, Flushed
  <2> DEFINE b == [worker[w] EXCEPT !.stage = stage]
  <2>2. b \in BusyWorkers /\ b.file = worker[w].file
    BY <1>0 DEF BusyWorkers
  <2>3. worker' = [worker EXCEPT ![w] = b]
    BY <2>1
  <2>4. /\ UNCHANGED <<producing, files, outcome, receiving, returning>>
        /\ reported' \in [Files -> Nat] /\ channel' \in Seq(Diags)
    BY <1>2 DEF Finish, Flushed, IInv, TypeOK
  <2> HIDE DEF b
  <2>5. QED  BY <1>0, <2>2, <2>3, <2>4, WorkerGoesOn
<1>3. CASE Flush(w)
  <2> DEFINE b == [worker[w] EXCEPT !.buffer = Tail(@)]
  <2>1. worker[w].buffer \in Seq(Diags) /\ worker[w].buffer # <<>>
    BY <1>0, <1>3 DEF Flush, BusyWorkers
  <2>2. Head(worker[w].buffer) \in Diags /\ Tail(worker[w].buffer) \in Seq(Diags)
    BY <2>1, HeadTail
  <2>3. b \in BusyWorkers /\ b.file = worker[w].file
    BY <1>0, <2>2 DEF BusyWorkers
  <2>4. worker' = [worker EXCEPT ![w] = b]
    BY <1>3 DEF Flush
  <2>5. channel \in Seq(Diags)  BY DEF IInv, TypeOK
  <2>6. channel' \in Seq(Diags)
    <3>1. channel' = channel \/ channel' = Append(channel, Head(worker[w].buffer))
      BY <1>3 DEF Flush, Send
    <3>2. QED  BY <2>2, <2>5, <3>1, AppendProperties
  <2>7. /\ UNCHANGED <<producing, files, outcome, receiving, returning>>
        /\ reported' \in [Files -> Nat]
    BY <1>3 DEF Flush, IInv, TypeOK
  <2> HIDE DEF b
  <2>8. QED  BY <1>0, <2>3, <2>4, <2>6, <2>7, WorkerGoesOn
<1>4. CASE Accept(w)
  BY <1>0, <1>4, WorkerIsDone DEF Accept
<1>5. CASE Reject(w)
  BY <1>0, <1>5, WorkerIsDone DEF Reject
<1>6. QED  BY <1>1, <1>2, <1>3, <1>4, <1>5 DEF Validate

(* The producer's send moves a file from unsent to files: none is lost.    *)
LEMMA ProduceStep ==
  ASSUME IInv, Produce
  PROVE  IInv'
<1>1. unsent \in Seq(Files) /\ files \in Seq(Files) /\ unsent # <<>>
  BY DEF IInv, TypeOK, Produce
<1>2. /\ Head(unsent) \in Files /\ Tail(unsent) \in Seq(Files)
      /\ Range(unsent) \subseteq Range(Tail(unsent)) \cup {Head(unsent)}
  BY <1>1, HeadTail
<1>3. /\ Append(files, Head(unsent)) \in Seq(Files)
      /\ Range(files) \cup {Head(unsent)} \subseteq Range(Append(files, Head(unsent)))
  BY <1>1, <1>2, AppendKeeps
<1>4. TypeOK'
  BY <1>2, <1>3 DEF IInv, TypeOK, Produce, receiving, returning
<1>5. NoneForgotten'
  BY <1>2, <1>3 DEF IInv, NoneForgotten, Produce
<1>6. ~(file_tx = "dropped")  BY <1>1 DEF IInv, Settled
<1>7. Settled'
  BY <1>6 DEF IInv, Settled, Produce, receiving, returning
<1>8. QED  BY <1>4, <1>5, <1>7 DEF IInv

(* A file taken by a worker leaves the queue for that worker's hands.      *)
LEMMA TakeStep ==
  ASSUME IInv, NEW w \in Workers, Take(w)
  PROVE  IInv'
<1>1. files \in Seq(Files) /\ DOMAIN files = 1 .. Len(files)
  BY LenProperties DEF IInv, TypeOK
<1>2. PICK i \in 1 .. Len(files) :
         /\ worker' = [worker EXCEPT ![w] = Busy("parsing", files[i], <<>>)]
         /\ files' = RemoveAt(files, i)
  BY <1>1 DEF Take, Available, LeftWaiting
<1>3. /\ files' \in Seq(Files) /\ files[i] \in Files
      /\ Range(files) \subseteq Range(files') \cup {files[i]}
  BY <1>1, <1>2, RemoveAtKeeps, ElementOfSeq
<1>4. /\ Busy("parsing", files[i], <<>>) \in BusyWorkers
      /\ Busy("parsing", files[i], <<>>) # Idle
      /\ Busy("parsing", files[i], <<>>).file = files[i]
  BY <1>3, EmptySeq DEF Busy, BusyWorkers, Idle
<1>5. worker[w] = Idle /\ UNCHANGED <<producing, reported, outcome, receiving, channel, returning>>
  BY DEF Take
<1>6. TypeOK'
  BY <1>2, <1>3, <1>4, <1>5 DEF IInv, TypeOK, BusyWorkers, producing, receiving, returning
<1>7. NoneForgotten'
  BY <1>2, <1>3, <1>4, <1>5 DEF IInv, TypeOK, NoneForgotten, producing
<1>8. ~returned
  <2>1. files # <<>>  BY <1>2, EmptySeq
  <2>2. QED  BY <2>1 DEF IInv, Settled
<1>9. Settled'
  BY <1>5, <1>8 DEF IInv, Settled, producing, receiving, returning
<1>10. QED  BY <1>6, <1>7, <1>9 DEF IInv

(* The call returns only with no file left and no worker busy: by then     *)
(* every outcome is settled.                                               *)
LEMMA ReturnStep ==
  ASSUME IInv, Return
  PROVE  IInv'
<1>1. TypeOK'
  BY DEF IInv, TypeOK, Return, producing, receiving
<1>2. NoneForgotten'
  BY DEF IInv, NoneForgotten, Return, producing
<1>3. Settled'
  BY DEF IInv, Settled, Return, Exhausted, producing, receiving
<1>4. QED  BY <1>1, <1>2, <1>3 DEF IInv

(* The receiver's steps touch no file and no worker.                       *)
LEMMA ReceiverStep ==
  ASSUME IInv, Receive \/ Disconnect \/ DropDiagRx
  PROVE  IInv'
<1>1. channel \in Seq(Diags) /\ received \in Seq(Diags)
  BY DEF IInv, TypeOK
<1>2. channel' \in Seq(Diags) /\ received' \in Seq(Diags)
  <2>1. CASE Receive
    <3>1. Head(channel) \in Diags /\ Tail(channel) \in Seq(Diags)
      BY <1>1, <2>1, HeadTail DEF Receive
    <3>2. QED  BY <1>1, <2>1, <3>1, AppendProperties DEF Receive
  <2>2. CASE Disconnect \/ DropDiagRx
    BY <1>1, <2>2, EmptySeq DEF Disconnect, DropDiagRx
  <2>3. QED  BY <2>1, <2>2
<1>3. TypeOK'
  BY <1>2 DEF IInv, TypeOK, Receive, Disconnect, DropDiagRx, producing, returning
<1>4. NoneForgotten'
  BY DEF IInv, NoneForgotten, Receive, Disconnect, DropDiagRx, producing
<1>5. Settled'
  BY DEF IInv, Settled, Receive, Disconnect, DropDiagRx, producing, returning
<1>6. QED  BY <1>3, <1>4, <1>5 DEF IInv

(* Every step preserves the inductive invariant.                           *)
LEMMA IInvStep == IInv /\ [Next]_vars => IInv'
<1> SUFFICES ASSUME IInv, [Next]_vars PROVE IInv'
  OBVIOUS
<1>1. CASE Produce  BY <1>1, ProduceStep
<1>2. CASE DropFileTx
  BY <1>2 DEF IInv, TypeOK, NoneForgotten, Settled, DropFileTx, receiving, returning
<1>3. CASE \E w \in Workers : Take(w)  BY <1>3, TakeStep
<1>4. CASE \E w \in Workers : Validate(w)  BY <1>4, ValidateStep
<1>5. CASE Return  BY <1>5, ReturnStep
<1>6. CASE Receive \/ Disconnect \/ DropDiagRx  BY <1>6, ReceiverStep
<1>7. CASE UNCHANGED vars
  BY <1>7 DEF IInv, TypeOK, NoneForgotten, Settled, vars, producing, receiving, returning
<1>8. QED  BY <1>1, <1>2, <1>3, <1>4, <1>5, <1>6, <1>7 DEF Next, Over

(* For any files, workers, capacities, and behaviour of the producer and   *)
(* of the receiver, the pipeline stays within its types.                   *)
THEOREM TypeCorrect == Spec => []TypeOK
<1>1. IInv => TypeOK  BY DEF IInv
<1>2. QED  BY InitIInv, IInvStep, <1>1, PTL DEF Spec

(* When run_pipeline or run_pipeline_streaming has returned, every file    *)
(* has been validated and the errors are those of the files that failed;   *)
(* when the receiver's iteration has ended, all that was sent has been     *)
(* received.                                                               *)
THEOREM ReturnsComplete == Spec => []Complete
<1>1. IInv => Complete
  <2> SUFFICES ASSUME IInv PROVE Complete
    OBVIOUS
  <2>1. ASSUME returned, NEW f \in Files
        PROVE  IF f \in errors THEN outcome[f] = "failed" ELSE outcome[f] = "ok"
    <3>1. outcome[f] # "none"
      <4>1. Range(<<>>) = {}  BY DEF Range
      <4>2. QED  BY <2>1, <4>1 DEF IInv, NoneForgotten, Settled
    <3>2. QED  BY <2>1, <3>1 DEF IInv, TypeOK, Settled
  <2>2. QED  BY <2>1 DEF Complete, IInv, Settled
<1>2. QED  BY InitIInv, IInvStep, <1>1, PTL DEF Spec
=============================================================================
