--------------------------- MODULE DeliveryProofs ---------------------------
(***************************************************************************)
(* Each file of the pipeline is in one place at a time, and what the       *)
(* receiver gets of it is what the file's rules reported, in their order:  *)
(* for any files, workers and capacities.                                  *)
(***************************************************************************)
EXTENDS PipelineProofs, PipelineOutput, FiniteSetTheorems

(* No file is in two places: waiting twice, waiting and being validated or *)
(* done, in the hands of two workers, or done while in a worker's hands.   *)
Apart ==
  /\ IsInjective(unsent) /\ IsInjective(files)
  /\ Range(unsent) \cap Range(files) = {}
  /\ \A f \in Range(unsent) \cup Range(files) : outcome[f] = "none" /\ reported[f] = 0
  /\ \A w \in Workers : worker[w] # Idle =>
        /\ worker[w].file \notin Range(unsent) \cup Range(files)
        /\ outcome[worker[w].file] = "none"
        /\ \A v \in InHand(worker[w].file) : v = w

(* A worker's buffer holds the last of the n diagnostics reported in its   *)
(* file; while it parses, those since the last full buffer.                *)
HoldsLast(b, n) ==
  /\ Len(b.buffer) <= n
  /\ \A i \in 1 .. Len(b.buffer) : b.buffer[i] = Diag(b.file, n - Len(b.buffer) + i)
  /\ b.stage = "parsing" => Len(b.buffer) = n % DiagBuffer
  /\ b.stage = "flushing" => n % DiagBuffer = 0

BuffersLast ==
  \A w \in Workers : worker[w] # Idle => HoldsLast(worker[w], reported[worker[w].file])

(* What has left the buffer has been sent.                                 *)
SentBefore(f, n) == FirstIn(received \o channel, f, n)

RestIsSent ==
  diag_rx # "dropped" =>
    \A f \in Files :
       /\ f \in Range(unsent) \cup Range(files) => SentBefore(f, 0)
       /\ \A w \in InHand(f) : SentBefore(f, reported[f] - Len(worker[w].buffer))
       /\ outcome[f] = "ok" => SentBefore(f, reported[f])
       /\ outcome[f] = "failed" => SentBefore(f, reported[f] - (reported[f] % DiagBuffer))

DInv == IInv /\ Apart /\ BuffersLast /\ RestIsSent

-----------------------------------------------------------------------------
(* Initially all files wait, each once, since they are distinct.           *)
LEMMA InitApart == Init => Apart
<1> SUFFICES ASSUME Init PROVE Apart
  OBVIOUS
<1>1. IsInjective(Batch) /\ IsInjective(<<>>) /\ Range(<<>>) = {}
  BY BatchAssumption DEF IsInjective, Range
<1>2. QED  BY <1>1 DEF Init, Apart, Files

(* The producer's send takes a file out of unsent and into files.          *)
LEMMA ProduceApart ==
  ASSUME IInv, Apart, Produce
  PROVE  Apart'
<1>1. unsent \in Seq(Files) /\ files \in Seq(Files) /\ unsent # <<>>
  BY DEF IInv, TypeOK, Produce
<1>2. /\ IsInjective(unsent') /\ Range(unsent') = Range(unsent) \ {Head(unsent)}
      /\ Head(unsent) \in Range(unsent) /\ Head(unsent) \in Files
  BY <1>1, HeadTail DEF Apart, Produce
<1>3. IsInjective(files') /\ Range(files') = Range(files) \cup {Head(unsent)}
  BY <1>1, <1>2, AppendKeeps DEF Apart, Produce
<1>4. Range(unsent') \cup Range(files') = Range(unsent) \cup Range(files)
  BY <1>2, <1>3
<1>5. UNCHANGED <<worker, outcome, reported>>
  BY DEF Produce
<1>6. Range(unsent') \cap Range(files') = {}
  BY <1>2, <1>3 DEF Apart
<1>7. QED  BY <1>2, <1>3, <1>4, <1>5, <1>6 DEF Apart, InHand

(* A file taken leaves files for one worker's hands.                       *)
LEMMA TakeApart ==
  ASSUME IInv, Apart, NEW w \in Workers, Take(w)
  PROVE  Apart'
<1>1. files \in Seq(Files) /\ DOMAIN files = 1 .. Len(files)
  BY LenProperties DEF IInv, TypeOK
<1>2. PICK i \in 1 .. Len(files) :
         /\ worker' = [worker EXCEPT ![w] = Busy("parsing", files[i], <<>>)]
         /\ files' = RemoveAt(files, i)
  BY <1>1 DEF Take, Available, LeftWaiting
<1>3. IsInjective(files') /\ Range(files') = Range(files) \ {files[i]}
  BY <1>1, <1>2, RemoveAtKeeps DEF Apart
<1>4. files[i] \in Range(files)  BY <1>1 DEF Range
<1>5. worker[w] = Idle /\ UNCHANGED <<unsent, outcome, reported>>
  BY DEF Take, producing
<1>6. Busy("parsing", files[i], <<>>).file = files[i]
  BY DEF Busy
<1>7. worker \in [Workers -> {Idle} \cup BusyWorkers]
  BY DEF IInv, TypeOK, BusyWorkers
<1>8. ASSUME NEW v \in Workers, worker'[v] # Idle
      PROVE  /\ worker'[v].file \notin Range(unsent') \cup Range(files')
             /\ outcome'[worker'[v].file] = "none"
             /\ (\A u \in InHand(worker[v].file) : u = v)'
  <2>1. CASE v = w
    <3>1. worker'[v].file = files[i]  BY <1>2, <1>6, <1>7, <2>1
    <3>2. files[i] \notin Range(unsent)  BY <1>4 DEF Apart
    <3>3. \A u \in Workers : worker'[u] # Idle /\ worker'[u].file = files[i] => u = w
      BY <1>2, <1>4, <1>7 DEF Apart
    <3>4. QED  BY <1>3, <1>4, <1>5, <2>1, <3>1, <3>2, <3>3 DEF Apart, InHand
  <2>2. CASE v # w
    <3>1. worker'[v] = worker[v]  BY <1>2, <1>7, <2>2
    <3>2. worker[v].file # files[i]  BY <1>4, <1>8, <3>1 DEF Apart
    <3>3. \A u \in Workers : worker'[u] # Idle /\ worker'[u].file = worker[v].file => u = v
      BY <1>2, <1>6, <1>7, <1>8, <3>1, <3>2 DEF Apart, InHand
    <3>4. QED  BY <1>3, <1>5, <1>8, <3>1, <3>3 DEF Apart, InHand
  <2>3. QED  BY <2>1, <2>2
<1>9. /\ Range(unsent') \cap Range(files') = {} /\ IsInjective(unsent')
      /\ \A f \in Range(unsent') \cup Range(files') :
            outcome'[f] = "none" /\ reported'[f] = 0
  BY <1>3, <1>5 DEF Apart
<1>10. QED  BY <1>3, <1>8, <1>9 DEF Apart

(* A worker that goes on with its file disturbs no other place.            *)
LEMMA GoesOnApart ==
  ASSUME IInv, Apart, NEW w \in Workers, worker[w].stage # "idle",
         NEW b \in BusyWorkers, b.file = worker[w].file,
         worker' = [worker EXCEPT ![w] = b],
         NEW n, reported' = [reported EXCEPT ![worker[w].file] = n],
         UNCHANGED <<unsent, files, outcome>>
  PROVE  Apart'
<1>1. worker[w] \in BusyWorkers /\ worker[w] # Idle /\ b # Idle
  BY WorkerStates DEF IInv, BusyWorkers, Idle
<1>2. /\ worker \in [Workers -> {Idle} \cup BusyWorkers]
      /\ reported \in [Files -> Nat]
      /\ unsent \in Seq(Files) /\ files \in Seq(Files)
  BY DEF IInv, TypeOK, BusyWorkers
<1>3. \A v \in Workers : /\ worker'[v] # Idle <=> worker[v] # Idle
                         /\ worker[v] # Idle => worker'[v].file = worker[v].file
  BY <1>1, <1>2
<1>4. \A f : InHand(f)' = InHand(f)
  BY <1>3 DEF InHand
<1>5. \A f \in Range(unsent) \cup Range(files) : f # worker[w].file
  BY <1>1 DEF Apart
<1>6. \A f \in Range(unsent) \cup Range(files) : f \in Files
  BY <1>2, LenProperties, ElementOfSeq DEF Range
<1>7. \A f \in Range(unsent) \cup Range(files) : reported'[f] = reported[f]
  BY <1>2, <1>5, <1>6
<1>8. QED  BY <1>3, <1>4, <1>7 DEF Apart

(* A worker that is done lets go of its file, which now has an outcome.    *)
LEMMA IsDoneApart ==
  ASSUME IInv, Apart, NEW w \in Workers, worker[w].stage # "idle",
         NEW result \in {"ok", "failed"},
         outcome' = [outcome EXCEPT ![worker[w].file] = result],
         worker' = [worker EXCEPT ![w] = Idle],
         UNCHANGED <<unsent, files, reported>>
  PROVE  Apart'
<1>1. worker[w] \in BusyWorkers /\ worker[w] # Idle
  BY WorkerStates DEF IInv
<1>2. /\ worker \in [Workers -> {Idle} \cup BusyWorkers]
      /\ outcome \in [Files -> {"none", "ok", "failed"}]
      /\ unsent \in Seq(Files) /\ files \in Seq(Files)
  BY DEF IInv, TypeOK, BusyWorkers
<1>3. \A f \in Range(unsent) \cup Range(files) :
         outcome'[f] = outcome[f]
  BY <1>1, <1>2 DEF Apart
<1>4. ASSUME NEW v \in Workers, worker'[v] # Idle
      PROVE  /\ worker[v] # Idle /\ worker'[v] = worker[v]
             /\ outcome'[worker[v].file] = outcome[worker[v].file]
             /\ InHand(worker[v].file)' \subseteq InHand(worker[v].file)
  <2>1. v # w /\ worker'[v] = worker[v]  BY <1>2, <1>4
  <2>2. worker[v].file # worker[w].file
    BY <1>1, <1>4, <2>1 DEF Apart, InHand
  <2>3. \A u \in Workers : worker'[u] = worker[u] \/ worker'[u] = Idle
    BY <1>2
  <2>4. InHand(worker[v].file)' \subseteq InHand(worker[v].file)
    BY <2>1, <2>3 DEF InHand
  <2>5. QED  BY <1>2, <1>4, <2>1, <2>2, <2>4
<1>5. QED  BY <1>3, <1>4 DEF Apart

(* Being apart and not forgotten is being in one place.                    *)
LEMMA ApartIsOnePlace == IInv /\ Apart => OnePlace
<1> SUFFICES ASSUME IInv, Apart, NEW f \in Files
             PROVE  Waiting(f) + Cardinality(InHand(f))
                      + (IF outcome[f] = "none" THEN 0 ELSE 1) = 1
  BY DEF OnePlace
<1> DEFINE all == unsent \o files
           P   == {i \in DOMAIN all : all[i] = f}
<1>1. /\ unsent \in Seq(Files) /\ files \in Seq(Files)
      /\ worker \in [Workers -> {Idle} \cup BusyWorkers]
  BY DEF IInv, TypeOK, BusyWorkers
<1>2. IsInjective(all) /\ Range(all) = Range(unsent) \cup Range(files)
  BY <1>1, ConcatApart DEF Apart
<1> HIDE DEF all
<1>3. Waiting(f) = Cardinality(P)  BY DEF Waiting, all
<1>4. /\ Cardinality({}) = 0
      /\ \A x : Cardinality({x}) = 1
  BY FS_EmptySet, FS_Singleton
<1>5. CASE f \in Range(all)
  <2>1. PICK i \in DOMAIN all : all[i] = f  BY <1>5 DEF Range
  <2>2. P = {i}  BY <1>2, <2>1 DEF IsInjective
  <2>3. InHand(f) = {}  BY <1>2, <1>5 DEF Apart, InHand
  <2>4. outcome[f] = "none"  BY <1>2, <1>5 DEF Apart
  <2>5. Waiting(f) = 1 /\ Cardinality(InHand(f)) = 0
    <3> HIDE DEF P
    <3> QED  BY <1>3, <1>4, <2>2, <2>3
  <2>6. QED  BY <2>4, <2>5
<1>6. CASE f \notin Range(all) /\ outcome[f] # "none"
  <2>1. P = {}  BY <1>6 DEF Range
  <2>2. InHand(f) = {}  BY <1>6 DEF Apart, InHand
  <2>3. QED  BY <1>3, <1>4, <1>6, <2>1, <2>2
<1>7. CASE f \notin Range(all) /\ outcome[f] = "none"
  <2>1. P = {}  BY <1>7 DEF Range
  <2>2. PICK w \in Workers : w \in InHand(f)
    BY <1>2, <1>7 DEF IInv, NoneForgotten, InHand
  <2>3. InHand(f) = {w}  BY <2>2 DEF Apart, InHand
  <2>4. Waiting(f) = 0 /\ Cardinality(InHand(f)) = 1
    <3> HIDE DEF P
    <3> QED  BY <1>3, <1>4, <2>1, <2>3
  <2>5. QED  BY <1>7, <2>4
<1>8. QED  BY <1>5, <1>6, <1>7

-----------------------------------------------------------------------------
(* Nothing of any file is in an empty sequence.                            *)
LEMMA FirstInEmpty == ASSUME NEW f PROVE FirstIn(<<>>, f, 0)
BY DEF FirstIn

(* Sending the next diagnostic of a file leaves the first ones, one more,  *)
(* of that file, and changes nothing for the others.                       *)
LEMMA FirstInAppend ==
  ASSUME NEW s \in Seq(Diags), NEW f \in Files, NEW n \in Nat, FirstIn(s, f, n)
  PROVE  /\ FirstIn(Append(s, Diag(f, n + 1)), f, n + 1)
         /\ \A g, m : g # f /\ FirstIn(s, g, m) => FirstIn(Append(s, Diag(f, n + 1)), g, m)
<1> DEFINE e == Diag(f, n + 1)
           t == Append(s, e)
           l == Len(s)
           Mine(g)   == {i \in DOMAIN s : s[i].file = g}
           MineNow(g) == {i \in DOMAIN t : t[i].file = g}
<1>1. e \in Diags /\ e.file = f /\ e.number = n + 1  BY DEF Diag, Diags
<1> HIDE DEF e
<1>2. /\ l \in Nat /\ DOMAIN s = 1 .. l /\ t \in Seq(Diags) /\ DOMAIN t = 1 .. l + 1
      /\ \A i \in 1 .. l : t[i] = s[i]
      /\ t[l + 1] = e
  <2>1. t \in Seq(Diags) /\ Len(t) = l + 1  BY <1>1, AppendProperties
  <2>2. QED  BY <1>1, <2>1, AppendProperties, LenProperties
<1>3. \A i \in 1 .. l : s[i] \in Diags  BY ElementOfSeq
<1> HIDE DEF l, t
<1>4. \A i \in 1 .. l + 1 : i \in 1 .. l \/ i = l + 1  BY <1>2
<1>5. 1 .. l \subseteq 1 .. l + 1 /\ l + 1 \in 1 .. l + 1 /\ l + 1 \notin 1 .. l  BY <1>2
<1>6. MineNow(f) = Mine(f) \cup {l + 1}
  BY <1>1, <1>2, <1>4, <1>5
<1>7. \A g : g # f => MineNow(g) = Mine(g)
  BY <1>1, <1>2, <1>4, <1>5
<1>8. \A g : Mine(g) \subseteq 1 .. l  BY <1>2
<1>9. /\ {s[i] : i \in Mine(f)} = {Diag(f, k) : k \in 1 .. n}
      /\ \A i, j \in Mine(f) : i < j => s[i].number < s[j].number
  BY DEF FirstIn
<1>10. FirstIn(t, f, n + 1)
  <2>1. {t[i] : i \in MineNow(f)} = {s[i] : i \in Mine(f)} \cup {e}
    <3> HIDE DEF Mine, MineNow
    <3>1. QED  BY <1>2, <1>6, <1>8
  <2>2. {Diag(f, k) : k \in 1 .. n + 1} = {Diag(f, k) : k \in 1 .. n} \cup {e}
    <3>1. 1 .. n + 1 = 1 .. n \cup {n + 1}  OBVIOUS
    <3>2. QED  BY <3>1 DEF e
  <2>3. ASSUME NEW i \in MineNow(f), NEW j \in MineNow(f), i < j
        PROVE  t[i].number < t[j].number
    <3>1. i \in 1 .. l + 1 /\ j \in 1 .. l + 1  BY <1>2
    <3>2. i \in Mine(f) /\ i \in 1 .. l
      <4>1. i # l + 1  BY <1>2, <2>3, <3>1
      <4>2. QED  BY <1>6, <1>8, <4>1
    <3>3. CASE j \in Mine(f)
      <4>1. j \in 1 .. l  BY <1>8, <3>3
      <4>2. t[i] = s[i] /\ t[j] = s[j]  BY <1>2, <3>2, <4>1
      <4>3. s[i].number < s[j].number  BY <1>9, <2>3, <3>2, <3>3
      <4>4. QED  BY <4>2, <4>3
    <3>4. CASE j = l + 1
      <4>1. PICK k \in 1 .. n : s[i] = Diag(f, k)
        <5>1. s[i] \in {s[h] : h \in Mine(f)}  BY <3>2
        <5>2. QED  BY <1>9, <5>1
      <4>2. t[i].number = k  BY <1>2, <3>2, <4>1 DEF Diag
      <4>3. t[j].number = n + 1  BY <1>1, <1>2, <3>4
      <4>4. QED  BY <4>2, <4>3
    <3>5. QED  BY <1>6, <3>3, <3>4
  <2>4. QED  BY <1>9, <2>1, <2>2, <2>3 DEF FirstIn
<1>11. ASSUME NEW g, NEW m, g # f, FirstIn(s, g, m)
       PROVE  FirstIn(t, g, m)
  <2>1. MineNow(g) = Mine(g)  BY <1>7, <1>11
  <2>2. \A i \in Mine(g) : t[i] = s[i]  BY <1>2, <1>8
  <2>3. {t[i] : i \in Mine(g)} = {s[i] : i \in Mine(g)}
    <3> HIDE DEF Mine
    <3>1. QED  BY <2>2
  <2>4. QED  BY <1>11, <2>1, <2>2, <2>3 DEF FirstIn
<1>12. QED  BY <1>10, <1>11 DEF t, e

(* Nothing is sent of a file that waits, and no buffer holds any of it.    *)
LEMMA InitSent == Init => BuffersLast /\ RestIsSent
<1> SUFFICES ASSUME Init PROVE BuffersLast /\ RestIsSent
  OBVIOUS
<1>1. received \o channel = <<>>
  <2>1. <<>> \in Seq(Diags) /\ received = <<>> /\ channel = <<>>  BY EmptySeq DEF Init
  <2>2. QED  BY <2>1, ConcatEmptySeq
<1>2. BuffersLast  BY DEF Init, BuffersLast
<1>3. \A f \in Files : InHand(f) = {} /\ outcome[f] = "none"
  BY DEF Init, InHand
<1>4. \A f \in Files : SentBefore(f, 0)  BY <1>1, FirstInEmpty DEF SentBefore
<1>5. RestIsSent  BY <1>3, <1>4 DEF RestIsSent
<1>6. QED  BY <1>2, <1>5

(* A step in which a worker goes on with its file, and sends or reports    *)
(* nothing of the others.                                                  *)
LEMMA GoesOnSent ==
  ASSUME DInv, NEW w \in Workers, worker[w].stage # "idle",
         NEW b \in BusyWorkers, b.file = worker[w].file,
         worker' = [worker EXCEPT ![w] = b],
         NEW n \in Nat, reported' = [reported EXCEPT ![b.file] = n],
         UNCHANGED <<unsent, files, outcome, diag_rx>>,
         HoldsLast(b, n),
         diag_rx # "dropped" =>
           /\ FirstIn((received \o channel)', b.file, n - Len(b.buffer))
           /\ \A g, m : g # b.file /\ SentBefore(g, m) => FirstIn((received \o channel)', g, m)
  PROVE  BuffersLast' /\ RestIsSent'
<1> DEFINE f == b.file
<1>1. worker[w] \in BusyWorkers /\ worker[w] # Idle /\ b # Idle
  BY WorkerStates DEF DInv, IInv, BusyWorkers, Idle
<1>2. /\ worker \in [Workers -> {Idle} \cup BusyWorkers]
      /\ reported \in [Files -> Nat] /\ f \in Files
  BY DEF DInv, IInv, TypeOK, BusyWorkers
<1>3. ASSUME NEW v \in Workers, v # w, worker[v] # Idle
      PROVE  worker'[v] = worker[v] /\ worker[v].file # f
    BY <1>1, <1>2, <1>3 DEF DInv, Apart, InHand
<1>4. worker'[w] = b /\ reported'[f] = n /\ outcome[f] = "none"
  BY <1>1, <1>2 DEF DInv, Apart
<1>5. \A g : g # f => reported'[g] = reported[g]
  BY <1>2
<1>6. BuffersLast'
  <2> SUFFICES ASSUME NEW v \in Workers, worker'[v] # Idle
               PROVE  HoldsLast(worker'[v], reported'[worker'[v].file])
    BY DEF BuffersLast, HoldsLast
  <2>1. CASE v = w  BY <1>4, <2>1
  <2>2. CASE v # w
    <3>1. worker'[v] = worker[v] /\ worker[v] # Idle  BY <1>2, <2>2
    <3>2. reported'[worker[v].file] = reported[worker[v].file]
      BY <1>3, <1>5, <2>2, <3>1
    <3>3. QED  BY <3>1, <3>2 DEF DInv, BuffersLast
  <2>3. QED  BY <2>1, <2>2
<1>7. ASSUME diag_rx' # "dropped", NEW g \in Files
      PROVE  /\ g \in Range(unsent') \cup Range(files') => SentBefore(g, 0)'
             /\ \A v \in InHand(g)' : SentBefore(g, reported[g] - Len(worker[v].buffer))'
             /\ outcome'[g] = "ok" => SentBefore(g, reported[g])'
             /\ outcome'[g] = "failed" => SentBefore(g, reported[g] - (reported[g] % DiagBuffer))'
  <2>1. CASE g = f
    <3>1. g \notin Range(unsent') \cup Range(files')  BY <1>1, <2>1 DEF DInv, Apart
    <3>2. InHand(g)' \subseteq {w}
      <4>1. \A v \in Workers : v # w /\ worker'[v] # Idle => worker'[v].file # f
        BY <1>2, <1>3
      <4>2. QED  BY <2>1, <4>1 DEF InHand
    <3>3. SentBefore(g, reported[g] - Len(worker[w].buffer))'
      BY <1>4, <1>7, <2>1 DEF SentBefore
    <3>4. QED  BY <1>4, <2>1, <3>1, <3>2, <3>3
  <2>2. CASE g # f
    <3>1. reported'[g] = reported[g] /\ outcome'[g] = outcome[g]  BY <1>5, <2>2
    <3>2. \A m : SentBefore(g, m) => FirstIn((received \o channel)', g, m)  BY <1>7, <2>2
    <3>3. \A v \in InHand(g)' : v \in InHand(g) /\ worker'[v] = worker[v]
      BY <1>2, <1>4, <2>2 DEF InHand
    <3>4. g \in Range(unsent') \cup Range(files') => SentBefore(g, 0)'
      BY <1>7, <3>2 DEF DInv, RestIsSent, SentBefore
    <3>5. \A v \in InHand(g)' : SentBefore(g, reported[g] - Len(worker[v].buffer))'
      BY <1>7, <3>1, <3>2, <3>3 DEF DInv, RestIsSent, SentBefore
    <3>6. outcome'[g] = "ok" => SentBefore(g, reported[g])'
      BY <1>7, <3>1, <3>2 DEF DInv, RestIsSent, SentBefore
    <3>7. outcome'[g] = "failed" => SentBefore(g, reported[g] - (reported[g] % DiagBuffer))'
      BY <1>7, <3>1, <3>2 DEF DInv, RestIsSent, SentBefore
    <3>8. QED  BY <3>4, <3>5, <3>6, <3>7
  <2>3. QED  BY <2>1, <2>2
<1>8. RestIsSent'
  BY <1>7 DEF RestIsSent
<1>9. QED  BY <1>6, <1>8

(* Reporting a diagnostic adds it to the worker's buffer.                  *)
LEMMA ReportSent ==
  ASSUME DInv, NEW w \in Workers, Report(w)
  PROVE  Apart' /\ BuffersLast' /\ RestIsSent'
<1> DEFINE f      == worker[w].file
           old    == worker[w].buffer
           n      == reported[f] + 1
           buffer == Append(old, Diag(f, n))
           stage  == IF IsFull(buffer) THEN "flushing" ELSE "parsing"
           b      == Busy(stage, f, buffer)
<1>1. worker[w].stage = "parsing" /\ worker[w] \in BusyWorkers /\ worker[w] # Idle
  BY WorkerStates DEF DInv, IInv, Report
<1>2. f \in Files /\ reported[f] \in Nat /\ old \in Seq(Diags)
      /\ worker \in [Workers -> {Idle} \cup BusyWorkers]
  BY <1>1 DEF DInv, IInv, TypeOK, BusyWorkers
<1>3. /\ Len(old) = reported[f] % DiagBuffer /\ Len(old) <= reported[f]
      /\ \A i \in 1 .. Len(old) : old[i] = Diag(f, reported[f] - Len(old) + i)
  BY <1>1 DEF DInv, BuffersLast, HoldsLast
<1>4. Diag(f, n) \in Diags  BY <1>2 DEF Diag, Diags
<1>5. /\ buffer \in Seq(Diags) /\ Len(buffer) = Len(old) + 1 /\ Len(old) \in Nat
      /\ \A i \in 1 .. Len(old) : buffer[i] = old[i]
      /\ buffer[Len(old) + 1] = Diag(f, n)
  BY <1>2, <1>4, AppendProperties, LenProperties
<1>6. /\ worker' = [worker EXCEPT ![w] = b]
      /\ reported' = [reported EXCEPT ![f] = n]
      /\ UNCHANGED <<unsent, files, outcome, diag_rx, received, channel>>
  BY DEF Report, producing, receiving
<1>7. b \in BusyWorkers /\ b.file = f /\ b.stage = stage /\ b.buffer = buffer
  <2> HIDE DEF n, buffer
  <2>1. QED  BY <1>2, <1>5 DEF Busy, BusyWorkers
<1>8. n - Len(buffer) = reported[f] - Len(old) /\ n \in Nat
  <2> HIDE DEF buffer, old, f
  <2> QED  BY <1>2, <1>5
<1>9. HoldsLast(b, n)
  <2>1. Len(buffer) <= n
    <3> HIDE DEF buffer, old, f
    <3> QED  BY <1>2, <1>3, <1>5
  <2>2. ASSUME NEW i \in 1 .. Len(buffer)
        PROVE  buffer[i] = Diag(f, n - Len(buffer) + i)
    <3>1. CASE i \in 1 .. Len(old)
      <4> HIDE DEF n, buffer, old, f
      <4>1. QED  BY <1>3, <1>5, <1>8, <3>1
    <3>2. CASE i = Len(old) + 1
      <4>1. n - Len(buffer) + i = n
        <5> HIDE DEF buffer, old, f
        <5> QED  BY <1>2, <1>5, <3>2
      <4> HIDE DEF n, buffer, old, f
      <4>2. QED  BY <1>5, <3>2, <4>1
    <3> HIDE DEF n, buffer, old, f
    <3>3. QED  BY <1>5, <3>1, <3>2
  <2>3. n % DiagBuffer = IF Len(buffer) = DiagBuffer THEN 0 ELSE Len(buffer)
    <3>1. DiagBuffer \in Nat \ {0}  BY CapacityAssumption
    <3> HIDE DEF f, old, buffer
    <3>2. QED  BY <1>2, <1>3, <1>5, <3>1, NextRemainder, ZenonT(60)
  <2>4. Len(buffer) <= DiagBuffer
    <3>1. DiagBuffer \in Nat \ {0}  BY CapacityAssumption
    <3> HIDE DEF f, old, buffer
    <3>2. QED  BY <1>2, <1>3, <1>5, <3>1
  <2>5. stage = "parsing" => Len(buffer) = n % DiagBuffer
    <3> HIDE DEF n, buffer
    <3> QED  BY <2>3, CapacityAssumption DEF IsFull
  <2>6. stage = "flushing" => n % DiagBuffer = 0
    <3>1. Len(buffer) \in Nat /\ DiagBuffer \in Nat  BY <1>5, CapacityAssumption
    <3>2. Len(buffer) >= DiagBuffer => Len(buffer) = DiagBuffer
      <4> HIDE DEF buffer
      <4> QED  BY <2>4, <3>1
    <3> HIDE DEF n, buffer
    <3>3. QED  BY <2>3, <3>2 DEF IsFull
  <2> HIDE DEF b, stage, buffer, n, f
  <2>7. QED  BY <1>7, <2>1, <2>2, <2>5, <2>6 DEF HoldsLast
<1>10. w \in InHand(f)  BY <1>1 DEF InHand
<1>11. diag_rx # "dropped" =>
         /\ FirstIn((received \o channel)', f, n - Len(buffer))
         /\ \A g, m : g # f /\ SentBefore(g, m) => FirstIn((received \o channel)', g, m)
  <2> HIDE DEF b, stage, buffer, n, f, old
  <2>1. diag_rx # "dropped" => SentBefore(f, reported[f] - Len(old))
    BY <1>2, <1>10 DEF DInv, RestIsSent, old
  <2>2. QED  BY <1>6, <1>7, <1>8, <2>1 DEF SentBefore
<1> HIDE DEF b, stage, buffer, n, f
<1>12. b.file = worker[w].file /\ worker[w].stage # "idle"
  BY <1>1, <1>7 DEF f
<1>13. BuffersLast' /\ RestIsSent'
  BY <1>6, <1>7, <1>8, <1>9, <1>11, <1>12, GoesOnSent
<1>14. Apart'
  BY <1>6, <1>7, <1>12, GoesOnApart DEF DInv
<1>15. QED  BY <1>13, <1>14

(* Turning to the last flush, or back to parsing after one, only changes   *)
(* the stage.                                                              *)
LEMMA StageSent ==
  ASSUME DInv, NEW w \in Workers, Finish(w) \/ Flushed(w)
  PROVE  Apart' /\ BuffersLast' /\ RestIsSent'
<1>1. worker[w].stage # "idle" /\ worker[w] \in BusyWorkers /\ worker[w] # Idle
  BY WorkerStates DEF DInv, IInv, Finish, Flushed
<1>2. PICK stage \in {"parsing", "finishing"} :
         /\ worker' = [worker EXCEPT ![w].stage = stage]
         /\ stage = "parsing" => worker[w].stage = "flushing" /\ worker[w].buffer = <<>>
  BY DEF Finish, Flushed
<1> DEFINE f == worker[w].file
           b == [worker[w] EXCEPT !.stage = stage]
           n == reported[f]
<1>3. /\ b \in BusyWorkers /\ b.file = f /\ b.stage = stage
      /\ b.buffer = worker[w].buffer
  BY <1>1 DEF BusyWorkers
<1>4. worker' = [worker EXCEPT ![w] = b]  BY <1>2
<1>5. f \in Files /\ n \in Nat /\ reported \in [Files -> Nat]
  BY <1>1 DEF DInv, IInv, TypeOK, BusyWorkers
<1>6. UNCHANGED <<unsent, files, outcome, reported, diag_rx, received, channel>>
  BY DEF Finish, Flushed, producing, receiving
<1> HIDE DEF b
<1>7. reported' = [reported EXCEPT ![b.file] = n]  BY <1>3, <1>5, <1>6
<1>8. HoldsLast(worker[w], n)  BY <1>1 DEF DInv, BuffersLast
<1>9. HoldsLast(b, n)
  <2>1. stage = "parsing" => Len(b.buffer) = 0 /\ n % DiagBuffer = 0
    BY <1>2, <1>3, <1>8, EmptySeq DEF HoldsLast
  <2>2. QED  BY <1>2, <1>3, <1>8, <2>1 DEF HoldsLast
<1>10. w \in InHand(f)  BY <1>1 DEF InHand
<1>11. diag_rx # "dropped" => SentBefore(f, n - Len(b.buffer))
  BY <1>3, <1>5, <1>10 DEF DInv, RestIsSent
<1> HIDE DEF n
<1>12. QED
  BY <1>1, <1>3, <1>4, <1>5, <1>6, <1>7, <1>9, <1>11, GoesOnSent, GoesOnApart
  DEF DInv, SentBefore

(* What is sent is added at the end of all that was.                       *)
LEMMA AppendToChannel ==
  ASSUME NEW S, NEW s \in Seq(S), NEW t \in Seq(S), NEW e \in S
  PROVE  s \o Append(t, e) = Append(s \o t, e)
<1> DEFINE u == <<e>>
           st == s \o t
<1>1. u \in Seq(S) /\ st \in Seq(S)  BY ConcatProperties
<1>2. Append(t, e) = t \o u  BY AppendIsConcat
<1>3. Append(st, e) = st \o u  BY <1>1, AppendIsConcat
<1> HIDE DEF u
<1>4. st \o u = s \o (t \o u)  BY <1>1, ConcatAssociative
<1>5. QED  BY <1>2, <1>3, <1>4

(* A send moves the first diagnostic of the buffer to the channel, where   *)
(* it is the next one of its file.                                         *)
LEMMA FlushSent ==
  ASSUME DInv, NEW w \in Workers, Flush(w)
  PROVE  Apart' /\ BuffersLast' /\ RestIsSent'
<1> DEFINE f   == worker[w].file
           old == worker[w].buffer
           b   == [worker[w] EXCEPT !.buffer = Tail(@)]
           n   == reported[f]
           l   == Len(old)
<1>1. /\ worker[w].stage \in {"flushing", "finishing"} /\ worker[w] \in BusyWorkers
      /\ worker[w] # Idle
  BY WorkerStates DEF DInv, IInv, Flush
<1>2. f \in Files /\ n \in Nat /\ old \in Seq(Diags) /\ old # <<>>
      /\ reported \in [Files -> Nat]
      /\ received \in Seq(Diags) /\ channel \in Seq(Diags)
  BY <1>1 DEF DInv, IInv, TypeOK, BusyWorkers, Flush
<1>3. /\ l \in Nat /\ l # 0 /\ l <= n
      /\ \A i \in 1 .. l : old[i] = Diag(f, n - l + i)
      /\ worker[w].stage = "flushing" => n % DiagBuffer = 0
  BY <1>1, <1>2, LenProperties, EmptySeq DEF DInv, BuffersLast, HoldsLast
<1>4. /\ Tail(old) \in Seq(Diags) /\ Len(Tail(old)) = l - 1
      /\ \A i \in 1 .. l - 1 : Tail(old)[i] = old[i + 1]
      /\ Head(old) = old[1] /\ Head(old) \in Diags
  BY <1>2, HeadTailProperties
<1>5. /\ b \in BusyWorkers /\ b.file = f /\ b.stage = worker[w].stage
      /\ b.buffer = Tail(old)
  BY <1>1, <1>4 DEF BusyWorkers
<1>6. /\ worker' = [worker EXCEPT ![w] = b]
      /\ UNCHANGED <<unsent, files, outcome, reported, diag_rx, received>>
  BY DEF Flush, producing, receiving
<1> HIDE DEF b, l
<1>7. n - (l - 1) = (n - l) + 1 /\ n - l \in Nat  BY <1>2, <1>3
<1>8. HoldsLast(b, n)
  <2>1. l - 1 <= n  BY <1>2, <1>3
  <2>2. ASSUME NEW i \in 1 .. l - 1
        PROVE  Tail(old)[i] = Diag(f, n - (l - 1) + i)
    <3>1. i + 1 \in 1 .. l /\ n - l + (i + 1) = n - (l - 1) + i
      <4> HIDE DEF n, old, f
      <4>1. n \in Nat /\ l \in Nat /\ i \in 1 .. l - 1  BY <1>2, <1>3
      <4>2. QED  BY <4>1
    <3>2. QED  BY <1>3, <1>4, <3>1
  <2> HIDE DEF n, f, old
  <2>3. Len(b.buffer) = l - 1  BY <1>4, <1>5
  <2>4. \A i \in 1 .. l - 1 : b.buffer[i] = Diag(b.file, n - (l - 1) + i)
    BY <1>5, <2>2
  <2>5. /\ b.stage = "parsing" => l - 1 = n % DiagBuffer
        /\ b.stage = "flushing" => n % DiagBuffer = 0
    BY <1>1, <1>3, <1>5
  <2>6. QED  BY <2>1, <2>3, <2>4, <2>5 DEF HoldsLast
<1>9. w \in InHand(f)  BY <1>1 DEF InHand
<1>10. diag_rx # "dropped" =>
         /\ FirstIn((received \o channel)', f, n - (l - 1))
         /\ \A g, m : g # f /\ SentBefore(g, m) => FirstIn((received \o channel)', g, m)
  <2> SUFFICES ASSUME diag_rx # "dropped"
               PROVE  /\ FirstIn((received \o channel)', f, n - (l - 1))
                      /\ \A g, m : g # f /\ SentBefore(g, m)
                            => FirstIn((received \o channel)', g, m)
    OBVIOUS
  <2>1. Head(old) = Diag(f, (n - l) + 1)
    <3>1. 1 \in 1 .. l  BY <1>3
    <3>2. QED  BY <1>3, <1>4, <3>1
  <2>2. SentBefore(f, n - l)  BY <1>2, <1>9 DEF DInv, RestIsSent, l
  <2>3. channel' = Append(channel, Head(old))  BY DEF Flush, Send
  <2>4. received \o Append(channel, Head(old)) = Append(received \o channel, Head(old))
    <3> HIDE DEF old
    <3>1. QED  BY <1>2, <1>4, AppendToChannel
  <2>5. received \o channel \in Seq(Diags)  BY <1>2, ConcatProperties
  <2> HIDE DEF n, f, old
  <2>6. /\ FirstIn(Append(received \o channel, Diag(f, (n - l) + 1)), f, (n - l) + 1)
        /\ \A g, m : g # f /\ FirstIn(received \o channel, g, m)
              => FirstIn(Append(received \o channel, Diag(f, (n - l) + 1)), g, m)
    BY <1>2, <1>7, <2>2, <2>5, FirstInAppend DEF SentBefore
  <2>7. (received \o channel)' = Append(received \o channel, Diag(f, (n - l) + 1))
    BY <1>6, <2>1, <2>3, <2>4
  <2>8. QED  BY <1>7, <2>6, <2>7 DEF SentBefore
<1>11. b.file = worker[w].file /\ worker[w].stage # "idle" /\ n \in Nat
       /\ reported' = [reported EXCEPT ![b.file] = n]
  BY <1>1, <1>2, <1>5, <1>6
<1> HIDE DEF n, f
<1>12. BuffersLast' /\ RestIsSent'
  BY <1>4, <1>5, <1>6, <1>8, <1>10, <1>11, GoesOnSent
<1>13. Apart'
  BY <1>5, <1>6, <1>11, GoesOnApart DEF DInv
<1>14. QED  BY <1>12, <1>13

(* Done with a file: what its buffer still held is nothing if the file was *)
(* accepted, and the remainder after the last full buffer if it was not.   *)
LEMMA IsDoneSent ==
  ASSUME DInv, NEW w \in Workers, Accept(w) \/ Reject(w)
  PROVE  Apart' /\ BuffersLast' /\ RestIsSent'
<1> DEFINE f == worker[w].file
           n == reported[f]
<1>1. worker[w].stage # "idle" /\ worker[w] \in BusyWorkers /\ worker[w] # Idle
  BY WorkerStates DEF DInv, IInv, Accept, Reject
<1>2. PICK result \in {"ok", "failed"} :
         /\ outcome' = [outcome EXCEPT ![f] = result]
         /\ result = "ok" => worker[w].buffer = <<>>
         /\ result = "failed" => worker[w].stage = "parsing"
  BY DEF Accept, Reject
<1>3. /\ worker' = [worker EXCEPT ![w] = Idle]
      /\ UNCHANGED <<unsent, files, reported, diag_rx, received, channel>>
  BY DEF Accept, Reject, producing, receiving
<1>4. Apart'  BY <1>1, <1>2, <1>3, IsDoneApart DEF DInv
<1>5. /\ worker \in [Workers -> {Idle} \cup BusyWorkers]
      /\ outcome \in [Files -> {"none", "ok", "failed"}] /\ f \in Files /\ n \in Nat
  BY <1>1 DEF DInv, IInv, TypeOK, BusyWorkers
<1>6. \A v \in Workers : worker'[v] # Idle => worker'[v] = worker[v] /\ v # w
  BY <1>3, <1>5
<1>7. BuffersLast'
  BY <1>3, <1>6 DEF DInv, BuffersLast, HoldsLast
<1>8. w \in InHand(f)  BY <1>1 DEF InHand
<1>9. diag_rx # "dropped" => SentBefore(f, n - Len(worker[w].buffer))
  BY <1>5, <1>8 DEF DInv, RestIsSent
<1>10. /\ result = "ok" => n - Len(worker[w].buffer) = n
       /\ result = "failed" => Len(worker[w].buffer) = n % DiagBuffer
  <2>1. result = "ok" => Len(worker[w].buffer) = 0  BY <1>2, EmptySeq
  <2>2. result = "ok" => n - Len(worker[w].buffer) = n  BY <1>5, <2>1
  <2>3. QED  BY <1>1, <1>2, <2>2 DEF DInv, BuffersLast, HoldsLast
<1>11. \A g, m : SentBefore(g, m)' <=> SentBefore(g, m)
  BY <1>3 DEF SentBefore
<1>12. \A g : InHand(g)' \subseteq InHand(g)
  BY <1>6 DEF InHand
<1>13. ASSUME diag_rx' # "dropped", NEW g \in Files
       PROVE  /\ g \in Range(unsent') \cup Range(files') => SentBefore(g, 0)'
              /\ \A v \in InHand(g)' : SentBefore(g, reported[g] - Len(worker[v].buffer))'
              /\ outcome'[g] = "ok" => SentBefore(g, reported[g])'
              /\ outcome'[g] = "failed" => SentBefore(g, reported[g] - (reported[g] % DiagBuffer))'
  <2>1. g \in Range(unsent') \cup Range(files') => SentBefore(g, 0)'
    BY <1>3, <1>11, <1>13 DEF DInv, RestIsSent
  <2>2. ASSUME NEW v \in InHand(g)'
        PROVE  SentBefore(g, reported[g] - Len(worker[v].buffer))'
    <3>1. v \in InHand(g) /\ worker'[v] = worker[v]
      BY <1>6, <1>12 DEF InHand
    <3>2. SentBefore(g, reported[g] - Len(worker[v].buffer))
      BY <1>3, <1>13, <3>1 DEF DInv, RestIsSent
    <3>3. QED  BY <1>3, <3>1, <3>2 DEF SentBefore
  <2>3. CASE g = f
    <3>1. outcome'[g] = result  BY <1>2, <1>5, <2>3
    <3>2. outcome'[g] = "ok" => SentBefore(g, reported[g])
      BY <1>3, <1>9, <1>10, <1>13, <2>3, <3>1
    <3>3. outcome'[g] = "failed" => SentBefore(g, reported[g] - (reported[g] % DiagBuffer))
      BY <1>3, <1>9, <1>10, <1>13, <2>3, <3>1
    <3>4. QED  BY <1>3, <2>1, <2>2, <3>2, <3>3 DEF SentBefore
  <2>4. CASE g # f
    <3>1. outcome'[g] = outcome[g]  BY <1>2, <2>4
    <3>2. /\ outcome[g] = "ok" => SentBefore(g, reported[g])
          /\ outcome[g] = "failed" => SentBefore(g, reported[g] - (reported[g] % DiagBuffer))
      BY <1>3, <1>13 DEF DInv, RestIsSent
    <3>3. QED  BY <1>3, <2>1, <2>2, <3>1, <3>2 DEF SentBefore
  <2>5. QED  BY <2>3, <2>4
<1>14. RestIsSent'
  BY <1>13 DEF RestIsSent
<1>15. QED  BY <1>4, <1>7, <1>14

(* A file taken comes with an empty buffer, and nothing of it was sent.    *)
LEMMA TakeSent ==
  ASSUME DInv, NEW w \in Workers, Take(w)
  PROVE  BuffersLast' /\ RestIsSent'
<1>1. files \in Seq(Files) /\ DOMAIN files = 1 .. Len(files)
  BY LenProperties DEF DInv, IInv, TypeOK
<1>2. PICK i \in 1 .. Len(files) :
         /\ worker' = [worker EXCEPT ![w] = Busy("parsing", files[i], <<>>)]
         /\ files' = RemoveAt(files, i)
  BY <1>1 DEF Take, Available, LeftWaiting
<1> DEFINE f == files[i]
           b == Busy("parsing", f, <<>>)
<1>3. /\ b.file = f /\ b.stage = "parsing" /\ b.buffer = <<>>
      /\ f \in Range(files) /\ f \in Files
  BY <1>1, ElementOfSeq DEF Busy, Range
<1>4. Range(files') \subseteq Range(files)
  BY <1>1, <1>2, RemoveAtKeeps DEF DInv, Apart
<1>5. UNCHANGED <<unsent, outcome, reported, diag_rx, received, channel>>
  BY DEF Take, producing, receiving
<1>6. worker \in [Workers -> {Idle} \cup BusyWorkers]
  BY DEF DInv, IInv, TypeOK, BusyWorkers
<1> HIDE DEF b
<1>7. worker' = [worker EXCEPT ![w] = b]  BY <1>2 DEF b
<1>8. reported[f] = 0 /\ outcome[f] = "none"  BY <1>3 DEF DInv, Apart
<1>9. Len(b.buffer) = 0 /\ 0 % DiagBuffer = 0
  BY <1>3, EmptySeq, CapacityAssumption
<1>10. HoldsLast(b, 0)  BY <1>3, <1>9 DEF HoldsLast
<1>11. ASSUME NEW v \in Workers, worker'[v] # Idle
       PROVE  HoldsLast(worker'[v], reported'[worker'[v].file])
  <2>1. CASE v = w  BY <1>3, <1>5, <1>6, <1>7, <1>8, <1>10, <2>1
  <2>2. CASE v # w  BY <1>5, <1>6, <1>7, <1>11, <2>2 DEF DInv, BuffersLast
  <2>3. QED  BY <2>1, <2>2
<1>12. BuffersLast'  BY <1>11 DEF BuffersLast, HoldsLast
<1>13. ASSUME diag_rx' # "dropped", NEW g \in Files
       PROVE  /\ g \in Range(unsent') \cup Range(files') => SentBefore(g, 0)'
              /\ \A v \in InHand(g)' : SentBefore(g, reported[g] - Len(worker[v].buffer))'
              /\ outcome'[g] = "ok" => SentBefore(g, reported[g])'
              /\ outcome'[g] = "failed" => SentBefore(g, reported[g] - (reported[g] % DiagBuffer))'
  <2>1. \A m : SentBefore(g, m)' <=> SentBefore(g, m)  BY <1>5 DEF SentBefore
  <2>2. g \in Range(unsent') \cup Range(files') => SentBefore(g, 0)'
    BY <1>4, <1>5, <1>13, <2>1 DEF DInv, RestIsSent
  <2>3. ASSUME NEW v \in InHand(g)'
        PROVE  SentBefore(g, reported[g] - Len(worker[v].buffer))'
    <3>1. CASE v = w
      <4>1. g = f /\ worker'[v] = b  BY <1>3, <1>6, <1>7, <3>1 DEF InHand
      <4>2. SentBefore(f, 0)  BY <1>3, <1>5, <1>13 DEF DInv, RestIsSent
      <4>3. reported'[g] - Len(worker'[v].buffer) = 0  BY <1>5, <1>8, <1>9, <4>1
      <4>4. QED  BY <1>5, <4>1, <4>2, <4>3 DEF SentBefore
    <3>2. CASE v # w
      <4>1. worker'[v] = worker[v] /\ v \in InHand(g)  BY <1>6, <1>7, <3>2 DEF InHand
      <4>2. SentBefore(g, reported[g] - Len(worker[v].buffer))
        BY <1>5, <1>13, <4>1 DEF DInv, RestIsSent
      <4>3. QED  BY <1>5, <4>1, <4>2 DEF SentBefore
    <3>3. QED  BY <3>1, <3>2
  <2>4. /\ outcome[g] = "ok" => SentBefore(g, reported[g])
        /\ outcome[g] = "failed" => SentBefore(g, reported[g] - (reported[g] % DiagBuffer))
    BY <1>5, <1>13 DEF DInv, RestIsSent
  <2>5. QED  BY <1>5, <2>2, <2>3, <2>4 DEF SentBefore
<1>14. RestIsSent'  BY <1>13 DEF RestIsSent
<1>15. QED  BY <1>12, <1>14

(* A step that leaves the workers, the diagnostics in receiver and channel *)
(* and the set of files waiting as they are.                               *)
LEMMA KeepsSent ==
  ASSUME DInv, UNCHANGED <<worker, reported, outcome>>,
         Range(unsent') \cup Range(files') = Range(unsent) \cup Range(files),
         diag_rx' # "dropped" =>
           diag_rx # "dropped" /\ (received \o channel)' = received \o channel
  PROVE  BuffersLast' /\ RestIsSent'
<1>1. BuffersLast'  BY DEF DInv, BuffersLast, HoldsLast
<1>2. \A g : InHand(g)' = InHand(g)  BY DEF InHand
<1>3. RestIsSent'
  BY <1>2 DEF DInv, RestIsSent, SentBefore
<1>4. QED  BY <1>1, <1>3

(* Receiving moves a diagnostic from the channel's head to the end of what *)
(* is received.                                                            *)
LEMMA ReceiveKeeps ==
  ASSUME IInv, Receive
  PROVE  (received \o channel)' = received \o channel
<1>1. channel \in Seq(Diags) /\ received \in Seq(Diags) /\ channel # <<>>
  BY DEF IInv, TypeOK, Receive
<1> DEFINE h == Head(channel)
           t == Tail(channel)
<1>2. h \in Diags /\ t \in Seq(Diags)  BY <1>1, HeadTail
<1>3. channel = <<h>> \o t
  <2>1. <<h>> \in Seq(Diags) /\ Len(<<h>>) = 1 /\ <<h>>[1] = h  BY <1>2
  <2>2. /\ Len(t) = Len(channel) - 1 /\ Len(channel) \in Nat
        /\ \A i \in 1 .. Len(t) : t[i] = channel[i + 1]
        /\ h = channel[1]
    BY <1>1, HeadTailProperties, LenProperties
  <2> HIDE DEF h, t
  <2>3. /\ <<h>> \o t \in Seq(Diags) /\ Len(<<h>> \o t) = Len(channel)
        /\ \A i \in 1 .. 1 + Len(t) :
              (<<h>> \o t)[i] = IF i <= 1 THEN <<h>>[i] ELSE t[i - 1]
    <3>1. Len(<<h>> \o t) = 1 + Len(t)  BY <1>2, <2>1, ConcatProperties
    <3>2. QED  BY <1>2, <2>1, <2>2, <3>1, ConcatProperties
  <2>4. ASSUME NEW i \in 1 .. Len(channel)
        PROVE  channel[i] = (<<h>> \o t)[i]
    <3>1. i \in 1 .. 1 + Len(t)  BY <2>2
    <3>2. CASE i = 1  BY <2>1, <2>2, <2>3, <3>1, <3>2
    <3>3. CASE i # 1
      <4>1. i - 1 \in 1 .. Len(t) /\ (i - 1) + 1 = i /\ ~(i <= 1)  BY <2>2, <3>3
      <4>2. (<<h>> \o t)[i] = t[i - 1]  BY <2>3, <3>1, <4>1
      <4>3. QED  BY <2>2, <4>1, <4>2
    <3>4. QED  BY <3>2, <3>3
  <2>5. QED  BY <1>1, <2>3, <2>4, SeqEqual
<1>4. <<h>> \in Seq(Diags)  BY <1>2
<1>5. received' = received \o <<h>> /\ channel' = t
  BY <1>1, <1>2, AppendIsConcat DEF Receive
<1> HIDE DEF h, t
<1>6. (received \o <<h>>) \o t = received \o (<<h>> \o t)
  BY <1>1, <1>2, <1>4, ConcatAssociative
<1>7. QED  BY <1>3, <1>5, <1>6

(* Every step preserves the invariant.                                     *)
LEMMA DInvStep == DInv /\ [Next]_vars => DInv'
<1> SUFFICES ASSUME DInv, [Next]_vars PROVE Apart' /\ BuffersLast' /\ RestIsSent'
  BY IInvStep DEF DInv
<1>1. CASE Produce
  <2>1. Apart'  BY <1>1, ProduceApart DEF DInv
  <2>2. Range(unsent') \cup Range(files') = Range(unsent) \cup Range(files)
    <3>1. unsent \in Seq(Files) /\ files \in Seq(Files) /\ unsent # <<>>
      BY <1>1 DEF DInv, IInv, TypeOK, Produce
    <3>2. /\ Range(unsent') = Range(unsent) \ {Head(unsent)}
          /\ Head(unsent) \in Range(unsent) /\ Head(unsent) \in Files
      BY <1>1, <3>1, HeadTail DEF DInv, Apart, Produce
    <3>3. Range(files') = Range(files) \cup {Head(unsent)}
      BY <1>1, <3>1, <3>2, AppendKeeps DEF Produce
    <3>4. QED  BY <3>2, <3>3
  <2>3. QED  BY <1>1, <2>1, <2>2, KeepsSent DEF Produce, receiving
<1>2. CASE \E w \in Workers : Take(w)
  BY <1>2, TakeApart, TakeSent DEF DInv
<1>3. CASE \E w \in Workers : Validate(w)
  BY <1>3, ReportSent, StageSent, FlushSent, IsDoneSent DEF Validate
<1>4. CASE Receive
  <2>1. (received \o channel)' = received \o channel  BY <1>4, ReceiveKeeps DEF DInv
  <2>2. BuffersLast' /\ RestIsSent'
    BY <1>4, <2>1, KeepsSent DEF Receive, producing
  <2>3. Apart'  BY <1>4 DEF DInv, Apart, InHand, Receive, producing
  <2>4. QED  BY <2>2, <2>3
<1>5. CASE DropFileTx \/ Return \/ Disconnect \/ DropDiagRx \/ UNCHANGED vars
  <2>1. UNCHANGED <<unsent, files, worker, reported, outcome>>
    BY <1>5 DEF DropFileTx, Return, Disconnect, DropDiagRx, vars, producing
  <2>2. diag_rx' # "dropped" =>
           diag_rx # "dropped" /\ (received \o channel)' = received \o channel
    BY <1>5 DEF DropFileTx, Return, Disconnect, DropDiagRx, vars, receiving
  <2>3. BuffersLast' /\ RestIsSent'  BY <2>1, <2>2, KeepsSent
  <2>4. Apart'  BY <2>1 DEF DInv, Apart, InHand
  <2>5. QED  BY <2>3, <2>4
<1>6. QED  BY <1>1, <1>2, <1>3, <1>4, <1>5 DEF Next, Over

(* The invariant holds initially.                                          *)
LEMMA InitDInv == Init => DInv
BY InitIInv, InitApart, InitSent DEF DInv

-----------------------------------------------------------------------------
(* No file is lost, and none is validated twice, by however many workers   *)
(* and however they share the files out.                                   *)
THEOREM FilesInOnePlace == Spec => []OnePlace
<1>1. DInv => OnePlace  BY ApartIsOnePlace DEF DInv
<1>2. QED  BY InitDInv, DInvStep, <1>1, PTL DEF Spec

(* As long as the receiver stays, what has been sent of each file is its   *)
(* first diagnostics in the order in which its rules reported them, each   *)
(* once; all of them once it is accepted, and all but a partly filled      *)
(* buffer once it is rejected.                                             *)
THEOREM Delivered == Spec => []Delivery
<1>1. DInv => Delivery
  <2> SUFFICES ASSUME DInv, diag_rx # "dropped", NEW f \in Files
               PROVE  \E n \in 0 .. reported[f] :
                         /\ FirstIn(received \o channel, f, n)
                         /\ outcome[f] = "ok" => n = reported[f]
                         /\ outcome[f] = "failed" => n = reported[f] - (reported[f] % DiagBuffer)
    BY DEF Delivery
  <2>1. reported[f] \in Nat /\ outcome[f] \in {"none", "ok", "failed"}
    BY DEF DInv, IInv, TypeOK
  <2>2. CASE outcome[f] = "ok"
    <3>1. FirstIn(received \o channel, f, reported[f])
      BY <2>2 DEF DInv, RestIsSent, SentBefore
    <3>2. reported[f] \in 0 .. reported[f]  BY <2>1
    <3>3. QED  BY <2>2, <3>1, <3>2
  <2>3. CASE outcome[f] = "failed"
    <3>1. FirstIn(received \o channel, f, reported[f] - (reported[f] % DiagBuffer))
      BY <2>3 DEF DInv, RestIsSent, SentBefore
    <3>2. reported[f] - (reported[f] % DiagBuffer) \in 0 .. reported[f]
      <4>1. DiagBuffer \in Nat \ {0}  BY CapacityAssumption
      <4>2. \A n \in Nat : \A d \in Nat \ {0} : n % d \in 0 .. n
        <5> SUFFICES ASSUME NEW n \in Nat, NEW d \in Nat \ {0} PROVE n % d \in 0 .. n
          OBVIOUS
        <5>1. /\ n % d \in Nat /\ n \div d \in Nat
              /\ n = (d * (n \div d)) + (n % d)
          OBVIOUS
        <5>2. d * (n \div d) \in Nat  BY <5>1
        <5>3. QED  BY <5>1, <5>2
      <4>3. reported[f] % DiagBuffer \in 0 .. reported[f]  BY <2>1, <4>1, <4>2
      <4>4. QED  BY <2>1, <4>3
    <3>3. QED  BY <2>3, <3>1, <3>2
  <2>4. CASE outcome[f] = "none" /\ f \in Range(unsent) \cup Range(files)
    <3>1. FirstIn(received \o channel, f, 0)
      BY <2>4 DEF DInv, RestIsSent, SentBefore
    <3>2. 0 \in 0 .. reported[f]  BY <2>1
    <3>3. QED  BY <2>4, <3>1, <3>2
  <2>5. CASE outcome[f] = "none" /\ f \notin Range(unsent) \cup Range(files)
    <3>1. PICK w \in InHand(f) : TRUE
      BY <2>5 DEF DInv, IInv, NoneForgotten, InHand
    <3>2. FirstIn(received \o channel, f, reported[f] - Len(worker[w].buffer))
      BY <3>1 DEF DInv, RestIsSent, SentBefore
    <3>3. worker[w] \in BusyWorkers /\ HoldsLast(worker[w], reported[f])
      BY <3>1 DEF DInv, IInv, TypeOK, BusyWorkers, BuffersLast, InHand
    <3>4. Len(worker[w].buffer) \in Nat /\ Len(worker[w].buffer) <= reported[f]
      BY <3>3, LenProperties DEF BusyWorkers, HoldsLast
    <3>5. reported[f] - Len(worker[w].buffer) \in 0 .. reported[f]
      BY <2>1, <3>4
    <3>6. QED  BY <2>5, <3>2, <3>5
  <2>6. QED  BY <2>1, <2>2, <2>3, <2>4, <2>5
<1>2. QED  BY InitDInv, DInvStep, <1>1, PTL DEF Spec

-----------------------------------------------------------------------------
(* FirstIn for a sequence of length l, position by position.               *)
FirstByPlace(s, l, f, n) ==
  /\ \A i \in 1 .. l : s[i].file = f => \E k \in 1 .. n : s[i] = Diag(f, k)
  /\ \A k \in 1 .. n : \E i \in 1 .. l : s[i] = Diag(f, k)
  /\ \A i, j \in 1 .. l :
        s[i].file = f /\ s[j].file = f /\ i < j => s[i].number < s[j].number

(* The recursion of Of for a sequence of length n, whose values are U.     *)
OfByPlace(file, s, n, U) ==
  /\ Of(file, s) = U[n]
  /\ U[0] = <<>>
  /\ \A i \in 1 .. n :
        U[i] = IF s[i].file = file THEN Append(U[i - 1], s[i]) ELSE U[i - 1]

(* FirstIn is so: its set of elements and their order, by their positions. *)
LEMMA FirstInElements ==
  ASSUME NEW s \in Seq(Diags), NEW f, NEW n \in Nat
  PROVE  FirstIn(s, f, n) <=> FirstByPlace(s, Len(s), f, n)
<1> DEFINE Mine == {i \in DOMAIN s : s[i].file = f}
           D == 1 .. Len(s)
<1>1. DOMAIN s = D  BY LenProperties
<1>2. \A k : Diag(f, k).file = f  BY DEF Diag
<1> HIDE DEF D
<1>3. {s[i] : i \in Mine} \subseteq {Diag(f, k) : k \in 1 .. n}
        <=> \A i \in D : s[i].file = f => \E k \in 1 .. n : s[i] = Diag(f, k)
  BY <1>1
<1>4. {Diag(f, k) : k \in 1 .. n} \subseteq {s[i] : i \in Mine}
        <=> \A k \in 1 .. n : \E i \in D : s[i] = Diag(f, k)
  BY <1>1, <1>2
<1>5. (\A i, j \in Mine : i < j => s[i].number < s[j].number)
        <=> \A i, j \in D :
               s[i].file = f /\ s[j].file = f /\ i < j => s[i].number < s[j].number
  BY <1>1
<1>6. FirstIn(s, f, n)
        <=> /\ {s[i] : i \in Mine} = {Diag(f, k) : k \in 1 .. n}
            /\ \A i, j \in Mine : i < j => s[i].number < s[j].number
  BY DEF FirstIn
<1> HIDE DEF Mine
<1>7. QED  BY <1>3, <1>4, <1>5, <1>6 DEF D, FirstByPlace

(* Of, as the recursion says.                                              *)
LEMMA OfDefined ==
  ASSUME NEW file, NEW s, Len(s) \in Nat
  PROVE  \E U : OfByPlace(file, s, Len(s), U)
<1> DEFINE n == Len(s)
           Step(g, i) ==
              IF i = 0 THEN <<>>
              ELSE IF s[i].file = file THEN Append(g[i - 1], s[i])
              ELSE g[i - 1]
           T == {m \in Nat : \E g : g = [i \in 0 .. m |-> Step(g, i)]}
           Upto == CHOOSE g : g = [i \in 0 .. n |-> Step(g, i)]
<1>1. 0 \in T
  <2>1. [i \in 0 .. 0 |-> <<>>] = [i \in 0 .. 0 |-> Step([j \in 0 .. 0 |-> <<>>], i)]
    OBVIOUS
  <2>2. QED  BY <2>1
<1>2. ASSUME NEW m \in Nat, m \in T
      PROVE  m + 1 \in T
  <2>1. PICK g : g = [i \in 0 .. m |-> Step(g, i)]
    BY <1>2
  <2> DEFINE h == [i \in 0 .. m + 1 |-> IF i <= m THEN g[i] ELSE Step(g, m + 1)]
  <2>2. ASSUME NEW i \in 0 .. m + 1
        PROVE  Step(h, i) = Step(g, i)
    <3>1. CASE i = 0  BY <3>1
    <3>2. CASE i # 0
      <4>1. i - 1 \in 0 .. m + 1 /\ i - 1 <= m  BY <3>2
      <4>2. h[i - 1] = g[i - 1]  BY <4>1
      <4> HIDE DEF h
      <4>3. QED  BY <4>2
    <3>3. QED  BY <3>1, <3>2
  <2>3. ASSUME NEW i \in 0 .. m + 1
        PROVE  h[i] = Step(h, i)
    <3> HIDE DEF Step
    <3>1. CASE i <= m
      <4>1. i \in 0 .. m  BY <3>1
      <4>2. g[i] = Step(g, i)  BY <2>1, <4>1
      <4>3. QED  BY <2>2, <3>1, <4>2
    <3>2. CASE ~(i <= m)
      <4>1. i = m + 1  BY <3>2
      <4>2. QED  BY <2>2, <3>2, <4>1
    <3>3. QED  BY <3>1, <3>2
  <2>4. h = [i \in 0 .. m + 1 |-> h[i]]  OBVIOUS
  <2> HIDE DEF h, Step
  <2>5. h = [i \in 0 .. m + 1 |-> Step(h, i)]  BY <2>3, <2>4
  <2>6. QED  BY <2>5
<1>3. Nat \subseteq T
  <2> HIDE DEF T
  <2>1. QED  BY <1>1, <1>2, NaturalsByInduction
<1>4. Upto = [i \in 0 .. n |-> Step(Upto, i)]
  <2> HIDE DEF Step
  <2>1. \E g : g = [i \in 0 .. n |-> Step(g, i)]  BY <1>3
  <2>2. QED  BY <2>1
<1>5. Of(file, s) = Upto[n]
  BY DEF Of
<1>8. n \in Nat  OBVIOUS
<1> HIDE DEF Upto, n
<1>6. \A i \in 0 .. n : Upto[i] = Step(Upto, i)
  <2> HIDE DEF Step
  <2>1. QED  BY <1>4
<1>7. 0 \in 0 .. n /\ \A i \in 1 .. n : i \in 0 .. n /\ i # 0
  BY <1>8
<1>9. OfByPlace(file, s, n, Upto)  BY <1>5, <1>6, <1>7 DEF OfByPlace
<1>10. QED  BY <1>9 DEF n

(* One more diagnostic is one more of its file and of no other.            *)
LEMMA OfAppend ==
  ASSUME NEW file, NEW s \in Seq(Diags), NEW e \in Diags
  PROVE  Of(file, Append(s, e)) = IF e.file = file THEN Append(Of(file, s), e) ELSE Of(file, s)
<1> DEFINE t == Append(s, e)
           n == Len(s)
<1>1. /\ n \in Nat /\ t \in Seq(Diags) /\ Len(t) = n + 1
      /\ \A i \in 1 .. n : t[i] = s[i]
      /\ t[n + 1] = e
  BY AppendProperties, LenProperties
<1> HIDE DEF t, n
<1>2. PICK U : /\ Of(file, s) = U[n]
               /\ U[0] = <<>>
               /\ \A i \in 1 .. n :
                     U[i] = IF s[i].file = file THEN Append(U[i - 1], s[i]) ELSE U[i - 1]
  <2>1. \E U : OfByPlace(file, s, n, U)  BY <1>1, OfDefined DEF n
  <2>2. QED  BY <2>1 DEF OfByPlace
<1>3. n + 1 \in Nat  BY <1>1
<1>4. PICK V : /\ Of(file, t) = V[n + 1]
               /\ V[0] = <<>>
               /\ \A i \in 1 .. n + 1 :
                     V[i] = IF t[i].file = file THEN Append(V[i - 1], t[i]) ELSE V[i - 1]
  <2>1. \E V : OfByPlace(file, t, Len(t), V)  BY <1>1, <1>3, OfDefined
  <2>2. \E V : OfByPlace(file, t, n + 1, V)  BY <1>1, <2>1
  <2>3. QED  BY <2>2 DEF OfByPlace
<1> DEFINE T == {m \in Nat : m <= n => V[m] = U[m]}
<1>5. Nat \subseteq T
  <2>1. 0 \in T  BY <1>2, <1>4
  <2>2. ASSUME NEW m \in Nat, m \in T PROVE m + 1 \in T
    <3> SUFFICES ASSUME m + 1 <= n PROVE V[m + 1] = U[m + 1]
      OBVIOUS
    <3>1. m + 1 \in 1 .. n /\ m + 1 \in 1 .. n + 1 /\ m <= n /\ (m + 1) - 1 = m
      BY <1>1
    <3>2. V[m] = U[m]  BY <2>2, <3>1
    <3> DEFINE i == m + 1
    <3>3. V[i] = IF t[i].file = file THEN Append(V[i - 1], t[i]) ELSE V[i - 1]
      BY <1>4, <3>1
    <3>4. U[i] = IF s[i].file = file THEN Append(U[i - 1], s[i]) ELSE U[i - 1]
      BY <1>2, <3>1
    <3>5. t[i] = s[i] /\ V[i - 1] = U[i - 1]  BY <1>1, <3>1, <3>2
    <3> HIDE DEF i
    <3>6. V[i] = U[i]  BY <3>3, <3>4, <3>5
    <3>7. QED  BY <3>6 DEF i
  <2> HIDE DEF T
  <2>3. QED  BY <2>1, <2>2, NaturalsByInduction
<1>6. V[n] = U[n]  BY <1>1, <1>5
<1>7. n + 1 \in 1 .. n + 1 /\ (n + 1) - 1 = n  BY <1>1
<1>8. V[n + 1] = IF e.file = file THEN Append(V[n], e) ELSE V[n]
  BY <1>1, <1>4, <1>7
<1>9. QED  BY <1>2, <1>4, <1>6, <1>8 DEF t

(* The first n diagnostics are a sequence, and with the next one they are  *)
(* the first n + 1.                                                        *)
LEMMA FirstDiagsFacts ==
  ASSUME NEW n \in Nat
  PROVE  /\ FirstDiags(n) \in Seq(Diags) /\ Len(FirstDiags(n)) = n
         /\ \A i \in 1 .. n : FirstDiags(n)[i] = Diag(Watched, i)
         /\ Append(FirstDiags(n), Diag(Watched, n + 1)) = FirstDiags(n + 1)
<1>1. \A k \in Nat : Diag(Watched, k) \in Diags
  BY WatchedAssumption DEF Diag, Diags
<1>2. \A m \in Nat : /\ FirstDiags(m) \in Seq(Diags) /\ Len(FirstDiags(m)) = m
                     /\ \A i \in 1 .. m : FirstDiags(m)[i] = Diag(Watched, i)
  <2> SUFFICES ASSUME NEW m \in Nat
               PROVE  /\ FirstDiags(m) \in Seq(Diags) /\ Len(FirstDiags(m)) = m
                      /\ \A i \in 1 .. m : FirstDiags(m)[i] = Diag(Watched, i)
    OBVIOUS
  <2>1. FirstDiags(m) \in [1 .. m -> Diags]  BY <1>1 DEF FirstDiags
  <2>2. FirstDiags(m) \in Seq(Diags)  BY <2>1
  <2>3. DOMAIN FirstDiags(m) = 1 .. m  BY DEF FirstDiags
  <2>4. Len(FirstDiags(m)) = m  BY <2>2, <2>3, LenProperties
  <2>5. QED  BY <2>2, <2>4 DEF FirstDiags
<1> DEFINE e == Diag(Watched, n + 1)
           s == FirstDiags(n)
           t == FirstDiags(n + 1)
           l == n + 1
<1>3. e \in Diags /\ l \in Nat  BY <1>1
<1>4. /\ s \in Seq(Diags) /\ Len(s) = n
      /\ \A i \in 1 .. n : s[i] = Diag(Watched, i)
      /\ t \in Seq(Diags) /\ Len(t) = l
      /\ \A i \in 1 .. l : t[i] = Diag(Watched, i)
  BY <1>2, <1>3
<1> HIDE DEF s, t, l
<1>5. /\ Append(s, e) \in Seq(Diags) /\ Len(Append(s, e)) = n + 1
      /\ \A i \in 1 .. n : Append(s, e)[i] = s[i]
      /\ Append(s, e)[n + 1] = e
  <2> HIDE DEF e
  <2>1. QED  BY <1>3, <1>4, AppendProperties
<1>6. \A i \in 1 .. l : Append(s, e)[i] = t[i]
  <2>1. \A i \in 1 .. l : i \in 1 .. n \/ i = l  BY DEF l
  <2>2. QED  BY <1>4, <1>5, <2>1 DEF l
<1>7. Append(s, e) = t
  <2> HIDE DEF e
  <2>1. Len(Append(s, e)) = Len(t)  BY <1>4, <1>5 DEF l
  <2>2. QED  BY <1>4, <1>5, <1>6, <2>1, SeqEqual
<1>8. QED  BY <1>2, <1>7 DEF s, t, l

(* What FirstIn says of a file's diagnostics among all others is that,     *)
(* picked out, they are its first ones.                                    *)
LEMMA OfFirst ==
  ASSUME NEW s \in Seq(Diags), NEW n \in Nat, FirstIn(s, Watched, n)
  PROVE  Of(Watched, s) = FirstDiags(n)
<1> DEFINE T == {m \in Nat : \A r \in Seq(Diags), k \in Nat :
                   Len(r) = m /\ FirstIn(r, Watched, k) => Of(Watched, r) = FirstDiags(k)}
<1>1. 0 \in T
  <2> SUFFICES ASSUME NEW r \in Seq(Diags), NEW k \in Nat, Len(r) = 0, FirstIn(r, Watched, k)
               PROVE  Of(Watched, r) = FirstDiags(k)
    OBVIOUS
  <2> DEFINE l == 0
  <2>1. \A j \in 1 .. k : \E i \in 1 .. l : r[i] = Diag(Watched, j)
    <3>1. FirstByPlace(r, Len(r), Watched, k)  BY FirstInElements
    <3>2. FirstByPlace(r, l, Watched, k)  BY <3>1
    <3> HIDE DEF l, T
    <3>3. QED  BY <3>2 DEF FirstByPlace
  <2>2. k = 0  BY <2>1
  <2>3. FirstDiags(0) = <<>>  BY FirstDiagsFacts, EmptySeq
  <2>4. Of(Watched, r) = <<>>
    <3>1. Len(r) \in Nat  BY LenProperties
    <3>2. \E U : OfByPlace(Watched, r, Len(r), U)
      <4> HIDE DEF l, T
      <4>1. QED  BY <3>1, OfDefined
    <3>3. \E U : OfByPlace(Watched, r, l, U)  BY <3>2
    <3>4. QED  BY <3>3 DEF OfByPlace
  <2>5. QED  BY <2>2, <2>3, <2>4
<1>2. ASSUME NEW m \in Nat, m \in T
      PROVE  m + 1 \in T
  <2> SUFFICES ASSUME NEW r \in Seq(Diags), NEW k \in Nat,
                      Len(r) = m + 1, FirstIn(r, Watched, k)
               PROVE  Of(Watched, r) = FirstDiags(k)
    OBVIOUS
  <2> DEFINE p == Front(r)
             e == Last(r)
             l == m + 1
  <2>1. /\ p \in Seq(Diags) /\ Len(p) = m /\ \A i \in 1 .. m : p[i] = r[i]
        /\ e \in Diags /\ e = r[l] /\ r = Append(p, e)
    <3>1. r # <<>>  BY EmptySeq
    <3>2. /\ p \in Seq(Diags) /\ Len(p) = Len(r) - 1 /\ \A i \in 1 .. Len(r) - 1 : p[i] = r[i]
          /\ e \in Diags /\ e = r[Len(r)]
      BY <3>1, FrontLast
    <3>3. Len(r) - 1 = m /\ Len(r) = l  OBVIOUS
    <3> HIDE DEF p, e, l
    <3>4. /\ Append(p, e) \in Seq(Diags) /\ Len(Append(p, e)) = m + 1
          /\ \A i \in 1 .. m : Append(p, e)[i] = p[i]
          /\ Append(p, e)[m + 1] = e
      BY <3>2, <3>3, AppendProperties
    <3>5. \A i \in 1 .. m + 1 : i \in 1 .. m \/ i = m + 1  OBVIOUS
    <3>6. \A i \in 1 .. Len(r) : Append(p, e)[i] = r[i]
      BY <3>2, <3>3, <3>4, <3>5 DEF l
    <3>7. r = Append(p, e)  BY <3>4, <3>6, SeqEqual
    <3>8. QED  BY <3>2, <3>3, <3>7
  <2>2. /\ \A i \in 1 .. l : r[i].file = Watched => \E j \in 1 .. k : r[i] = Diag(Watched, j)
        /\ \A j \in 1 .. k : \E i \in 1 .. l : r[i] = Diag(Watched, j)
        /\ \A i, j \in 1 .. l :
              r[i].file = Watched /\ r[j].file = Watched /\ i < j => r[i].number < r[j].number
    <3>1. FirstByPlace(r, Len(r), Watched, k)  BY FirstInElements
    <3>2. FirstByPlace(r, l, Watched, k)  BY <3>1
    <3> HIDE DEF l, T
    <3>3. QED  BY <3>2 DEF FirstByPlace
  <2>8. r = Append(p, e)  BY <2>1
  <2>9. e = r[l]  BY <2>1
  <2>10. p \in Seq(Diags) /\ e \in Diags  BY <2>1
  <2> HIDE DEF p, e, l, T
  <2>3. /\ \A i \in 1 .. m : i \in 1 .. l /\ i < l
        /\ l \in 1 .. l
        /\ \A i \in 1 .. l : i \in 1 .. m \/ i = l
    BY DEF l
  <2>4. \A j : Diag(Watched, j).file = Watched /\ Diag(Watched, j).number = j
    BY DEF Diag
  <2>5. CASE e.file # Watched
    <3>1. FirstIn(p, Watched, k)
      <4>1. \A i \in 1 .. m : p[i].file = Watched => \E j \in 1 .. k : p[i] = Diag(Watched, j)
        BY <2>1, <2>2, <2>3
      <4>2. ASSUME NEW j \in 1 .. k PROVE \E i \in 1 .. m : p[i] = Diag(Watched, j)
        <5>1. PICK i \in 1 .. l : r[i] = Diag(Watched, j)  BY <2>2
        <5>2. i # l  BY <2>1, <2>4, <2>5, <5>1
        <5>3. QED  BY <2>1, <2>3, <5>1, <5>2
      <4>3. \A i, j \in 1 .. m :
               p[i].file = Watched /\ p[j].file = Watched /\ i < j => p[i].number < p[j].number
        BY <2>1, <2>2, <2>3
      <4>4. FirstByPlace(p, m, Watched, k)  BY <4>1, <4>2, <4>3 DEF FirstByPlace
      <4>5. QED  BY <2>1, <4>4, FirstInElements
    <3>2. Of(Watched, p) = FirstDiags(k)  BY <1>2, <2>1, <3>1 DEF T
    <3>3. Of(Watched, Append(p, e)) = Of(Watched, p)  BY <2>5, <2>10, OfAppend
    <3>4. QED  BY <2>8, <3>2, <3>3
  <2>6. CASE e.file = Watched
    <3>1. PICK j \in 1 .. k : e = Diag(Watched, j)  BY <2>1, <2>2, <2>3, <2>6
    <3>2. j = k
      <4>1. PICK i \in 1 .. l : r[i] = Diag(Watched, k)  BY <2>2, <3>1
      <4>2. CASE i = l
        <5>1. Diag(Watched, k) = Diag(Watched, j)  BY <2>9, <3>1, <4>1, <4>2
        <5>2. QED  BY <2>4, <5>1
      <4>3. CASE i # l
        <5>1. i < l  BY <2>3, <4>3
        <5>2. r[i].number < r[l].number  BY <2>1, <2>2, <2>3, <2>4, <2>6, <4>1, <5>1
        <5>3. k < j  BY <2>1, <2>4, <3>1, <4>1, <5>2
        <5>4. QED  BY <3>1, <5>3
      <4>4. QED  BY <4>2, <4>3
    <3> DEFINE h == k - 1
    <3>3. h \in Nat /\ h + 1 = k  BY <3>1
    <3>4. FirstIn(p, Watched, h)
      <4>1. ASSUME NEW i \in 1 .. m, p[i].file = Watched
            PROVE  \E g \in 1 .. h : p[i] = Diag(Watched, g)
        <5>1. PICK g \in 1 .. k : r[i] = Diag(Watched, g)  BY <2>1, <2>2, <2>3, <4>1
        <5>2. r[i].number < r[l].number  BY <2>1, <2>2, <2>3, <2>6, <4>1
        <5>3. g < k  BY <2>1, <2>4, <3>1, <3>2, <5>1, <5>2
        <5>4. g \in 1 .. h  BY <5>3
        <5>5. QED  BY <2>1, <5>1, <5>4
      <4>2. ASSUME NEW g \in 1 .. h PROVE \E i \in 1 .. m : p[i] = Diag(Watched, g)
        <5>1. g \in 1 .. k /\ g # k  BY <3>3
        <5>2. PICK i \in 1 .. l : r[i] = Diag(Watched, g)  BY <2>2, <5>1
        <5>3. i # l
          <6>1. Diag(Watched, g) # Diag(Watched, k)  BY <2>4, <5>1
          <6>2. QED  BY <2>9, <3>1, <3>2, <5>2, <6>1
        <5>4. QED  BY <2>1, <2>3, <5>2, <5>3
      <4>3. \A i, g \in 1 .. m :
               p[i].file = Watched /\ p[g].file = Watched /\ i < g => p[i].number < p[g].number
        <5> SUFFICES ASSUME NEW i \in 1 .. m, NEW g \in 1 .. m,
                            p[i].file = Watched, p[g].file = Watched, i < g
                     PROVE  p[i].number < p[g].number
          OBVIOUS
        <5>1. r[i] = p[i] /\ r[g] = p[g]  BY <2>1
        <5>2. QED  BY <2>2, <2>3, <5>1
      <4> HIDE DEF h
      <4>4. FirstByPlace(p, m, Watched, h)  BY <4>1, <4>2, <4>3 DEF FirstByPlace
      <4>5. QED  BY <2>1, <3>3, <4>4, FirstInElements
    <3> HIDE DEF h
    <3>5. Of(Watched, p) = FirstDiags(h)  BY <1>2, <2>1, <3>3, <3>4 DEF T
    <3>6. Of(Watched, r) = Append(FirstDiags(h), e)
      <4>1. Of(Watched, Append(p, e)) = Append(Of(Watched, p), e)  BY <2>6, <2>10, OfAppend
      <4>2. QED  BY <2>8, <3>5, <4>1
    <3>7. e = Diag(Watched, h + 1)  BY <3>1, <3>2, <3>3
    <3>8. Append(FirstDiags(h), Diag(Watched, h + 1)) = FirstDiags(h + 1)
      BY <3>3, FirstDiagsFacts
    <3>9. QED  BY <3>3, <3>6, <3>7, <3>8
  <2>7. QED  BY <2>5, <2>6
<1>3. Nat \subseteq T
  <2> HIDE DEF T
  <2>1. QED  BY <1>1, <1>2, NaturalsByInduction
<1>4. Len(s) \in Nat  BY LenProperties
<1>5. QED  BY <1>3, <1>4

-----------------------------------------------------------------------------
(* What the refinement needs besides: the receiver stays, and a buffer is  *)
(* flushed before it holds more than DiagBuffer.                           *)
BuffersBounded ==
  \A w \in Workers : worker[w] # Idle => Len(worker[w].buffer) <= DiagBuffer

RInv == DInv /\ diag_rx # "dropped" /\ BuffersBounded

Sent == Of(Watched, received \o channel)

(* While a worker has the file in its hands, the receiver is sent all that *)
(* was reported and is not in the worker's buffer.                         *)
WatchedInHand ==
  \A w \in InHand(Watched) :
     /\ reported[Watched] \in Nat
     /\ Len(worker[w].buffer) \in Nat
     /\ Len(worker[w].buffer) <= reported[Watched]
     /\ Len(worker[w].buffer) <= DiagBuffer
     /\ Sent = FirstDiags(reported[Watched] - Len(worker[w].buffer))

(* This follows from what FirstIn says of what is sent.                    *)
LEMMA SentOfWatched == RInv => WatchedInHand
<1> SUFFICES ASSUME RInv, NEW w \in InHand(Watched)
             PROVE  /\ reported[Watched] \in Nat
                    /\ Len(worker[w].buffer) \in Nat
                    /\ Len(worker[w].buffer) <= reported[Watched]
                    /\ Len(worker[w].buffer) <= DiagBuffer
                    /\ Sent = FirstDiags(reported[Watched] - Len(worker[w].buffer))
  BY DEF WatchedInHand
<1>1. w \in Workers /\ worker[w] # Idle /\ worker[w].file = Watched
  BY DEF InHand
<1>2. worker[w] \in BusyWorkers /\ reported[Watched] \in Nat
      /\ received \o channel \in Seq(Diags)
  BY <1>1, WatchedAssumption, ConcatProperties DEF RInv, DInv, IInv, TypeOK, BusyWorkers
<1>3. Len(worker[w].buffer) \in Nat
  BY <1>2, LenProperties DEF BusyWorkers
<1>4. Len(worker[w].buffer) <= reported[Watched]
  BY <1>1 DEF RInv, DInv, BuffersLast, HoldsLast
<1>5. Len(worker[w].buffer) <= DiagBuffer
  BY <1>1 DEF RInv, BuffersBounded
<1> DEFINE n == reported[Watched] - Len(worker[w].buffer)
<1>6. FirstIn(received \o channel, Watched, n)
  BY WatchedAssumption DEF RInv, DInv, RestIsSent, SentBefore
<1>7. n \in Nat  BY <1>2, <1>3, <1>4
<1> HIDE DEF n
<1>8. Of(Watched, received \o channel) = FirstDiags(n)
  BY <1>2, <1>6, <1>7, OfFirst
<1>9. QED  BY <1>2, <1>3, <1>4, <1>5, <1>8 DEF Sent, n

(* Every step preserves the invariant, if the receiver is not one that     *)
(* leaves.                                                                 *)
LEMMA RInvStep ==
  ASSUME Consumer # "drops", RInv, [Next]_vars
  PROVE  RInv'
<1>1. DInv'  BY DInvStep DEF RInv
<1>2. diag_rx' # "dropped"
  <2>1. \A w \in Workers : Take(w) \/ Validate(w) => UNCHANGED diag_rx
    BY DEF Take, Validate, Report, Finish, Flush, Flushed, Accept, Reject, receiving
  <2>2. CASE \E w \in Workers : Take(w) \/ Validate(w)  BY <2>1, <2>2 DEF RInv
  <2>3. CASE Produce \/ DropFileTx \/ Return \/ Receive \/ Disconnect \/ DropDiagRx
             \/ UNCHANGED vars
    BY <2>3 DEF RInv, Produce, DropFileTx, Return, Receive, Disconnect, DropDiagRx,
                receiving, vars
  <2>4. QED  BY <2>2, <2>3 DEF Next, Over
<1>3. worker \in [Workers -> {Idle} \cup BusyWorkers] /\ DiagBuffer \in Nat \ {0}
  BY CapacityAssumption DEF RInv, DInv, IInv, TypeOK, BusyWorkers
<1>4. ASSUME NEW w \in Workers, NEW b, worker' = [worker EXCEPT ![w] = b],
             b # Idle => Len(b.buffer) <= DiagBuffer
      PROVE  BuffersBounded'
  BY <1>3, <1>4 DEF RInv, BuffersBounded
<1>5. ASSUME NEW w \in Workers, Take(w)
      PROVE  BuffersBounded'
  <2>1. PICK f : worker' = [worker EXCEPT ![w] = Busy("parsing", f, <<>>)]
    BY <1>5 DEF Take
  <2>2. Busy("parsing", f, <<>>).buffer = <<>>  BY DEF Busy
  <2>3. Len(Busy("parsing", f, <<>>).buffer) <= DiagBuffer
    BY <1>3, <2>2, EmptySeq
  <2>4. QED  BY <1>4, <2>1, <2>3
<1>6. ASSUME NEW w \in Workers, Validate(w)
      PROVE  BuffersBounded'
  <2>1. worker[w] \in BusyWorkers /\ worker[w] # Idle
    BY <1>6, WorkerStates
       DEF RInv, DInv, IInv, Validate, Report, Finish, Flush, Flushed, Accept, Reject
  <2> DEFINE old == worker[w].buffer
  <2>2. old \in Seq(Diags) /\ Len(old) \in Nat /\ Len(old) <= DiagBuffer
    BY <2>1, LenProperties DEF RInv, BuffersBounded, BusyWorkers
  <2>3. CASE Report(w)
    <3>1. PICK d \in Diags, stage \in {"parsing", "flushing"}, f \in Files :
             worker' = [worker EXCEPT ![w] = Busy(stage, f, Append(old, d))]
      <4>1. worker[w].file \in Files /\ reported[worker[w].file] + 1 \in Nat
        BY <2>1 DEF RInv, DInv, IInv, TypeOK, BusyWorkers
      <4>2. Diag(worker[w].file, reported[worker[w].file] + 1) \in Diags
        BY <4>1 DEF Diag, Diags
      <4>3. QED  BY <2>3, <4>1, <4>2 DEF Report
    <3> DEFINE buffer == Append(old, d)
               b == Busy(stage, f, buffer)
    <3>2. Len(buffer) = Len(old) + 1  BY <2>2, AppendProperties
    <3>3. worker[w].stage = "parsing"  BY <2>3 DEF Report
    <3>4. Len(old) = reported[worker[w].file] % DiagBuffer
          /\ reported[worker[w].file] \in Nat
      BY <2>1, <3>3 DEF RInv, DInv, IInv, TypeOK, BusyWorkers, BuffersLast, HoldsLast
    <3>5. Len(old) < DiagBuffer
      <4> DEFINE n == reported[worker[w].file]
      <4>1. n \in Nat  BY <3>4
      <4> HIDE DEF n
      <4>2. n % DiagBuffer < DiagBuffer  BY <1>3, <4>1
      <4>3. QED  BY <3>4, <4>2 DEF n
    <3>6. Len(buffer) <= DiagBuffer
      <4> HIDE DEF buffer, old
      <4>1. QED  BY <1>3, <2>2, <3>2, <3>5
    <3> HIDE DEF buffer
    <3>7. b.buffer = buffer  BY DEF Busy
    <3> HIDE DEF b
    <3>8. Len(b.buffer) <= DiagBuffer  BY <3>6, <3>7
    <3>9. worker' = [worker EXCEPT ![w] = b]  BY <3>1 DEF b, buffer
    <3>10. QED  BY <1>4, <3>8, <3>9
  <2>4. CASE Finish(w) \/ Flushed(w)
    <3>1. PICK stage : worker' = [worker EXCEPT ![w] = [worker[w] EXCEPT !.stage = stage]]
      BY <2>4 DEF Finish, Flushed
    <3> DEFINE b == [worker[w] EXCEPT !.stage = stage]
    <3>2. b.buffer = old  BY <2>1 DEF BusyWorkers
    <3> HIDE DEF b
    <3>3. Len(b.buffer) <= DiagBuffer  BY <2>2, <3>2
    <3>4. worker' = [worker EXCEPT ![w] = b]  BY <3>1 DEF b
    <3>5. QED  BY <1>4, <3>3, <3>4
  <2>5. CASE Flush(w)
    <3> DEFINE b == [worker[w] EXCEPT !.buffer = Tail(@)]
    <3>1. worker' = [worker EXCEPT ![w] = b] /\ old # <<>>
      BY <2>5 DEF Flush
    <3>2. b.buffer = Tail(old)  BY <2>1 DEF BusyWorkers
    <3>3. Len(Tail(old)) = Len(old) - 1  BY <2>2, <3>1, HeadTailProperties
    <3> HIDE DEF b
    <3>4. Len(b.buffer) <= DiagBuffer
      <4> DEFINE l == Len(old)
                 t == Tail(old)
      <4>1. l \in Nat /\ l <= DiagBuffer /\ Len(t) = l - 1  BY <2>2, <3>3
      <4> HIDE DEF l, t
      <4>2. Len(t) <= DiagBuffer  BY <1>3, <4>1
      <4>3. QED  BY <3>2, <4>2 DEF t
    <3>5. QED  BY <1>4, <3>1, <3>4
  <2>6. CASE Accept(w) \/ Reject(w)
    <3>1. worker' = [worker EXCEPT ![w] = Idle]  BY <2>6 DEF Accept, Reject
    <3>2. QED  BY <1>4, <3>1
  <2>7. QED  BY <1>6, <2>3, <2>4, <2>5, <2>6 DEF Validate
<1>7. ASSUME \/ Produce \/ DropFileTx \/ Return \/ Receive \/ Disconnect \/ DropDiagRx
             \/ UNCHANGED vars
      PROVE  BuffersBounded'
  <2>1. UNCHANGED worker
    BY <1>7 DEF Produce, DropFileTx, Return, Receive, Disconnect, DropDiagRx, vars
  <2>2. QED  BY <2>1 DEF RInv, BuffersBounded
<1>8. BuffersBounded'  BY <1>5, <1>6, <1>7 DEF Next, Over
<1>9. QED  BY <1>1, <1>2, <1>8 DEF RInv

-----------------------------------------------------------------------------
(* Initially nothing of any file is reported or sent.                      *)
LEMMA OutputInit == Init => Output!Init
<1> SUFFICES ASSUME Init PROVE Output!Init
  OBVIOUS
<1>1. received \o channel = <<>>
  <2>1. <<>> \in Seq(Diags) /\ received = <<>> /\ channel = <<>>  BY EmptySeq DEF Init
  <2>2. QED  BY <2>1, ConcatEmptySeq
<1>2. Of(Watched, <<>>) = <<>>
  <2>1. <<>> \in Seq(Diags) /\ FirstIn(<<>>, Watched, 0)  BY EmptySeq, FirstInEmpty
  <2>2. Of(Watched, <<>>) = FirstDiags(0)  BY <2>1, OfFirst
  <2>3. FirstDiags(0) = <<>>  BY FirstDiagsFacts, EmptySeq
  <2>4. QED  BY <2>2, <2>3
<1>3. reported[Watched] = 0 /\ outcome[Watched] = "none"
  BY WatchedAssumption DEF Init
<1>4. FirstDiags(reported[Watched]) = <<>>
  BY <1>3, FirstDiagsFacts, EmptySeq
<1>5. QED  BY <1>1, <1>2, <1>3, <1>4 DEF Output!Init

(* Fewer of the first diagnostics are a prefix of more of them.            *)
LEMMA FewerFirst ==
  ASSUME NEW m \in Nat, NEW n \in Nat, m <= n
  PROVE  Output!IsPrefix(FirstDiags(m), FirstDiags(n))
<1> DEFINE s == FirstDiags(m)
           t == FirstDiags(n)
<1>1. /\ s \in Seq(Diags) /\ Len(s) = m /\ \A i \in 1 .. m : s[i] = Diag(Watched, i)
      /\ t \in Seq(Diags) /\ Len(t) = n /\ \A i \in 1 .. n : t[i] = Diag(Watched, i)
  BY FirstDiagsFacts
<1> HIDE DEF s, t
<1>2. IsPrefix(s, t)
  <2>1. \A i \in 1 .. m : i \in 1 .. n  OBVIOUS
  <2>2. Len(s) <= Len(t) /\ \A i \in 1 .. Len(s) : s[i] = t[i]  BY <1>1, <2>1
  <2>3. QED  BY <1>1, <2>2, PrefixElements
<1>3. QED  BY <1>2 DEF Output!IsPrefix, IsPrefix, s, t

(* A step with the watched file in hand before and after: what is reported *)
(* grows, and what is not in the buffer has been sent.                     *)
LEMMA ProgressOfWatched ==
  ASSUME RInv, RInv', NEW w \in InHand(Watched), w \in InHand(Watched)',
         outcome[Watched] = "none", outcome'[Watched] = outcome[Watched],
         reported[Watched] <= reported'[Watched],
         reported[Watched] - Len(worker[w].buffer)
           <= reported'[Watched] - Len(worker'[w].buffer)
  PROVE  Output!Progress
<1> DEFINE n  == reported[Watched]
           n1 == reported'[Watched]
           l  == Len(worker[w].buffer)
           l1 == Len(worker'[w].buffer)
<1>1. /\ n \in Nat /\ l \in Nat /\ l <= n /\ Sent = FirstDiags(n - l)
  BY SentOfWatched DEF WatchedInHand
<1>2. /\ n1 \in Nat /\ l1 \in Nat /\ l1 <= n1 /\ l1 <= DiagBuffer
      /\ Sent' = FirstDiags(n1 - l1)
  <2>1. (RInv => WatchedInHand)'  BY SentOfWatched, PTL
  <2>2. FirstDiags(n1 - l1) = FirstDiags(reported[Watched] - Len(worker[w].buffer))'
    BY DEF FirstDiags, Diag
  <2>3. QED  BY <2>1, <2>2 DEF WatchedInHand
<1>3. n <= n1 /\ n - l <= n1 - l1  OBVIOUS
<1>4. FirstDiags(n)' = FirstDiags(n1)  BY DEF FirstDiags, Diag
<1>5. outcome'[Watched] = outcome[Watched] /\ outcome[Watched] = "none"  OBVIOUS
<1>6. DiagBuffer \in Nat  BY CapacityAssumption
<1> HIDE DEF n, n1, l, l1
<1>7. n - l \in Nat /\ n1 - l1 \in Nat /\ n1 - l1 <= n1 /\ n1 - (n1 - l1) <= DiagBuffer
  BY <1>1, <1>2, <1>6
<1>8. /\ Output!IsPrefix(FirstDiags(n), FirstDiags(n1))
      /\ Output!IsPrefix(FirstDiags(n - l), FirstDiags(n1 - l1))
      /\ Output!IsPrefix(FirstDiags(n1 - l1), FirstDiags(n1))
  BY <1>1, <1>2, <1>3, <1>7, FewerFirst
<1>9. Len(FirstDiags(n1)) - Len(FirstDiags(n1 - l1)) <= DiagBuffer
  <2>1. Len(FirstDiags(n1)) = n1 /\ Len(FirstDiags(n1 - l1)) = n1 - l1
    BY <1>2, <1>7, FirstDiagsFacts
  <2>2. QED  BY <1>7, <2>1
<1>10. QED
  BY <1>1, <1>2, <1>4, <1>5, <1>8, <1>9 DEF Output!Progress, Sent, n

(* What a worker does with the watched file in its hands.                  *)
LEMMA WatchedStep ==
  ASSUME RInv, RInv', NEW w \in InHand(Watched), Validate(w)
  PROVE  [Output!Next]_(Output!vars)
<1>1. /\ w \in Workers /\ worker[w] # Idle /\ worker[w].file = Watched
      /\ worker[w] \in BusyWorkers
      /\ worker \in [Workers -> {Idle} \cup BusyWorkers]
      /\ outcome \in [Files -> {"none", "ok", "failed"}]
      /\ reported \in [Files -> Nat]
      /\ Watched \in Files
      /\ outcome[Watched] = "none"
  BY WatchedAssumption DEF InHand, RInv, DInv, IInv, TypeOK, BusyWorkers, Apart
<1> DEFINE n == reported[Watched]
           old == worker[w].buffer
           l == Len(old)
<1>2. /\ n \in Nat /\ l \in Nat /\ l <= n /\ Sent = FirstDiags(n - l)
  BY SentOfWatched DEF WatchedInHand
<1>3. old \in Seq(Diags)  BY <1>1 DEF BusyWorkers
<1>4. CASE Report(w)
  <2> DEFINE d == Diag(Watched, n + 1)
             buffer == Append(old, d)
             stage == IF IsFull(buffer) THEN "flushing" ELSE "parsing"
             b == Busy(stage, Watched, buffer)
  <2>1. /\ worker' = [worker EXCEPT ![w] = b]
        /\ reported' = [reported EXCEPT ![Watched] = n + 1]
        /\ UNCHANGED outcome
    BY <1>1, <1>4 DEF Report
  <2>2. d \in Diags  BY <1>1, <1>2 DEF Diag, Diags
  <2> HIDE DEF d
  <2>3. Len(buffer) = l + 1  BY <1>3, <2>2, AppendProperties
  <2> HIDE DEF buffer
  <2>4. b.file = Watched /\ b.buffer = buffer /\ b # Idle /\ b.stage = stage
    BY DEF Busy, Idle
  <2> HIDE DEF b
  <2>5. worker'[w] = b  BY <1>1, <2>1
  <2>6. w \in InHand(Watched)'
    BY <1>1, <2>4, <2>5 DEF InHand
  <2>7. reported'[Watched] = n + 1 /\ Len(worker'[w].buffer) = l + 1
    BY <1>1, <2>1, <2>3, <2>4, <2>5
  <2>8. n <= n + 1 /\ n - l <= (n + 1) - (l + 1)
    <3> HIDE DEF n, l
    <3>1. QED  BY <1>2
  <2>9. /\ reported[Watched] <= reported'[Watched]
        /\ reported[Watched] - Len(worker[w].buffer)
             <= reported'[Watched] - Len(worker'[w].buffer)
    BY <2>7, <2>8
  <2>10. Output!Progress
    BY <1>1, <2>1, <2>6, <2>9, ProgressOfWatched
  <2>11. QED  BY <2>10 DEF Output!Next
<1>5. CASE Flush(w)
  <2> DEFINE b == [worker[w] EXCEPT !.buffer = Tail(@)]
  <2>1. /\ worker' = [worker EXCEPT ![w] = b] /\ old # <<>>
        /\ UNCHANGED <<reported, outcome>>
    BY <1>5 DEF Flush
  <2>2. /\ b.buffer = Tail(old)
        /\ b \in [stage : {worker[w].stage}, file : {Watched}, buffer : {Tail(old)}]
    BY <1>1 DEF BusyWorkers
  <2>3. Len(Tail(old)) = l - 1  BY <1>3, <2>1, HeadTailProperties
  <2>4. b.file = Watched /\ b # Idle  BY <2>2 DEF Idle
  <2> HIDE DEF b
  <2>5. worker'[w] = b  BY <1>1, <2>1
  <2>6. w \in InHand(Watched)'  BY <1>1, <2>4, <2>5 DEF InHand
  <2>7. reported'[Watched] = n /\ Len(worker'[w].buffer) = l - 1
    BY <2>1, <2>2, <2>3, <2>5
  <2>8. n <= n /\ n - l <= n - (l - 1)
    <3> HIDE DEF n, l
    <3>1. QED  BY <1>2
  <2>9. /\ reported[Watched] <= reported'[Watched]
        /\ reported[Watched] - Len(worker[w].buffer)
             <= reported'[Watched] - Len(worker'[w].buffer)
    BY <2>7, <2>8
  <2>10. Output!Progress
    BY <1>1, <2>1, <2>6, <2>9, ProgressOfWatched
  <2>11. QED  BY <2>10 DEF Output!Next
<1>6. CASE Finish(w) \/ Flushed(w)
  <2>1. UNCHANGED <<reported, outcome, received, channel>>
    BY <1>6 DEF Finish, Flushed, receiving
  <2>2. UNCHANGED Output!vars
    BY <2>1 DEF Output!vars, Of, FirstDiags, Diag
  <2>3. QED  BY <2>2
<1>7. CASE Accept(w)
  <2>1. /\ worker[w].buffer = <<>>
        /\ outcome' = [outcome EXCEPT ![Watched] = "ok"]
        /\ UNCHANGED <<reported, received, channel>>
    BY <1>1, <1>7 DEF Accept, receiving
  <2>2. n - l = n
    <3>1. l = 0  BY <2>1, EmptySeq
    <3> HIDE DEF n, l
    <3>2. QED  BY <1>2, <3>1
  <2>3. Of(Watched, received \o channel) = FirstDiags(n)  BY <1>2, <2>2 DEF Sent
  <2>4. Of(Watched, received \o channel)' = Of(Watched, received \o channel)
        /\ FirstDiags(n)' = FirstDiags(n)
    BY <2>1 DEF Of, FirstDiags, Diag
  <2>5. Output!Accept
    BY <1>1, <2>1, <2>3, <2>4 DEF Output!Accept
  <2>6. QED  BY <2>5 DEF Output!Next
<1>8. CASE Reject(w)
  <2>1. /\ worker[w].stage = "parsing"
        /\ outcome' = [outcome EXCEPT ![Watched] = "failed"]
        /\ UNCHANGED <<reported, received, channel>>
    BY <1>1, <1>8 DEF Reject, receiving
  <2>2. l < DiagBuffer
    <3>1. l = n % DiagBuffer
      BY <1>1, <2>1 DEF RInv, DInv, BuffersLast, HoldsLast
    <3>2. DiagBuffer \in Nat \ {0}  BY CapacityAssumption
    <3> HIDE DEF n, l
    <3>3. QED  BY <1>2, <3>1, <3>2
  <2>3. Len(FirstDiags(n)) - Len(FirstDiags(n - l)) < DiagBuffer
    <3> HIDE DEF n, l
    <3>1. n - l \in Nat /\ n - (n - l) = l  BY <1>2
    <3>2. Len(FirstDiags(n)) = n /\ Len(FirstDiags(n - l)) = n - l
      BY <1>2, <3>1, FirstDiagsFacts
    <3>3. QED  BY <2>2, <3>1, <3>2
  <2>4. Of(Watched, received \o channel)' = Of(Watched, received \o channel)
        /\ FirstDiags(n)' = FirstDiags(n)
    BY <2>1 DEF Of, FirstDiags, Diag
  <2>5. Len(FirstDiags(n)) - Len(Of(Watched, received \o channel)) < DiagBuffer
    BY <1>2, <2>3 DEF Sent
  <2>6. Output!Reject
    BY <1>1, <2>1, <2>4, <2>5 DEF Output!Reject
  <2>7. QED  BY <2>6 DEF Output!Next
<1>9. QED  BY <1>4, <1>5, <1>6, <1>7, <1>8 DEF Validate

(* A step with another file in a worker's hands may send diagnostics of    *)
(* that file, which are not the watched one's.                             *)
LEMMA OtherStep ==
  ASSUME RInv, NEW w \in Workers, w \notin InHand(Watched), Validate(w)
  PROVE  UNCHANGED Output!vars
<1> DEFINE f == worker[w].file
<1>1. /\ worker[w] \in BusyWorkers /\ worker[w] # Idle
  BY WorkerStates
     DEF RInv, DInv, IInv, Validate, Report, Finish, Flush, Flushed, Accept, Reject
<1>2. f # Watched /\ f \in Files  BY <1>1 DEF InHand, BusyWorkers
<1>3. /\ reported \in [Files -> Nat] /\ outcome \in [Files -> {"none", "ok", "failed"}]
      /\ received \in Seq(Diags) /\ channel \in Seq(Diags)
      /\ worker[w].buffer \in Seq(Diags)
  BY <1>1 DEF RInv, DInv, IInv, TypeOK, BusyWorkers
<1>4. reported'[Watched] = reported[Watched] /\ outcome'[Watched] = outcome[Watched]
  <2>1. CASE Report(w)
    <3>1. PICK n : reported' = [reported EXCEPT ![f] = n]  BY <2>1 DEF Report
    <3>2. outcome' = outcome  BY <2>1 DEF Report
    <3> HIDE DEF f
    <3>3. QED  BY <1>2, <1>3, <3>1, <3>2
  <2>2. CASE Finish(w) \/ Flush(w) \/ Flushed(w)
    BY <2>2 DEF Finish, Flush, Flushed
  <2>3. CASE Accept(w) \/ Reject(w)
    <3>1. PICK result : outcome' = [outcome EXCEPT ![f] = result]
      BY <2>3 DEF Accept, Reject
    <3>2. reported' = reported  BY <2>3 DEF Accept, Reject
    <3> HIDE DEF f
    <3>3. QED  BY <1>2, <1>3, <3>1, <3>2
  <2>4. QED  BY <2>1, <2>2, <2>3 DEF Validate
<1>5. Of(Watched, received \o channel)' = Of(Watched, received \o channel)
  <2>1. CASE Flush(w)
    <3> DEFINE old == worker[w].buffer
               d   == Head(old)
    <3>1. old # <<>> /\ received' = received /\ channel' = Append(channel, d)
      BY <2>1 DEF Flush, Send, RInv, receiving
    <3>2. d \in Diags /\ d = old[1] /\ 1 \in 1 .. Len(old)
      <4>1. Len(old) \in Nat /\ Len(old) # 0  BY <1>3, <3>1, EmptySeq
      <4>2. 1 \in 1 .. Len(old)
        <5> HIDE DEF old
        <5>1. QED  BY <4>1
      <4>3. QED  BY <1>3, <3>1, <4>2, HeadTailProperties
    <3>3. d.file = f
      <4>1. old[1] = Diag(f, reported[f] - Len(old) + 1)
        BY <1>1, <3>2 DEF RInv, DInv, BuffersLast, HoldsLast
      <4>2. QED  BY <3>2, <4>1 DEF Diag
    <3> HIDE DEF d
    <3>4. received \o Append(channel, d) = Append(received \o channel, d)
      BY <1>3, <3>2, AppendToChannel
    <3>5. received \o channel \in Seq(Diags)  BY <1>3, ConcatProperties
    <3> DEFINE s == received \o channel
    <3>6. (received \o channel)' = Append(s, d)  BY <3>1, <3>4
    <3>7. Of(Watched, Append(s, d)) = Of(Watched, s)
      <4>1. s \in Seq(Diags) /\ d \in Diags /\ d.file # Watched
        BY <1>2, <3>2, <3>3, <3>5
      <4> HIDE DEF s
      <4>2. QED  BY <4>1, OfAppend
    <3>8. Of(Watched, received \o channel)' = Of(Watched, (received \o channel)')
      BY DEF Of
    <3>9. QED  BY <3>6, <3>7, <3>8
  <2>2. CASE Report(w) \/ Finish(w) \/ Flushed(w) \/ Accept(w) \/ Reject(w)
    <3>1. UNCHANGED <<received, channel>>
      BY <2>2 DEF Report, Finish, Flushed, Accept, Reject, receiving
    <3>2. QED  BY <3>1 DEF Of
  <2>3. QED  BY <2>1, <2>2 DEF Validate
<1>6. FirstDiags(reported[Watched])' = FirstDiags(reported[Watched])
  BY <1>4 DEF FirstDiags, Diag
<1>7. QED  BY <1>4, <1>5, <1>6 DEF Output!vars

(* Every step of the pipeline is a step of the file's output or leaves it  *)
(* as it is.                                                               *)
LEMMA WatchedOutputStep ==
  ASSUME Consumer # "drops", RInv, RInv', [Next]_vars
  PROVE  [Output!Next]_(Output!vars)
<1>1. ASSUME NEW w \in Workers, Validate(w)
      PROVE  [Output!Next]_(Output!vars)
  BY <1>1, WatchedStep, OtherStep
<1>2. CASE \/ Produce \/ DropFileTx \/ Return \/ Receive \/ Disconnect \/ UNCHANGED vars
           \/ \E w \in Workers : Take(w)
  <2>1. UNCHANGED <<reported, outcome>>
    BY <1>2 DEF Produce, DropFileTx, Take, Return, Receive, Disconnect, vars
  <2>2. (received \o channel)' = received \o channel
    <3>1. CASE Receive  BY <3>1, ReceiveKeeps DEF RInv, DInv
    <3>2. CASE ~Receive
      BY <1>2, <3>2 DEF Produce, DropFileTx, Take, Return, Disconnect, vars, receiving
    <3>3. QED  BY <3>1, <3>2
  <2>3. /\ Of(Watched, received \o channel)' = Of(Watched, received \o channel)
        /\ FirstDiags(reported[Watched])' = FirstDiags(reported[Watched])
    <3>1. Of(Watched, received \o channel)' = Of(Watched, (received \o channel)')
      BY DEF Of
    <3>2. FirstDiags(reported[Watched])' = FirstDiags(reported[Watched])
      BY <2>1 DEF FirstDiags, Diag
    <3>3. QED  BY <2>2, <3>1, <3>2
  <2>4. QED  BY <2>1, <2>3 DEF Output!vars
<1>3. ~DropDiagRx  BY DEF DropDiagRx
<1>4. QED  BY <1>1, <1>2, <1>3 DEF Next, Over

(* To a receiver that stays, each file, whichever it is, is as if it were  *)
(* the only one: however the workers' sends interleave on the one channel, *)
(* the pipeline implements FileOutput for it, as parse_file does alone.    *)
THEOREM EachFileAsAlone ==
  ASSUME Consumer # "drops"
  PROVE  Spec => FileAsAlone
<1>1. Init => RInv
  <2> SUFFICES ASSUME Init PROVE RInv
    OBVIOUS
  <2>1. BuffersBounded  BY DEF Init, BuffersBounded
  <2>2. QED  BY <2>1, InitDInv DEF Init, RInv
<1>2. RInv /\ [Next]_vars => RInv'  BY RInvStep
<1>3. RInv /\ RInv' /\ [Next]_vars => [Output!Next]_(Output!vars)
  BY WatchedOutputStep
<1>4. QED
  BY OutputInit, <1>1, <1>2, <1>3, PTL DEF Spec, FileAsAlone, Output!Spec
=============================================================================
