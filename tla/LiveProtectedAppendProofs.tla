---------------------- MODULE LiveProtectedAppendProofs ----------------------
(***************************************************************************)
(* What holds of LiveProtectedAppend for any number of callers, keys,      *)
(* fragments, starts, deaths of the process and failures of the worker,    *)
(* and any length of the session and of the worker's queue.                *)
(*                                                                         *)
(* Part 1: the invariant.  Part 2: what happens to a call.  Part 3: each   *)
(* part of IInv is kept by every step.  Part 4: the safety properties.     *)
(* Part 5: LiveProtectedAppend implements SegmentLog.  Part 6: what it     *)
(* inherits from it.                                                       *)
(***************************************************************************)
EXTENDS LiveProtectedAppend, TLAPS

-----------------------------------------------------------------------------
(***************************************************************************)
(* Part 1: the invariant                                                   *)
(***************************************************************************)

Active(c) == call[c].step \notin Waiting

\* Steps at which the segment is stored, and at which it has its receipt.
Written == {"session", "map", "ledger", "counters"}
Mapped  == {"ledger", "counters"}

(* One append at a time holds the processor.                               *)
OneRuns == \A c, d \in Calls : Active(c) /\ Active(d) => c = d

(* What waits in the worker's queue waits there once.                      *)
QueueSound ==
  /\ \A i \in 1 .. Len(queue) : At(queue[i], "queued")
  /\ \A i, j \in 1 .. Len(queue) : queue[i] = queue[j] => i = j

(* The status under a call, a stop, a start and a sealed map.              *)
StatusSound ==
  /\ stopping # "no" => status = "STOPPING"
  /\ sealed => status \notin {"READY", "RUNNING"}
  /\ \A c \in Calls : Active(c) /\ ~ At(c, "publish") => status = "RUNNING"
  /\ \A c \in Calls : ~ At(c, "idle") => status # "READY"
  /\ status = "READY" => startAttempt = Absent
  /\ \A k \in Starts : starting[k] = "receipt" => startAttempt = k
  /\ OneStart

(* The segments stored are those the session counts, and the one a journal *)
(* left behind names.                                                      *)
StoredUpTo ==
  /\ Counted <= MaxSegments
  /\ \A s \in SeqNos : record[s] # Absent <=> s < Counted

(* The entries of a ledger, the current one or one read long ago, are of   *)
(* stored segments with a receipt.                                         *)
LedgerBacked(l) ==
  \A s \in SeqNos : l[s] # Absent =>
    /\ s < Len(rolling)
    /\ record[s] # Absent
    /\ record[s].key = l[s].key /\ record[s].output.source = l[s].source

CallSound(c) ==
  /\ ~ At(c, "idle") => /\ call[c].request \in Request
                        /\ call[c].ledger \in Ledger /\ LedgerBacked(call[c].ledger)
  /\ Active(c) => /\ call[c].output \in Output
                  /\ call[c].output.source = call[c].request.source
  /\ call[c].step \in Written => SameAsStored(c)
  /\ call[c].step \in Mapped => Len(rolling) = call[c].request.sequence + 1

CallsSound == \A c \in Calls : CallSound(c)

Backed == ReceiptsAreBacked /\ LedgerBacked(ledger)

(* A fragment is verified once: when its receipt has been written, and     *)
(* before the append is answered, no verification of it was asked for.     *)
SamplesSound ==
  /\ SamplesAreReal
  /\ \A x \in samples : x.sequence < Len(rolling)
  /\ \A s \in sampling : /\ record[s] # Absent /\ Sampled(s) /\ s < Len(rolling)
                         /\ \A x \in samples : x.sequence # s
  /\ \A c \in Calls : call[c].step \in Mapped =>
       /\ call[c].request.sequence \notin sampling
       /\ \A x \in samples : x.sequence # call[c].request.sequence

UpTo(l, n) == \A s \in SeqNos : l[s] # Absent <=> s < n

Tally(n, b, entries, counted) ==
  next = n /\ behind = b /\ UpTo(ledger, entries) /\ frames = counted

(* What the session, the ledger and the frame counter say at each step of  *)
(* an append, compared with the number of receipts.                        *)
TalliesAgree ==
  LET n == Len(rolling) IN
  /\ \A i \in 1 .. n : rolling[i].offset = i - 1
  /\ (\A c \in Calls : call[c].step \notin Written) => Tally(n, FALSE, n, n)
  /\ \A c \in Calls :
       /\ At(c, "session") => Tally(n, TRUE, n, n)
       /\ At(c, "map") /\ call[c].request.sequence = n => Tally(n + 1, FALSE, n, n)
       /\ At(c, "ledger") => Tally(n, FALSE, n - 1, n - 1)
       /\ At(c, "counters") => Tally(n, FALSE, n, n - 1)

(* While no death of the process has torn an append, what a call read      *)
(* before it waited is what it was for its position.                       *)
ReadsAgree ==
  \A c \in Calls : ~ At(c, "idle") =>
    /\ call[c].frames = call[c].request.sequence
    /\ UpTo(call[c].ledger, call[c].request.sequence)

AgreeUnlessTorn ==
  ~ torn => ReadsAgree /\ (status \in {"READY", "RUNNING"} => TalliesAgree)

IInv == /\ TypeOK /\ OneRuns /\ QueueSound /\ StatusSound /\ StoredUpTo
        /\ CallsSound /\ Backed /\ SamplesSound /\ AgreeUnlessTorn

-----------------------------------------------------------------------------
(***************************************************************************)
(* Part 2: what a step does                                                *)
(***************************************************************************)

(* A call goes on.                                                         *)
LEMMA CallMoves ==
  ASSUME TypeOK, NEW c \in Calls, NEW s \in Steps, Goto(c, s)
  PROVE  /\ call' \in [Calls -> Call]
         /\ call'[c].step = s /\ call'[c].request = call[c].request
         /\ call'[c].ledger = call[c].ledger /\ call'[c].frames = call[c].frames
         /\ call'[c].output = call[c].output
         /\ \A d \in Calls \ {c} : call'[d] = call[d]
BY DEF TypeOK, Goto, Call

(* A call comes to its end.                                                *)
LEMMA CallEnds ==
  ASSUME TypeOK, NEW c \in Calls, Return(c)
  PROVE  /\ call' \in [Calls -> Call] /\ call'[c] = NoCall /\ NoCall.step = "idle"
         /\ \A d \in Calls \ {c} : call'[d] = call[d]
BY DEF TypeOK, Return, Call, NoCall, Steps, Waiting

(* A call is taken up.                                                     *)
LEMMA CallBegins ==
  ASSUME TypeOK, NEW c \in Calls, NEW r \in Request, AppendAccepted(c, r)
  PROVE  /\ call' \in [Calls -> Call]
         /\ call'[c].step = "queued" /\ call'[c].request = r
         /\ call'[c].ledger = ledger /\ call'[c].frames = frames
         /\ \A d \in Calls \ {c} : call'[d] = call[d]
BY DEF TypeOK, AppendAccepted, Call, Steps, Waiting

\* Steps beside the appends.
Beside == \/ Upload \/ (\E k \in Starts : Start(k))
          \/ (\E r \in Offers : AppendReplayed(r) \/ AppendOverflows(r))
          \/ (\E s \in SeqNos : Sample(s)) \/ VerifierDies \/ Stop \/ HealthCheck
          \/ UNCHANGED vars

\* No call moves and nothing of the evidence changes.
Aside ==
  /\ UNCHANGED <<call, queue, record, rolling, ledger, frames, torn>>
  /\ UNCHANGED <<next, behind>> \/ (Free /\ Reconcile)

LEMMA AsideSteps ==
  ASSUME Beside
  PROVE  Aside
<1> USE DEF Aside, lifecycle, inits, segments, seals, sampled, working, others, history
<1>1. CASE Upload
  BY <1>1 DEF Upload, UploadInit, UploadInitRecord, UploadInitSession
<1>2. CASE \E k \in Starts : Start(k)
  <2>1. PICK k \in Starts : Start(k)
    BY <1>2
  <2>2. CASE StartCall(k) \/ StartReady(k) \/ StartThrows(k) \/ WriteStartReceipt(k)
    BY <2>2 DEF StartCall, StartReady, StartThrows, WriteStartReceipt
  <2>3. CASE StartRetried(k) \/ StartReplayed(k)
    BY <2>3 DEF StartRetried, StartReplayed
  <2> QED
    BY <2>1, <2>2, <2>3 DEF Start
<1>3. CASE \E r \in Offers : AppendReplayed(r) \/ AppendOverflows(r)
  BY <1>3 DEF AppendReplayed, AppendOverflows
<1>4. CASE (\E s \in SeqNos : Sample(s)) \/ VerifierDies
  BY <1>4 DEF Sample, SampleVerified, SampleFails, VerifierDies
<1>5. CASE Stop
  BY <1>5 DEF Stop, StopCall, StopSeals, StopEnds
<1>6. CASE HealthCheck \/ UNCHANGED vars
  BY <1>6 DEF HealthCheck, vars
<1> QED
  BY <1>1, <1>2, <1>3, <1>4, <1>5, <1>6 DEF Beside

\* A call that fails: its session fails with it, and nothing is written.
Fails(c) ==
  /\ ~ At(c, "idle") /\ (Free \/ Active(c)) /\ Return(c) /\ Failed
  /\ UNCHANGED <<startAttempt, startReceipt, record, seals, sampled, others,
                 acked, started, torn>>
  /\ UNCHANGED <<next, behind>> \/ (At(c, "segment") /\ Reconcile)
  /\ \/ ~ At(c, "queued") /\ UNCHANGED queue
     \/ queue # <<>> /\ c = Head(queue) /\ queue' = Tail(queue)

LEMMA FailureSteps ==
  ASSUME NEW c \in Calls,
         \/ (WorkerRefuses(c) /\ QueueSound /\ TypeOK) \/ OrphanRejected(c)
         \/ PublishRefused(c) \/ PublishIncompatible(c) \/ SegmentRefused(c)
         \/ ReceiptRefused(c) \/ LedgerRefused(c)
  PROVE  Fails(c)
<1> USE DEF Fails, Active, Waiting, At, lifecycle, inits, segments, seals, sampled, working, others, history
<1>1. CASE WorkerRefuses(c) /\ QueueSound /\ TypeOK
  <2>1. queue \in Seq(Calls) /\ queue # <<>> /\ c = queue[1] /\ 1 \in 1 .. Len(queue)
    BY <1>1 DEF WorkerRefuses, TypeOK
  <2>2. At(c, "queued")
    BY <1>1, <2>1 DEF QueueSound
  <2> QED
    BY <1>1, <2>2 DEF WorkerRefuses
<1>2. CASE OrphanRejected(c) \/ SegmentRefused(c)
  BY <1>2 DEF OrphanRejected, SegmentRefused
<1>3. CASE PublishRefused(c) \/ PublishIncompatible(c) \/ ReceiptRefused(c) \/ LedgerRefused(c)
  BY <1>3 DEF PublishRefused, PublishIncompatible, ReceiptRefused, LedgerRefused, Throws
<1> QED
  BY <1>1, <1>2, <1>3

\* A call that publishes the init file, or finds it published.
Publishes(c) ==
  /\ call[c].step \in {"publish", "init.record", "init.session"}
  /\ \E s \in {"init.record", "init.session", "segment"} : Goto(c, s)
  /\ At(c, "publish") => status = "RUNNING"
  /\ UNCHANGED <<lifecycle, segments, seals, sampled, queue, others, history>>

LEMMA PublishingSteps ==
  ASSUME NEW c \in Calls, PublishInit(c) \/ WriteInitRecord(c) \/ WriteInitSession(c)
  PROVE  Publishes(c)
BY DEF PublishInit, WriteInitRecord, WriteInitSession, Publishes, Publishable, At

\* The other steps of an append past the worker.
Writes(c) == \/ WriteSegment(c) \/ CountSegment(c) \/ SegmentDuplicate(c)
             \/ WriteReceipt(c) \/ WriteLedger(c) \/ CountFrames(c)

(* Every step is of one of these kinds.                                    *)
LEMMA StepKinds ==
  ASSUME IInv, [Next]_vars
  PROVE  \/ Beside \/ WorkerDies \/ Crash
         \/ \E c \in Calls : \/ \E r \in Request : AppendAccepted(c, r)
                             \/ \E v \in Variants : WorkerAnswers(c, v)
                             \/ Fails(c) \/ Publishes(c) \/ Writes(c)
<1>1. ASSUME NEW c \in Calls, NEW r \in Offers, Ask(c, r)
      PROVE  Beside \/ \E q \in Request : AppendAccepted(c, q)
  <2>1. r \in Request
    BY AppendAssumption DEF Request, SeqNos
  <2> QED
    BY <1>1, <2>1 DEF Ask, Beside
<1>2. ASSUME NEW c \in Calls, Work(c)
      PROVE  (\E v \in Variants : WorkerAnswers(c, v)) \/ Fails(c)
  BY <1>2, FailureSteps DEF Work, IInv
<1>3. ASSUME NEW c \in Calls, Continue(c)
      PROVE  Fails(c) \/ Publishes(c) \/ Writes(c)
  BY <1>3, FailureSteps, PublishingSteps DEF Continue, Writes
<1> QED
  BY <1>1, <1>2, <1>3 DEF Next, Beside

(* The worker's answer takes up the head of the queue.                     *)
LEMMA CallAnswered ==
  ASSUME IInv, NEW c \in Calls, NEW v \in Variants, WorkerAnswers(c, v)
  PROVE  /\ At(c, "queued") /\ call[c].request \in Request
         /\ call' \in [Calls -> Call]
         /\ call'[c].step = "publish" /\ call'[c].request = call[c].request
         /\ call'[c].ledger = call[c].ledger /\ call'[c].frames = call[c].frames
         /\ call'[c].output \in Output
         /\ call'[c].output.source = call[c].request.source
         /\ \A d \in Calls \ {c} : call'[d] = call[d]
<1>1. At(c, "queued")
  <2>1. queue \in Seq(Calls) /\ queue # <<>> /\ c = queue[1] /\ 1 \in 1 .. Len(queue)
    BY DEF WorkerAnswers, IInv, TypeOK
  <2> QED
    BY <2>1 DEF IInv, QueueSound
<1>2. call \in [Calls -> Call] /\ call[c].request \in Request
  BY <1>1 DEF IInv, TypeOK, CallsSound, CallSound, At
<1>3. [source |-> call[c].request.source, variant |-> v] \in Output
  BY <1>2 DEF Request, Output
<1> HIDE DEF Output
<1>4. call' = [call EXCEPT ![c] = [call[c] EXCEPT !.step = "publish",
                 !.output = [source |-> call[c].request.source, variant |-> v]]]
  BY <1>2 DEF WorkerAnswers, Call
<1>5. [call[c] EXCEPT !.step = "publish",
         !.output = [source |-> call[c].request.source, variant |-> v]] \in Call
  BY <1>2, <1>3 DEF Call, Steps
<1> QED
  BY <1>1, <1>2, <1>3, <1>4, <1>5 DEF Call

(* A journal that is settled counts the segment it names.                  *)
LEMMA ReconcileCounts ==
  ASSUME TypeOK, StoredUpTo, Reconcile
  PROVE  /\ next' \in SeqNos /\ behind' \in BOOLEAN
         /\ next' = Counted /\ behind' = FALSE /\ Counted' = Counted
         /\ Counted \in SeqNos
<1>1. next' = Counted /\ behind' = FALSE /\ next \in Nat /\ behind \in BOOLEAN
  BY AppendAssumption DEF TypeOK, Reconcile, SeqNos
<1>2. Counted \in Nat /\ Counted <= MaxSegments
  BY <1>1 DEF Counted, StoredUpTo
<1>3. Counted' = next'
  BY <1>1 DEF Counted
<1>4. behind' \in BOOLEAN
  BY <1>1
<1>5. Counted \in SeqNos
  BY <1>2, AppendAssumption DEF SeqNos
<1> HIDE DEF Counted, SeqNos
<1> QED
  BY <1>1, <1>3, <1>4, <1>5

-----------------------------------------------------------------------------
(***************************************************************************)
(* Part 3: the invariant is kept                                           *)
(***************************************************************************)

LEMMA InitIsSound == Init => IInv
<1> SUFFICES ASSUME Init  PROVE IInv
  OBVIOUS
<1> USE DEF Init
<1>1. \A c \in Calls : call[c].step = "idle" /\ ~ Active(c)
  BY DEF NoCall, Active, Waiting
<1>2. TypeOK
  <2>1. NoCall \in Call /\ Empty \in Ledger /\ 0 \in SeqNos
    BY AppendAssumption DEF NoCall, Call, Steps, Waiting, Empty, Ledger, SeqNos
  <2>2. rolling \in Seq(Receipt) /\ queue \in Seq(Calls)
    OBVIOUS
  <2>3. 0 \in 0 .. MaxCrashes /\ 0 \in 0 .. MaxFaults
    BY AppendAssumption
  <2> HIDE DEF Call, Receipt, Ledger, NoCall, SeqNos
  <2> QED
    BY <2>1, <2>2, <2>3 DEF TypeOK, Progress
<1>3. OneRuns /\ QueueSound /\ StatusSound
  BY <1>1 DEF OneRuns, QueueSound, StatusSound, OneStart, At
<1>4. StoredUpTo
  BY AppendAssumption DEF StoredUpTo, Counted, SeqNos
<1>5. CallsSound /\ AgreeUnlessTorn
  BY <1>1, AppendAssumption
  DEF CallsSound, CallSound, AgreeUnlessTorn, ReadsAgree, TalliesAgree, Tally, UpTo, At,
      Written, Mapped, Active, Waiting, Empty, SeqNos
<1>6. Backed /\ SamplesSound
  BY <1>1 DEF Backed, ReceiptsAreBacked, LedgerBacked, Empty, SamplesSound,
              SamplesAreReal, Mapped
<1> QED
  BY <1>2, <1>3, <1>4, <1>5, <1>6 DEF IInv

(* A step beside the appends keeps the types.                              *)
LEMMA AsideTyped ==
  ASSUME IInv, Beside
  PROVE  TypeOK'
<1> USE DEF TypeOK, lifecycle, inits, segments, seals, sampled, working, others, history
<1>0. TypeOK /\ (Reconcile => next' \in SeqNos /\ behind' \in BOOLEAN)
  BY ReconcileCounts DEF IInv
<1>1. CASE Upload
  BY <1>0, <1>1 DEF Upload, UploadInit, UploadInitRecord, UploadInitSession, Progress
<1>2. CASE \E k \in Starts : Start(k)
  <2>1. PICK k \in Starts : Start(k)
    BY <1>2
  <2>2. CASE StartCall(k) \/ StartReady(k) \/ StartThrows(k) \/ WriteStartReceipt(k)
    BY <1>0, <2>2 DEF StartCall, StartReady, StartThrows, WriteStartReceipt
  <2>3. CASE StartRetried(k) \/ StartReplayed(k)
    BY <1>0, <2>3 DEF StartRetried, StartReplayed
  <2> QED
    BY <2>1, <2>2, <2>3 DEF Start
<1>3. CASE \E r \in Offers : AppendReplayed(r) \/ AppendOverflows(r)
  <2>1. Offers \subseteq Request
    BY AppendAssumption DEF Request, SeqNos
  <2> QED
    BY <1>0, <1>3, <2>1 DEF AppendReplayed, AppendOverflows, Failed
<1>4. CASE \E s \in SeqNos : Sample(s)
  <2>1. PICK s \in SeqNos : Sample(s)
    BY <1>4
  <2>2. CASE \E v \in Verdicts : SampleVerified(s, v)
    BY <1>0, <2>2 DEF SampleVerified
  <2>3. CASE SampleFails(s)
    BY <1>0, <2>3 DEF SampleFails
  <2> QED
    BY <2>1, <2>2, <2>3 DEF Sample
<1>5. CASE VerifierDies
  BY <1>0, <1>5, AppendAssumption DEF VerifierDies, Fault
<1>6. CASE Stop
  <2>1. CASE StopCall
    BY <1>0, <2>1 DEF StopCall
  <2>2. CASE StopSeals
    <3>1. sealed' \in BOOLEAN
      BY <1>0, <2>2 DEF StopSeals
    <3>2. /\ status' \in {"READY", "RUNNING", "STOPPING", "STOPPED", "FAILED"}
          /\ stopping' \in {"no", "waiting", "verifying"}
      BY <1>0, <2>2 DEF StopSeals
    <3> QED
      BY <1>0, <2>2, <3>1, <3>2 DEF StopSeals
  <2>3. CASE StopEnds
    BY <1>0, <2>3 DEF StopEnds
  <2> QED
    BY <1>6, <2>1, <2>2, <2>3 DEF Stop
<1>7. CASE HealthCheck \/ UNCHANGED vars
  BY <1>0, <1>7 DEF HealthCheck, vars
<1> QED
  BY <1>1, <1>2, <1>3, <1>4, <1>5, <1>6, <1>7 DEF Beside

(* The queue's shorter and longer forms are queues.                        *)
LEMMA QueueTyped ==
  ASSUME TypeOK
  PROVE  /\ \A c \in Calls : Append(queue, c) \in Seq(Calls)
         /\ queue # <<>> => Tail(queue) \in Seq(Calls)
BY DEF TypeOK

(* A step of an append up to its writes keeps the types.                   *)
LEMMA CallTyped ==
  ASSUME IInv, NEW c \in Calls,
         (\E r \in Offers : Ask(c, r)) \/ Work(c)
  PROVE  TypeOK'
<1> USE DEF TypeOK, lifecycle, inits, segments, seals, sampled, working, others, history
<1>0. TypeOK
  BY DEF IInv
<1>1. CASE \E r \in Offers : Ask(c, r)
  <2>1. PICK r \in Offers : Ask(c, r)
    BY <1>1
  <2>2. CASE AppendAccepted(c, r)
    <3>1. r \in Request
      BY AppendAssumption DEF Request, SeqNos
    <3>2. call' \in [Calls -> Call]
      BY <1>0, <2>2, <3>1, CallBegins
    <3>3. queue' \in Seq(Calls)
      BY <1>0, <2>2, QueueTyped DEF AppendAccepted
    <3> HIDE DEF Call
    <3> QED
      BY <1>0, <2>2, <3>2, <3>3 DEF AppendAccepted
  <2> QED
    BY <2>1, <2>2, AsideTyped DEF Ask, Beside
<1>2. CASE \E v \in Variants : WorkerAnswers(c, v)
  <2>1. PICK v \in Variants : WorkerAnswers(c, v)
    BY <1>2
  <2>2. call' \in [Calls -> Call]
    BY <2>1, CallAnswered
  <2> QED
    BY <1>0, <2>1, <2>2, QueueTyped DEF WorkerAnswers
<1>3. CASE WorkerRefuses(c)
  BY <1>0, <1>3, CallEnds, QueueTyped, AppendAssumption DEF WorkerRefuses, Fault, Failed
<1>4. CASE OrphanRejected(c)
  BY <1>0, <1>4, CallEnds DEF OrphanRejected, Failed
<1> QED
  BY <1>1, <1>2, <1>3, <1>4 DEF Work

(* So does the death of the worker, or of the process.                     *)
LEMMA DeathTyped ==
  ASSUME IInv, WorkerDies \/ Crash
  PROVE  TypeOK'
<1> USE DEF TypeOK, lifecycle, inits, segments, seals, sampled, working, others, history
<1>0. TypeOK
  BY DEF IInv
<1>1. CASE WorkerDies
  <2>1. \A d \in Calls : call[d] \in Call /\ [call[d] EXCEPT !.step = "orphan"] \in Call
    BY <1>0 DEF Call, Steps, Waiting
  <2>2. call' \in [Calls -> Call] /\ queue' \in Seq(Calls)
    BY <1>0, <1>1, <2>1 DEF WorkerDies
  <2> QED
    BY <1>0, <1>1, <2>2, AppendAssumption DEF WorkerDies, Fault
<1>2. CASE Crash
  <2>1. call' \in [Calls -> Call] /\ queue' \in Seq(Calls)
    BY <1>0, <1>2 DEF Crash, NoCall, Call, Steps, Waiting
  <2> QED
    BY <1>0, <1>2, <2>1, AppendAssumption DEF Crash
<1> QED
  BY <1>1, <1>2

(* What is known of a call that holds the processor.                       *)
LEMMA ActiveCall ==
  ASSUME IInv, NEW c \in Calls, Active(c)
  PROVE  /\ call[c].request \in Request /\ call[c].ledger \in Ledger
         /\ call[c].frames \in Nat /\ call[c].output \in Output
         /\ call[c].output.source = call[c].request.source
         /\ call[c].request.sequence \in SeqNos
         /\ call[c].request.key \in Keys /\ call[c].request.source \in Sources
         /\ LedgerBacked(call[c].ledger)
         /\ \A d \in Calls \ {c} : ~ Active(d)
         /\ ~ Free
<1>1. ~ At(c, "idle") /\ call[c] \in Call
  BY DEF IInv, TypeOK, Active, At, Waiting
<1>2. /\ call[c].request \in Request /\ call[c].ledger \in Ledger
      /\ LedgerBacked(call[c].ledger)
      /\ call[c].output \in Output /\ call[c].output.source = call[c].request.source
  BY <1>1 DEF IInv, CallsSound, CallSound
<1>3. /\ call[c].request.sequence \in SeqNos /\ call[c].request.key \in Keys
      /\ call[c].request.source \in Sources
  BY <1>2 DEF Request
<1>4. call[c].frames \in Nat
  BY <1>1 DEF Call
<1>5. \A d \in Calls \ {c} : ~ Active(d)
  BY DEF IInv, OneRuns
<1>6. ~ Free
  BY DEF Free, Active
<1> QED
  BY <1>2, <1>3, <1>4, <1>5, <1>6

(* A write of an append keeps the types.                                   *)
LEMMA WriteTyped ==
  ASSUME IInv, NEW c \in Calls, Continue(c)
  PROVE  TypeOK'
<1> USE DEF TypeOK, lifecycle, inits, segments, seals, sampled, working, others, history
<1>0. TypeOK
  BY DEF IInv
<1>1. Active(c)
  BY DEF Continue, PublishInit, PublishRefused, PublishIncompatible, WriteInitRecord,
     WriteInitSession, WriteSegment, CountSegment, SegmentDuplicate, SegmentRefused,
     WriteReceipt, ReceiptRefused, WriteLedger, LedgerRefused, CountFrames,
     Active, Waiting, At
<1> DEFINE r == call[c].request
<1>2. /\ r \in Request /\ r.sequence \in SeqNos /\ r.key \in Keys /\ r.source \in Sources
      /\ call[c].ledger \in Ledger /\ call[c].frames \in Nat /\ call[c].output \in Output
  BY <1>1, ActiveCall
<1>3. Reconcile => next' \in SeqNos /\ behind' \in BOOLEAN
  BY ReconcileCounts DEF IInv
<1>4. Counted \in SeqNos
  <2>1. Counted \in Nat /\ Counted <= MaxSegments
    BY <1>0 DEF Counted, SeqNos, IInv, StoredUpTo
  <2> QED
    BY <2>1, AppendAssumption DEF SeqNos
<1>5. \A s \in Steps : Goto(c, s) => call' \in [Calls -> Call]
  BY <1>0, CallMoves
<1>6. {"init.record", "init.session", "segment", "session", "map", "ledger", "counters"}
        \subseteq Steps
  BY DEF Steps
<1>7. Return(c) => call' \in [Calls -> Call]
  BY <1>0, CallEnds
<1> HIDE DEF r, Call, Receipt, Ledger, SeqNos, Record, Request, Output
<1>8. CASE PublishInit(c) \/ WriteInitRecord(c) \/ WriteInitSession(c)
  <2>1. call' \in [Calls -> Call]
    BY <1>5, <1>6, <1>8 DEF PublishInit, WriteInitRecord, WriteInitSession
  <2> QED
    BY <1>0, <1>8, <2>1 DEF PublishInit, WriteInitRecord, WriteInitSession, Progress
<1>9. CASE PublishRefused(c) \/ ReceiptRefused(c) \/ LedgerRefused(c)
  BY <1>0, <1>7, <1>9 DEF PublishRefused, ReceiptRefused, LedgerRefused, Throws, Failed
<1>10. CASE PublishIncompatible(c)
  BY <1>0, <1>7, <1>10, AppendAssumption DEF PublishIncompatible, Fault, Failed
<1>11. CASE SegmentRefused(c)
  BY <1>0, <1>3, <1>7, <1>11 DEF SegmentRefused, Failed
<1>12. CASE CountSegment(c) \/ SegmentDuplicate(c)
  BY <1>0, <1>3, <1>5, <1>6, <1>12 DEF CountSegment, SegmentDuplicate
<1>13. CASE WriteSegment(c)
  <2>1. [key |-> r.key, output |-> call[c].output] \in Record
    BY <1>2 DEF Record
  <2>2. record' \in [SeqNos -> Record \cup {Absent}]
    BY <1>0, <1>2, <1>13, <2>1 DEF WriteSegment, r
  <2> QED
    BY <1>0, <1>4, <1>5, <1>6, <1>13, <2>2 DEF WriteSegment
<1>14. CASE WriteReceipt(c)
  <2>1. [sequence |-> r.sequence, offset |-> call[c].frames, source |-> r.source,
         output |-> call[c].output] \in Receipt
    BY <1>2 DEF Receipt
  <2>2. rolling' \in Seq(Receipt)
    BY <1>0, <1>14, <2>1 DEF WriteReceipt, r
  <2> QED
    BY <1>0, <1>5, <1>6, <1>14, <2>2 DEF WriteReceipt
<1>15. CASE WriteLedger(c)
  <2>1. EntryOf(r) \in Entry
    BY <1>2 DEF Entry, EntryOf
  <2>2. ledger' \in Ledger
    BY <1>2, <1>15, <2>1 DEF WriteLedger, Ledger, r
  <2> QED
    BY <1>0, <1>5, <1>6, <1>15, <2>2 DEF WriteLedger
<1>16. CASE CountFrames(c)
  BY <1>0, <1>2, <1>7, <1>16 DEF CountFrames, r
<1> QED
  BY <1>8, <1>9, <1>10, <1>11, <1>12, <1>13, <1>14, <1>15, <1>16 DEF Continue

LEMMA TypesKept == ASSUME IInv, [Next]_vars  PROVE TypeOK'
<1>1. ASSUME NEW c \in Calls, Continue(c)  PROVE TypeOK'
  BY <1>1, WriteTyped
<1>2. ASSUME NEW c \in Calls, (\E r \in Offers : Ask(c, r)) \/ Work(c)  PROVE TypeOK'
  BY <1>2, CallTyped
<1>3. CASE WorkerDies \/ Crash
  BY <1>3, DeathTyped
<1> QED
  BY <1>1, <1>2, <1>3, AsideTyped DEF Next, Beside

-----------------------------------------------------------------------------
(* A write of an append is of the call that holds the processor.           *)
LEMMA WritesActive ==
  ASSUME NEW c \in Calls, Writes(c)
  PROVE  Active(c) /\ ~ At(c, "publish") /\ ~ At(c, "queued")
BY DEF Writes, WriteSegment, CountSegment, SegmentDuplicate, WriteReceipt, WriteLedger,
   CountFrames, Active, Waiting, At

(* Where a write of an append leads.                                       *)
LEMMA WritesMove ==
  ASSUME IInv, NEW c \in Calls, Writes(c)
  PROVE  /\ \A d \in Calls \ {c} : call'[d] = call[d]
         /\ WriteSegment(c) => call'[c].step = "session"
         /\ CountSegment(c) \/ SegmentDuplicate(c) => call'[c].step = "map"
         /\ WriteReceipt(c) => call'[c].step = "ledger"
         /\ WriteLedger(c) => call'[c].step = "counters"
         /\ CountFrames(c) => call'[c].step = "idle"
         /\ ~ CountFrames(c) =>
              /\ call'[c].request = call[c].request /\ call'[c].ledger = call[c].ledger
              /\ call'[c].frames = call[c].frames /\ call'[c].output = call[c].output
         /\ UNCHANGED <<status, startAttempt, startReceipt, queue, starting, stopping,
                        sealed, started, torn>>
<1>1. {"session", "map", "ledger", "counters"} \subseteq Steps
  BY DEF Steps
<1>2. TypeOK
  BY DEF IInv
<1> USE DEF lifecycle, inits, segments, seals, sampled, working, others, history
<1>3. WriteSegment(c) => /\ At(c, "segment") /\ Goto(c, "session")
                         /\ UNCHANGED <<lifecycle, queue, others, sealed, started, torn>>
  BY DEF WriteSegment
<1>4. CountSegment(c) \/ SegmentDuplicate(c) =>
        /\ At(c, "session") \/ At(c, "segment")
        /\ Goto(c, "map")
        /\ UNCHANGED <<lifecycle, queue, others, sealed, started, torn>>
  BY DEF CountSegment, SegmentDuplicate
<1>5. WriteReceipt(c) => /\ At(c, "map") /\ Goto(c, "ledger")
                         /\ UNCHANGED <<lifecycle, queue, others, sealed, started, torn>>
  BY DEF WriteReceipt
<1>6. WriteLedger(c) => /\ At(c, "ledger") /\ Goto(c, "counters")
                        /\ UNCHANGED <<lifecycle, queue, others, sealed, started, torn>>
  BY DEF WriteLedger
<1>7. CountFrames(c) => /\ At(c, "counters") /\ Return(c)
                        /\ UNCHANGED <<lifecycle, queue, others, sealed, started, torn>>
  BY DEF CountFrames
<1> QED
  BY <1>1, <1>2, <1>3, <1>4, <1>5, <1>6, <1>7, CallMoves, CallEnds DEF Writes, At

(* Publishing moves the call that holds the processor.                     *)
LEMMA PublishesMove ==
  ASSUME IInv, NEW c \in Calls, Publishes(c)
  PROVE  /\ Active(c) /\ ~ At(c, "queued")
         /\ call'[c].step \in {"init.record", "init.session", "segment"}
         /\ call'[c].request = call[c].request /\ call'[c].ledger = call[c].ledger
         /\ call'[c].frames = call[c].frames /\ call'[c].output = call[c].output
         /\ \A d \in Calls \ {c} : call'[d] = call[d]
         /\ At(c, "publish") => status = "RUNNING"
         /\ UNCHANGED <<lifecycle, segments, seals, sampled, queue, others, history>>
<1>1. PICK s \in {"init.record", "init.session", "segment"} : Goto(c, s)
  BY DEF Publishes
<1>2. s \in Steps /\ TypeOK
  BY <1>1 DEF Steps, IInv
<1>3. Active(c) /\ ~ At(c, "queued")
  BY DEF Publishes, Active, Waiting, At
<1> QED
  BY <1>1, <1>2, <1>3, CallMoves DEF Publishes

(* Nobody else holds the processor after a step either.                    *)
LEMMA OneRunsKept == ASSUME IInv, [Next]_vars  PROVE OneRuns'
<1> USE DEF Active
<1>0. TypeOK /\ OneRuns
  BY DEF IInv
<1>1. CASE Beside
  BY <1>0, <1>1, AsideSteps DEF Aside, OneRuns
<1>2. ASSUME NEW c \in Calls, NEW r \in Request, AppendAccepted(c, r)  PROVE OneRuns'
  <2>1. call'[c].step = "queued" /\ \A d \in Calls \ {c} : call'[d] = call[d]
    BY <1>0, <1>2, CallBegins
  <2>2. ~ Active(c)'
    BY <2>1 DEF Waiting
  <2> QED
    BY <1>0, <2>1, <2>2 DEF OneRuns
<1>3. ASSUME NEW c \in Calls, NEW v \in Variants, WorkerAnswers(c, v)  PROVE OneRuns'
  <2>1. \A d \in Calls : ~ Active(d)
    BY <1>3 DEF WorkerAnswers, Free
  <2> QED
    BY <1>3, <2>1, CallAnswered DEF OneRuns
<1>4. ASSUME NEW c \in Calls, Fails(c)  PROVE OneRuns'
  <2>1. \A d \in Calls \ {c} : call'[d] = call[d]
    BY <1>0, <1>4, CallEnds DEF Fails
  <2>2. ~ Active(c)'
    BY <1>0, <1>4, CallEnds DEF Fails, Waiting
  <2> QED
    BY <1>0, <2>1, <2>2 DEF OneRuns
<1>5. ASSUME NEW c \in Calls, Publishes(c) \/ Writes(c)  PROVE OneRuns'
  <2>1. Active(c) /\ \A d \in Calls \ {c} : ~ Active(d) /\ call'[d] = call[d]
    BY <1>5, WritesMove, WritesActive, PublishesMove, ActiveCall
  <2> QED
    BY <2>1 DEF OneRuns
<1>6. CASE WorkerDies
  <2>1. \A c \in Calls : ~ Active(c)
    BY <1>6 DEF WorkerDies, Free
  <2>2. \A c \in Calls : call[c] \in Call /\ [call[c] EXCEPT !.step = "orphan"].step = "orphan"
    BY <1>0 DEF TypeOK, Call
  <2>3. \A c \in Calls : call'[c].step \in {"orphan", call[c].step}
    BY <1>6, <2>2 DEF WorkerDies
  <2>4. \A c \in Calls : ~ Active(c)'
    BY <2>1, <2>3 DEF Waiting
  <2> QED
    BY <2>4 DEF OneRuns
<1>7. CASE Crash
  BY <1>7 DEF Crash, OneRuns, NoCall, Waiting
<1> QED
  BY <1>1, <1>2, <1>3, <1>4, <1>5, <1>6, <1>7, StepKinds

(* The queue still holds every queued call once.                           *)
LEMMA QueueKept == ASSUME IInv, [Next]_vars  PROVE QueueSound'
<1>0. TypeOK /\ QueueSound /\ queue \in Seq(Calls) /\ \A i \in 1 .. Len(queue) : queue[i] \in Calls
  BY DEF IInv, TypeOK
<1> USE DEF At
<1>a. ASSUME NEW c \in Calls, UNCHANGED queue, ~ At(c, "queued"),
             \A d \in Calls \ {c} : call'[d] = call[d]
      PROVE  QueueSound'
  BY <1>0, <1>a DEF QueueSound
<1>b. ASSUME NEW c \in Calls, queue # <<>>, c = Head(queue), queue' = Tail(queue),
             \A d \in Calls \ {c} : call'[d] = call[d]
      PROVE  QueueSound'
  <2>1. /\ Len(queue') = Len(queue) - 1 /\ c = queue[1] /\ Len(queue) \in Nat \ {0}
        /\ \A i \in 1 .. Len(queue') : queue'[i] = queue[i + 1] /\ i + 1 \in 1 .. Len(queue)
    BY <1>0, <1>b
  <2>2. ASSUME NEW i \in 1 .. Len(queue')  PROVE call'[queue'[i]].step = "queued"
    <3>1. queue[i + 1] # c /\ 1 \in 1 .. Len(queue)
      BY <1>0, <2>1 DEF QueueSound
    <3> QED
      BY <1>0, <1>b, <2>1, <3>1 DEF QueueSound
  <2>3. ASSUME NEW i \in 1 .. Len(queue'), NEW j \in 1 .. Len(queue'), queue'[i] = queue'[j]
        PROVE  i = j
    BY <1>0, <2>1, <2>3 DEF QueueSound
  <2> QED
    BY <2>2, <2>3 DEF QueueSound
<1>1. CASE Beside
  BY <1>0, <1>1, AsideSteps DEF Aside, QueueSound
<1>2. ASSUME NEW c \in Calls, NEW r \in Request, AppendAccepted(c, r)  PROVE QueueSound'
  <2>1. /\ Len(queue') = Len(queue) + 1 /\ queue'[Len(queue) + 1] = c
        /\ \A i \in 1 .. Len(queue) : queue'[i] = queue[i]
        /\ Len(queue) \in Nat
    BY <1>0, <1>2 DEF AppendAccepted
  <2>2. /\ call'[c].step = "queued" /\ call[c].step = "idle"
        /\ \A d \in Calls \ {c} : call'[d] = call[d]
    BY <1>0, <1>2, CallBegins DEF AppendAccepted
  <2>3. \A i \in 1 .. Len(queue) : queue[i] # c
    BY <2>2, <1>0 DEF QueueSound
  <2> QED
    BY <1>0, <2>1, <2>2, <2>3 DEF QueueSound
<1>3. ASSUME NEW c \in Calls, NEW v \in Variants, WorkerAnswers(c, v)  PROVE QueueSound'
  BY <1>3, <1>b, CallAnswered DEF WorkerAnswers
<1>4. ASSUME NEW c \in Calls, Fails(c)  PROVE QueueSound'
  BY <1>0, <1>4, <1>a, <1>b, CallEnds DEF Fails
<1>5. ASSUME NEW c \in Calls, Publishes(c) \/ Writes(c)  PROVE QueueSound'
  BY <1>5, <1>a, WritesMove, WritesActive, PublishesMove
<1>6. CASE WorkerDies \/ Crash
  BY <1>6 DEF WorkerDies, Crash, QueueSound
<1> QED
  BY <1>1, <1>2, <1>3, <1>4, <1>5, <1>6, StepKinds

(* The status stays sound.                                                 *)
LEMMA StatusKept == ASSUME IInv, [Next]_vars  PROVE StatusSound'
<1>0. /\ TypeOK /\ StatusSound /\ OneStart
      /\ startAttempt \in Starts \cup {Absent} /\ started \in SUBSET Starts
      /\ starting \in [Starts -> {"idle", "waiting", "receipt"}]
      /\ Absent \notin Starts
      /\ \A c \in Calls : Active(c) => ~ At(c, "idle")
  BY SentinelAssumption DEF IInv, StatusSound, TypeOK, Active, At, Waiting
\* A step that leaves the start and the stop alone, and moves one call.
<1>a. ASSUME NEW c \in Calls,
             UNCHANGED <<startAttempt, startReceipt, starting, stopping, sealed, started>>,
             \A d \in Calls \ {c} : call'[d] = call[d],
             \/ status' = status
             \/ (status = "RUNNING" /\ status' = "FAILED" /\ \A d \in Calls \ {c} : ~ Active(d)),
             \/ call'[c].step \in {"idle", "publish"}
             \/ (status = "RUNNING" /\ status' = "RUNNING"),
             ~ At(c, "idle") \/ call'[c].step = "idle"
      PROVE  StatusSound'
  <2>1. \A d \in Calls : Active(d)' /\ ~ At(d, "publish")' => status' = "RUNNING"
    <3> SUFFICES ASSUME NEW d \in Calls, Active(d)', ~ At(d, "publish")'
                 PROVE  status' = "RUNNING"
      OBVIOUS
    <3>1. CASE d = c
      BY <1>a, <3>1 DEF Active, Waiting, At
    <3>2. CASE d # c
      BY <1>0, <1>a, <3>2 DEF StatusSound, Active, At
    <3> QED
      BY <3>1, <3>2
  <2>2. \A d \in Calls : ~ At(d, "idle")' => status' # "READY"
    BY <1>0, <1>a DEF StatusSound, At
  <2> QED
    BY <1>0, <1>a, <2>1, <2>2 DEF StatusSound, OneStart
\* A step that changes nothing of this.
<1>b. ASSUME UNCHANGED <<call, status, startAttempt, startReceipt, starting, stopping,
                         sealed, started>>
      PROVE  StatusSound'
  BY <1>0, <1>b DEF StatusSound, OneStart, Active, At
<1> USE DEF lifecycle, inits, segments, seals, sampled, working, others, history
<1>1. CASE \/ Upload \/ (\E r \in Offers : AppendReplayed(r)) \/ VerifierDies \/ HealthCheck
           \/ (\E s \in SeqNos : Sample(s)) \/ UNCHANGED vars
  BY <1>1, <1>b DEF Upload, UploadInit, UploadInitRecord, UploadInitSession,
     AppendReplayed, VerifierDies, HealthCheck, Sample, SampleVerified, SampleFails, vars
<1>2. ASSUME NEW k \in Starts, Start(k)  PROVE StatusSound'
  <2>1. CASE StartReady(k)
    <3>1. \A c \in Calls : ~ Active(c)
      BY <2>1 DEF StartReady, Free, Active
    <3>2. startAttempt = Absent /\ started = {} /\ startReceipt = Absent
      BY <1>0, <2>1 DEF StartReady, StatusSound, OneStart
    <3>3. startAttempt' = k /\ started' = {} /\ startReceipt' = Absent /\ status' = "RUNNING"
      BY <2>1, <3>2 DEF StartReady
    <3>4. \A l \in Starts : starting'[l] = "receipt" => l = k
      BY <1>0, <2>1, <3>2 DEF StartReady, StatusSound
    <3> QED
      BY <1>0, <2>1, <3>1, <3>3, <3>4 DEF StartReady, StatusSound, OneStart, Active, At
  <2>2. CASE StartCall(k) \/ StartThrows(k)
    BY <1>0, <2>2 DEF StartCall, StartThrows, StatusSound, OneStart, Active, At
  <2>3. CASE WriteStartReceipt(k)
    BY <1>0, <2>3 DEF WriteStartReceipt, StatusSound, OneStart, Active, At
  <2>4. CASE StartRetried(k) \/ StartReplayed(k)
    BY <1>0, <2>4 DEF StartRetried, StartReplayed, StatusSound, OneStart, Active, At
  <2> QED
    BY <1>2, <2>1, <2>2, <2>3, <2>4 DEF Start
<1>3. ASSUME NEW r \in Offers, AppendOverflows(r)  PROVE StatusSound'
  BY <1>0, <1>3 DEF AppendOverflows, Failed, Free, StatusSound, OneStart, Active, At
<1>4. CASE Stop
  <2>1. \A c \in Calls : ~ Active(c)
    BY <1>4 DEF Stop, StopCall, StopSeals, StopEnds, Free, Active
  <2>2. CASE StopCall
    BY <1>0, <2>1, <2>2 DEF StopCall, StatusSound, OneStart, Active, At
  <2>3. CASE StopSeals
    BY <1>0, <2>1, <2>3 DEF StopSeals, StatusSound, OneStart, Active, At
  <2>4. CASE StopEnds
    BY <1>0, <2>1, <2>4 DEF StopEnds, StatusSound, OneStart, Active, At
  <2> QED
    BY <1>4, <2>2, <2>3, <2>4 DEF Stop
<1>5. ASSUME NEW c \in Calls, NEW r \in Request, AppendAccepted(c, r)  PROVE StatusSound'
  <2>1. /\ status = "RUNNING" /\ ~ Active(c)'
        /\ UNCHANGED <<status, startAttempt, startReceipt, starting, stopping, sealed, started>>
        /\ call'[c].step = "queued" /\ \A d \in Calls \ {c} : call'[d] = call[d]
    BY <1>0, <1>5, CallBegins DEF AppendAccepted, Active, Waiting
  <2> QED
    BY <1>0, <2>1 DEF StatusSound, OneStart, Active, At
<1>6. ASSUME NEW c \in Calls, NEW v \in Variants, WorkerAnswers(c, v)  PROVE StatusSound'
  <2>1. /\ UNCHANGED <<status, startAttempt, startReceipt, starting, stopping, sealed, started>>
        /\ At(c, "queued") /\ ~ At(c, "idle")
        /\ call'[c].step = "publish" /\ \A d \in Calls \ {c} : call'[d] = call[d]
    BY <1>6, CallAnswered DEF WorkerAnswers, At
  <2> QED
    BY <2>1, <1>a
<1>7. ASSUME NEW c \in Calls, Fails(c)  PROVE StatusSound'
  <2>1. /\ UNCHANGED <<startAttempt, startReceipt, starting, stopping, sealed, started>>
        /\ ~ At(c, "idle")
        /\ call'[c].step = "idle" /\ \A d \in Calls \ {c} : call'[d] = call[d]
    BY <1>0, <1>7, CallEnds DEF Fails
  <2>2. status' = status \/ (status = "RUNNING" /\ status' = "FAILED")
    BY <1>7 DEF Fails, Failed
  <2>3. \A d \in Calls \ {c} : ~ Active(d)
    BY <1>0, <1>7 DEF Fails, Free, Active, IInv, OneRuns
  <2> QED
    BY <1>a, <2>1, <2>2, <2>3
<1>8. ASSUME NEW c \in Calls, Publishes(c) \/ Writes(c)  PROVE StatusSound'
  <2>1. Active(c) /\ ~ At(c, "idle") /\ status = "RUNNING"
    BY <1>0, <1>8, PublishesMove, WritesActive DEF StatusSound
  <2>2. /\ UNCHANGED <<status, startAttempt, startReceipt, starting, stopping, sealed, started>>
        /\ \A d \in Calls \ {c} : call'[d] = call[d]
    BY <1>8, PublishesMove, WritesMove
  <2> QED
    BY <1>a, <2>1, <2>2
<1>9. CASE WorkerDies
  <2>1. \A c \in Calls : ~ Active(c)
    BY <1>9 DEF WorkerDies, Free, Active
  <2>2. \A c \in Calls : call[c] \in Call /\ [call[c] EXCEPT !.step = "orphan"].step = "orphan"
    BY <1>0 DEF TypeOK, Call
  <2>3. \A c \in Calls : \/ call'[c] = call[c]
                         \/ call'[c].step = "orphan" /\ ~ At(c, "idle")
    BY <1>9, <2>2 DEF WorkerDies, At
  <2>4. \A c \in Calls : ~ Active(c)'
    BY <2>1, <2>3 DEF Active, Waiting
  <2> QED
    BY <1>0, <1>9, <2>3, <2>4 DEF WorkerDies, StatusSound, OneStart, At
<1>10. CASE Crash
  BY <1>0, <1>10 DEF Crash, StatusSound, OneStart, NoCall, Active, Waiting, At
<1> QED
  BY <1>1, <1>2, <1>3, <1>4, <1>5, <1>6, <1>7, <1>8, <1>9, <1>10, StepKinds DEF Beside

(* What a new record is, and that it is counted.                           *)
LEMMA SegmentWritten ==
  ASSUME IInv, NEW c \in Calls, WriteSegment(c)
  PROVE  /\ call[c].request.sequence = Counted /\ Counted < MaxSegments
         /\ Counted \in SeqNos /\ record[Counted] = Absent
         /\ record' = [record EXCEPT ![Counted] =
                         [key |-> call[c].request.key, output |-> call[c].output]]
         /\ [key |-> call[c].request.key, output |-> call[c].output] \in Record
         /\ record'[Counted] = [key |-> call[c].request.key, output |-> call[c].output]
         /\ record'[Counted] # Absent
         /\ \A s \in SeqNos \ {Counted} : record'[s] = record[s]
         /\ next' = Counted /\ behind' = TRUE
         /\ UNCHANGED <<rolling, ledger, frames, samples, sampling, verification, acked>>
<1>1. Active(c)
  BY DEF WriteSegment, Active, Waiting, At
<1>2. /\ call[c].request.sequence = Counted /\ Counted < MaxSegments
      /\ call[c].request.sequence \in SeqNos
      /\ call[c].request.key \in Keys /\ call[c].output \in Output
  BY <1>1, ActiveCall DEF WriteSegment, Acceptable
<1> DEFINE new == [key |-> call[c].request.key, output |-> call[c].output]
<1>3. new \in Record /\ new # Absent
  <2>1. new \in Record
    BY <1>2 DEF Record
  <2> QED
    BY <2>1, SentinelAssumption
<1>4. record \in [SeqNos -> Record \cup {Absent}]
  BY DEF IInv, TypeOK
<1>5. record' = [record EXCEPT ![Counted] = new] /\ record[Counted] = Absent
  BY <1>2 DEF WriteSegment
<1>6. /\ next' = Counted /\ behind' = TRUE
      /\ UNCHANGED <<rolling, ledger, frames, samples, sampling, verification, acked>>
  BY DEF WriteSegment, seals, sampled, history
<1> HIDE DEF new
<1>7. record'[Counted] = new /\ \A s \in SeqNos \ {Counted} : record'[s] = record[s]
  BY <1>2, <1>4, <1>5
<1> QED
  BY <1>2, <1>3, <1>5, <1>6, <1>7 DEF new

(* Only that write changes a record, and only a new receipt the map.       *)
LEMMA EvidenceSteps ==
  ASSUME IInv, [Next]_vars
  PROVE  \/ UNCHANGED <<record, rolling>>
         \/ \E c \in Calls : WriteSegment(c) \/ WriteReceipt(c)
<1> USE DEF lifecycle, inits, segments, seals, sampled, working, others, history
<1>1. ASSUME NEW c \in Calls, Fails(c) \/ Publishes(c)  PROVE UNCHANGED <<record, rolling>>
  BY <1>1 DEF Fails, Publishes
<1>2. ASSUME NEW c \in Calls, Writes(c), ~ WriteSegment(c), ~ WriteReceipt(c)
      PROVE  UNCHANGED <<record, rolling>>
  BY <1>2 DEF Writes, CountSegment, SegmentDuplicate, WriteLedger, CountFrames
<1>3. ASSUME NEW c \in Calls, \/ \E r \in Request : AppendAccepted(c, r)
                              \/ \E v \in Variants : WorkerAnswers(c, v)
      PROVE  UNCHANGED <<record, rolling>>
  BY <1>3 DEF AppendAccepted, WorkerAnswers
<1>4. Beside \/ WorkerDies \/ Crash => UNCHANGED <<record, rolling>>
  BY AsideSteps DEF Aside, WorkerDies, Crash
<1> QED
  BY <1>1, <1>2, <1>3, <1>4, StepKinds

(* The stored segments are still those that are counted.                   *)
LEMMA StoredKept == ASSUME IInv, [Next]_vars  PROVE StoredUpTo'
<1>0. TypeOK /\ StoredUpTo /\ next \in Nat
  BY DEF IInv, TypeOK, SeqNos
<1>a. ASSUME UNCHANGED record, UNCHANGED <<next, behind>> \/ Reconcile  PROVE StoredUpTo'
  <2>1. Counted' = Counted
    <3>1. CASE UNCHANGED <<next, behind>>
      BY <3>1 DEF Counted
    <3>2. CASE Reconcile
      BY <1>0, <3>2, ReconcileCounts
    <3> QED
      BY <1>a, <3>1, <3>2
  <2> QED
    BY <1>0, <1>a, <2>1 DEF StoredUpTo
<1> USE DEF lifecycle, inits, segments, seals, sampled, working, others, history
<1>1. CASE Beside \/ WorkerDies \/ Crash
  BY <1>1, <1>a, AsideSteps DEF Aside, WorkerDies, Crash
<1>2. ASSUME NEW c \in Calls, \/ \E r \in Request : AppendAccepted(c, r)
                              \/ \E v \in Variants : WorkerAnswers(c, v)
      PROVE  StoredUpTo'
  BY <1>2, <1>a DEF AppendAccepted, WorkerAnswers
<1>3. ASSUME NEW c \in Calls, Fails(c) \/ Publishes(c)  PROVE StoredUpTo'
  BY <1>3, <1>a DEF Fails, Publishes
<1>4. ASSUME NEW c \in Calls, WriteSegment(c)  PROVE StoredUpTo'
  <2>1. Counted \in Nat /\ Counted' = Counted + 1 /\ Counted < MaxSegments
    <3>1. Counted \in SeqNos /\ Counted < MaxSegments /\ next' = Counted /\ behind' = TRUE
      BY <1>4, SegmentWritten
    <3>2. Counted' = next' + 1
      BY <3>1 DEF Counted
    <3> HIDE DEF Counted
    <3> QED
      BY <3>1, <3>2 DEF SeqNos
  <2> HIDE DEF Counted
  <2>2. \A s \in SeqNos : record'[s] # Absent <=> s = Counted \/ record[s] # Absent
    BY <1>4, SegmentWritten
  <2>3. \A s \in SeqNos : s < Counted + 1 <=> s = Counted \/ s < Counted
    BY <2>1 DEF SeqNos
  <2> QED
    BY <1>0, <2>1, <2>2, <2>3, AppendAssumption DEF StoredUpTo
<1>5. ASSUME NEW c \in Calls, Writes(c), ~ WriteSegment(c)  PROVE StoredUpTo'
  BY <1>5, <1>a DEF Writes, CountSegment, SegmentDuplicate, WriteReceipt, WriteLedger,
                    CountFrames
<1> QED
  BY <1>1, <1>2, <1>3, <1>4, <1>5, StepKinds

(* A receipt takes the next place in the map.                              *)
LEMMA ReceiptWritten ==
  ASSUME IInv, NEW c \in Calls, WriteReceipt(c)
  PROVE  /\ Len(rolling) \in Nat /\ call[c].request.sequence = Len(rolling)
         /\ Len(rolling') = Len(rolling) + 1
         /\ \A i \in 1 .. Len(rolling) : rolling'[i] = rolling[i]
         /\ rolling'[Len(rolling) + 1] =
              [sequence |-> call[c].request.sequence, offset |-> call[c].frames,
               source |-> call[c].request.source, output |-> call[c].output]
         /\ UNCHANGED <<status, record, next, behind, ledger, frames, samples, sampling,
                        verification, acked, torn>>
<1>1. rolling \in Seq(Receipt)
  BY DEF IInv, TypeOK
<1> USE DEF WriteReceipt, ReceiptInPlace, lifecycle, segments, sampled, history
<1>2. rolling' = Append(rolling, [sequence |-> call[c].request.sequence,
                                  offset |-> call[c].frames,
                                  source |-> call[c].request.source,
                                  output |-> call[c].output])
  OBVIOUS
<1>3. call[c].request.sequence = Len(rolling)
  OBVIOUS
<1> QED
  BY <1>1, <1>2, <1>3

(* Records are final, and the map grows at its end.                        *)
LEMMA EvidenceGrows ==
  ASSUME IInv, [Next]_vars
  PROVE  /\ \A s \in SeqNos : record[s] # Absent => record'[s] = record[s]
         /\ Len(rolling) \in Nat /\ Len(rolling') \in Nat /\ Len(rolling) <= Len(rolling')
         /\ \A i \in 1 .. Len(rolling) : rolling'[i] = rolling[i]
<1>1. Len(rolling) \in Nat
  BY DEF IInv, TypeOK
<1>2. ASSUME NEW c \in Calls, WriteSegment(c)
      PROVE  UNCHANGED rolling /\ \A s \in SeqNos : record[s] # Absent => record'[s] = record[s]
  BY <1>2, SegmentWritten
<1>3. ASSUME NEW c \in Calls, WriteReceipt(c)
      PROVE  /\ UNCHANGED record /\ Len(rolling') = Len(rolling) + 1
             /\ \A i \in 1 .. Len(rolling) : rolling'[i] = rolling[i]
  BY <1>3, ReceiptWritten
<1> QED
  BY <1>1, <1>2, <1>3, EvidenceSteps

(* What a ledger says stays backed.                                        *)
LEMMA LedgersStayBacked ==
  ASSUME IInv, [Next]_vars, NEW l \in Ledger, LedgerBacked(l)
  PROVE  LedgerBacked(l)'
BY EvidenceGrows DEF LedgerBacked, SeqNos

(* A call that does not move stays sound while others write.               *)
LEMMA OtherCallSound ==
  ASSUME IInv, [Next]_vars, NEW d \in Calls, call'[d] = call[d],
         ~ Active(d) \/ UNCHANGED <<record, rolling>>
  PROVE  CallSound(d)'
<1>1. CallSound(d)
  BY DEF IInv, CallsSound
<1>2. ~ At(d, "idle") => LedgerBacked(call[d].ledger)'
  BY <1>1, LedgersStayBacked DEF CallSound, LedgerBacked
<1>3. ~ Active(d) => call[d].step \notin Written \cup Mapped
  BY DEF Active, Waiting, Written, Mapped
<1> QED
  BY <1>1, <1>2, <1>3 DEF CallSound, SameAsStored, Active, At

(* A call that moves stays sound if it keeps what it read.                 *)
LEMMA MovedCallSound ==
  ASSUME IInv, [Next]_vars, NEW c \in Calls, ~ At(c, "idle"),
         call'[c].request = call[c].request, call'[c].ledger = call[c].ledger,
         call'[c].output \in Output, call'[c].output.source = call[c].request.source,
         call'[c].step \in Written => SameAsStored(c)',
         call'[c].step \in Mapped => Len(rolling') = call[c].request.sequence + 1
  PROVE  CallSound(c)'
<1>1. /\ call[c].request \in Request /\ call[c].ledger \in Ledger
      /\ LedgerBacked(call[c].ledger)
  BY DEF IInv, CallsSound, CallSound
<1>2. LedgerBacked(call[c].ledger)'
  BY <1>1, LedgersStayBacked DEF LedgerBacked
<1> QED
  BY <1>1, <1>2 DEF CallSound, Active, At

(* A write of an append leaves its own call sound.                         *)
LEMMA WriterSound ==
  ASSUME IInv, [Next]_vars, NEW c \in Calls, Writes(c)
  PROVE  CallSound(c)'
<1>1. CallSound(c) /\ Active(c) /\ ~ At(c, "idle")
  BY WritesActive DEF IInv, CallsSound, Active, At, Waiting
<1>2. CASE CountFrames(c)
  BY <1>2, WritesMove
  DEF CallSound, Active, At, Written, Mapped, Waiting, CountFrames, WriteSegment,
      CountSegment, SegmentDuplicate, WriteReceipt, WriteLedger
<1>3. CASE ~ CountFrames(c)
  <2>1. /\ call'[c].request = call[c].request /\ call'[c].ledger = call[c].ledger
        /\ call'[c].output = call[c].output
        /\ call[c].output \in Output /\ call[c].output.source = call[c].request.source
    BY <1>1, <1>3, WritesMove DEF CallSound
  <2>2. CASE WriteSegment(c)
    <3>1. call'[c].step = "session"
      BY <2>2, WritesMove
    <3>2. SameAsStored(c)'
      BY <2>1, <2>2, SegmentWritten DEF SameAsStored
    <3> QED
      BY <1>1, <2>1, <3>1, <3>2, MovedCallSound DEF Mapped
  <2>3. CASE CountSegment(c) \/ SegmentDuplicate(c)
    <3>1. SameAsStored(c) /\ UNCHANGED record
      BY <1>1, <2>3 DEF CallSound, CountSegment, SegmentDuplicate, Written, At
    <3>2. call'[c].step = "map"
      BY <2>3, WritesMove
    <3>3. SameAsStored(c)'
      BY <2>1, <3>1 DEF SameAsStored
    <3> QED
      BY <1>1, <2>1, <3>2, <3>3, MovedCallSound DEF Mapped
  <2>4. CASE WriteReceipt(c)
    <3>1. SameAsStored(c) /\ UNCHANGED record
      BY <1>1, <2>4, ReceiptWritten DEF CallSound, WriteReceipt, Written, At
    <3>2. SameAsStored(c)' /\ Len(rolling') = call[c].request.sequence + 1
      BY <2>1, <2>4, <3>1, ReceiptWritten DEF SameAsStored
    <3> QED
      BY <1>1, <2>1, <3>2, MovedCallSound
  <2>5. CASE WriteLedger(c)
    <3>1. /\ SameAsStored(c) /\ Len(rolling) = call[c].request.sequence + 1
          /\ UNCHANGED <<record, rolling>>
      BY <1>1, <2>5 DEF CallSound, WriteLedger, Written, Mapped, At, segments
    <3>2. SameAsStored(c)' /\ Len(rolling') = call[c].request.sequence + 1
      BY <2>1, <3>1 DEF SameAsStored
    <3> QED
      BY <1>1, <2>1, <3>2, MovedCallSound
  <2> QED
    BY <1>3, <2>2, <2>3, <2>4, <2>5 DEF Writes
<1> QED
  BY <1>2, <1>3

(* Every call stays sound.                                                 *)
LEMMA CallsKept == ASSUME IInv, [Next]_vars  PROVE CallsSound'
<1>0. TypeOK /\ CallsSound
  BY DEF IInv
<1> USE DEF lifecycle, inits, segments, seals, sampled, working, others, history
<1>a. ASSUME NEW c \in Calls, call'[c].step = "idle"  PROVE CallSound(c)'
  BY <1>a DEF CallSound, At, Active, Waiting, Written, Mapped
<1>1. CASE Beside
  <2>1. UNCHANGED <<call, record, rolling>>
    BY <1>1, AsideSteps DEF Aside
  <2> QED
    BY <2>1, OtherCallSound DEF CallsSound
<1>2. ASSUME NEW c \in Calls, NEW r \in Request, AppendAccepted(c, r)  PROVE CallsSound'
  <2>1. /\ call'[c].step = "queued" /\ call'[c].request = r /\ call'[c].ledger = ledger
        /\ \A d \in Calls \ {c} : call'[d] = call[d]
        /\ UNCHANGED <<record, rolling>>
    BY <1>0, <1>2, CallBegins DEF AppendAccepted
  <2>2. ledger \in Ledger /\ LedgerBacked(ledger)
    BY DEF IInv, TypeOK, Backed
  <2>3. LedgerBacked(call[c].ledger)'
    BY <2>1, <2>2 DEF LedgerBacked
  <2>4. CallSound(c)'
    BY <2>1, <2>2, <2>3 DEF CallSound, LedgerBacked, At, Active, Waiting, Written, Mapped
  <2> QED
    BY <2>1, <2>4, OtherCallSound DEF CallsSound
<1>3. ASSUME NEW c \in Calls, NEW v \in Variants, WorkerAnswers(c, v)  PROVE CallsSound'
  <2>1. CallSound(c)'
    BY <1>3, CallAnswered, MovedCallSound DEF At, Written, Mapped
  <2>2. UNCHANGED <<record, rolling>>
    BY <1>3 DEF WorkerAnswers
  <2> QED
    BY <1>3, <2>1, <2>2, CallAnswered, OtherCallSound DEF CallsSound
<1>4. ASSUME NEW c \in Calls, Fails(c)  PROVE CallsSound'
  <2>1. call'[c].step = "idle" /\ \A d \in Calls \ {c} : call'[d] = call[d]
    BY <1>0, <1>4, CallEnds DEF Fails
  <2>2. UNCHANGED <<record, rolling>>
    BY <1>4 DEF Fails
  <2> QED
    BY <1>a, <2>1, <2>2, OtherCallSound DEF CallsSound
<1>5. ASSUME NEW c \in Calls, Publishes(c)  PROVE CallsSound'
  <2>1. CallSound(c)'
    BY <1>5, PublishesMove, ActiveCall, MovedCallSound DEF At, Active, Waiting, Written, Mapped
  <2>2. UNCHANGED <<record, rolling>>
    BY <1>5 DEF Publishes
  <2> QED
    BY <1>5, <2>1, <2>2, PublishesMove, OtherCallSound DEF CallsSound
<1>6. ASSUME NEW c \in Calls, Writes(c)  PROVE CallsSound'
  <2>1. \A d \in Calls \ {c} : call'[d] = call[d] /\ ~ Active(d)
    BY <1>6, WritesActive, WritesMove, ActiveCall
  <2> QED
    BY <1>6, <2>1, WriterSound, OtherCallSound DEF CallsSound
<1>7. CASE WorkerDies
  <2> SUFFICES ASSUME NEW c \in Calls  PROVE CallSound(c)'
    BY DEF CallsSound
  <2>0. UNCHANGED <<record, rolling>>
    BY <1>7 DEF WorkerDies
  <2>1. CASE At(c, "queued")
    <3>1. call[c] \in Call /\ call'[c] = [call[c] EXCEPT !.step = "orphan"]
      BY <1>0, <1>7, <2>1 DEF WorkerDies, TypeOK
    <3>2. /\ call'[c].step = "orphan" /\ call'[c].request = call[c].request
          /\ call'[c].ledger = call[c].ledger
      BY <3>1 DEF Call
    <3>3. /\ call[c].request \in Request /\ call[c].ledger \in Ledger
          /\ LedgerBacked(call[c].ledger)
      BY <1>0, <2>1 DEF CallsSound, CallSound, At
    <3>4. LedgerBacked(call[c].ledger)'
      BY <2>0, <3>2, <3>3 DEF LedgerBacked
    <3> QED
      BY <3>2, <3>3, <3>4 DEF CallSound, LedgerBacked, At, Active, Waiting, Written, Mapped
  <2>2. CASE ~ At(c, "queued")
    BY <1>7, <2>0, <2>2, OtherCallSound DEF WorkerDies
  <2> QED
    BY <2>1, <2>2
<1>8. CASE Crash
  BY <1>8, <1>a DEF Crash, NoCall, CallsSound
<1> QED
  BY <1>1, <1>2, <1>3, <1>4, <1>5, <1>6, <1>7, <1>8, StepKinds

(* Only a replay and the last write of an append answer a client, and only *)
(* one write changes the ledger.                                           *)
LEMMA AnswerSteps ==
  ASSUME IInv, [Next]_vars
  PROVE  /\ \/ acked' = acked
            \/ \E r \in Offers : AppendReplayed(r)
            \/ \E c \in Calls : CountFrames(c)
         /\ UNCHANGED ledger \/ \E c \in Calls : WriteLedger(c)
<1> USE DEF lifecycle, inits, segments, seals, sampled, working, others, history
<1>1. CASE Beside
  <2>1. UNCHANGED ledger
    BY <1>1, AsideSteps DEF Aside
  <2>2. Upload \/ VerifierDies \/ HealthCheck \/ UNCHANGED vars => acked' = acked
    BY DEF Upload, UploadInit, UploadInitRecord, UploadInitSession, VerifierDies,
           HealthCheck, vars
  <2>3. ASSUME NEW k \in Starts, Start(k)  PROVE acked' = acked
    BY <2>3 DEF Start, StartCall, StartReady, StartThrows, WriteStartReceipt,
                StartRetried, StartReplayed
  <2>4. ASSUME NEW s \in SeqNos, Sample(s)  PROVE acked' = acked
    BY <2>4 DEF Sample, SampleVerified, SampleFails
  <2>5. Stop \/ (\E r \in Offers : AppendOverflows(r)) => acked' = acked
    BY DEF Stop, StopCall, StopSeals, StopEnds, AppendOverflows
  <2> QED
    BY <1>1, <2>1, <2>2, <2>3, <2>4, <2>5 DEF Beside
<1>2. CASE WorkerDies \/ Crash
  BY <1>2 DEF WorkerDies, Crash
<1>3. ASSUME NEW c \in Calls, \/ \E r \in Request : AppendAccepted(c, r)
                              \/ \E v \in Variants : WorkerAnswers(c, v)
                              \/ Fails(c) \/ Publishes(c)
      PROVE  acked' = acked /\ UNCHANGED ledger
  BY <1>3 DEF AppendAccepted, WorkerAnswers, Fails, Publishes
<1>4. ASSUME NEW c \in Calls, Writes(c)
      PROVE  /\ acked' = acked \/ CountFrames(c)
             /\ UNCHANGED ledger \/ WriteLedger(c)
  BY <1>4 DEF Writes, WriteSegment, CountSegment, SegmentDuplicate, WriteReceipt,
              WriteLedger, CountFrames
<1> QED
  BY <1>1, <1>2, <1>3, <1>4, StepKinds

(* The map and the ledger stay backed by the records.                      *)
LEMMA BackedKept == ASSUME IInv, [Next]_vars  PROVE Backed'
<1>0. /\ TypeOK /\ ReceiptsAreBacked /\ LedgerBacked(ledger) /\ ledger \in Ledger
      /\ acked \subseteq Request /\ Len(rolling) \in Nat
      /\ \A i \in 1 .. Len(rolling) : i - 1 \in SeqNos
  <2>1. TypeOK /\ ReceiptsAreBacked /\ LedgerBacked(ledger)
    BY DEF IInv, Backed
  <2>2. /\ rolling \in Seq(Receipt) /\ ledger \in Ledger /\ acked \subseteq Request
    BY <2>1 DEF TypeOK
  <2>3. /\ Len(rolling) \in Nat
        /\ \A i \in 1 .. Len(rolling) : rolling[i].sequence \in SeqNos
    <3>1. Len(rolling) \in Nat /\ \A i \in 1 .. Len(rolling) : rolling[i] \in Receipt
      BY <2>2
    <3> QED
      BY <3>1 DEF Receipt
  <2>4. \A i \in 1 .. Len(rolling) : rolling[i].sequence = i - 1
    BY <2>1 DEF ReceiptsAreBacked
  <2> QED
    BY <2>1, <2>2, <2>3, <2>4
\* The receipts.
<1>1. \A i \in 1 .. Len(rolling') : rolling'[i].sequence = i - 1 /\ Agree(i - 1)'
  <2>1. CASE \E c \in Calls : WriteReceipt(c)
    <3>1. PICK c \in Calls : WriteReceipt(c)
      BY <2>1
    <3>0. PICK n \in Nat : n = Len(rolling)
      BY <1>0
    <3> DEFINE r == call[c].request
    <3>2. /\ SameAsStored(c) /\ call[c].output.source = r.source
          /\ r.sequence \in SeqNos /\ r.key \in Keys /\ call[c].output \in Output
      BY <3>1, ActiveCall
      DEF IInv, CallsSound, CallSound, WriteReceipt, At, Active, Waiting, Written
    <3>3. /\ r.sequence = n /\ Len(rolling') = n + 1 /\ record' = record
          /\ \A i \in 1 .. n : rolling'[i] = rolling[i]
          /\ rolling'[n + 1] = [sequence |-> r.sequence, offset |-> call[c].frames,
                                source |-> r.source, output |-> call[c].output]
      BY <3>0, <3>1, ReceiptWritten
    <3>4. record[n] = [key |-> r.key, output |-> call[c].output] /\ record[n] # Absent
      <4>1. record[n] = [key |-> r.key, output |-> call[c].output]
        BY <3>2, <3>3 DEF SameAsStored
      <4>2. [key |-> r.key, output |-> call[c].output] \in Record
        BY <3>2 DEF Record
      <4> QED
        BY <4>1, <4>2, SentinelAssumption
    <3>5. rolling'[n + 1].sequence = n /\ Agree(n)'
      <4>1. /\ rolling'[n + 1].sequence = n /\ rolling'[n + 1].source = r.source
            /\ rolling'[n + 1].output = call[c].output
        BY <3>3
      <4>2. record'[n] # Absent /\ record'[n].output = call[c].output
        BY <3>3, <3>4
      <4> QED
        BY <3>2, <4>1, <4>2 DEF Agree
    <3>6. \A i \in 1 .. n : rolling[i].sequence = i - 1 /\ Agree(i - 1)
      BY <1>0, <3>0 DEF ReceiptsAreBacked
    <3>7. ASSUME NEW i \in 1 .. n  PROVE rolling'[i].sequence = i - 1 /\ Agree(i - 1)'
      <4>1. rolling'[i] = rolling[i] /\ i - 1 + 1 = i
        BY <3>3
      <4> QED
        BY <3>3, <3>6, <4>1 DEF Agree
    <3>8. \A i \in 1 .. Len(rolling') : i \in 1 .. n \/ (i = n + 1 /\ i - 1 = n)
      BY <1>0, <3>3
    <3> QED
      BY <3>5, <3>7, <3>8
  <2>2. CASE UNCHANGED rolling
    BY <1>0, <2>2, EvidenceGrows DEF ReceiptsAreBacked, Agree
  <2> QED
    BY <2>1, <2>2, EvidenceSteps, SegmentWritten
\* The answered appends.
<1>2. \A r \in acked' : /\ r.sequence < Len(rolling')
                        /\ record'[r.sequence].key = r.key
                        /\ record'[r.sequence].output.source = r.source
  <2>1. ASSUME NEW r \in acked
        PROVE  /\ r.sequence < Len(rolling')
               /\ record'[r.sequence].key = r.key /\ record'[r.sequence].output.source = r.source
    <3>1. /\ r.sequence \in SeqNos /\ r.sequence \in Nat /\ r.sequence < Len(rolling)
          /\ record[r.sequence].key = r.key /\ record[r.sequence].output.source = r.source
      BY <1>0 DEF ReceiptsAreBacked, Request, SeqNos
    <3>2. record[r.sequence] # Absent
      <4>1. /\ r.sequence + 1 \in 1 .. Len(rolling)
            /\ (r.sequence + 1) - 1 = r.sequence
        BY <1>0, <3>1
      <4>2. \A i \in 1 .. Len(rolling) : record[i - 1] # Absent
        BY <1>0 DEF ReceiptsAreBacked, Agree
      <4> QED
        BY <4>1, <4>2
    <3> QED
      BY <3>1, <3>2, EvidenceGrows
  <2>2. ASSUME NEW r \in Offers, AppendReplayed(r)
        PROVE  /\ acked' = acked \cup {r} /\ r.sequence < Len(rolling')
               /\ record'[r.sequence].key = r.key /\ record'[r.sequence].output.source = r.source
    <3>1. r \in Request /\ r.sequence \in SeqNos /\ r.key \in Keys /\ r.source \in Sources
      BY AppendAssumption DEF Request, SeqNos
    <3>2. EntryOf(r) # Absent /\ EntryOf(r).key = r.key /\ EntryOf(r).source = r.source
      <4>1. EntryOf(r) \in Entry
        BY <3>1 DEF EntryOf, Entry
      <4> QED
        BY <4>1, SentinelAssumption DEF EntryOf
    <3> QED
      BY <1>0, <2>2, <3>1, <3>2 DEF AppendReplayed, LedgerBacked, segments, seals
  <2>3. ASSUME NEW c \in Calls, CountFrames(c)
        PROVE  LET r == call[c].request IN
               /\ acked' = acked \cup {r} /\ r.sequence < Len(rolling')
               /\ record'[r.sequence].key = r.key /\ record'[r.sequence].output.source = r.source
    <3>1. /\ Active(c) /\ call[c].step \in Written /\ call[c].step \in Mapped
          /\ UNCHANGED <<record, rolling>> /\ acked' = acked \cup {call[c].request}
      BY <2>3 DEF CountFrames, At, Active, Waiting, Written, Mapped, segments
    <3>2. SameAsStored(c) /\ Len(rolling) = call[c].request.sequence + 1
      BY <3>1 DEF IInv, CallsSound, CallSound
    <3>3. call[c].output.source = call[c].request.source /\ call[c].request.sequence \in Nat
      BY <3>1, ActiveCall DEF SeqNos
    <3> QED
      BY <3>1, <3>2, <3>3 DEF SameAsStored
  <2>4. \/ acked' = acked
        \/ \E r \in Offers : AppendReplayed(r)
        \/ \E c \in Calls : CountFrames(c)
    BY AnswerSteps
  <2> QED
    BY <2>1, <2>2, <2>3, <2>4
\* The ledger.
<1>3. LedgerBacked(ledger)'
  <2>1. CASE UNCHANGED ledger
    BY <1>0, <2>1, LedgersStayBacked DEF LedgerBacked
  <2>2. ASSUME NEW c \in Calls, WriteLedger(c)  PROVE LedgerBacked(ledger)'
    <3> DEFINE r == call[c].request
    <3>1. /\ Active(c) /\ call[c].step \in Written /\ call[c].step \in Mapped
          /\ UNCHANGED <<record, rolling>>
          /\ ledger' = [call[c].ledger EXCEPT ![r.sequence] = EntryOf(r)]
      BY <2>2 DEF WriteLedger, At, Active, Waiting, Written, Mapped, segments
    <3>2. SameAsStored(c) /\ Len(rolling) = r.sequence + 1
      BY <3>1 DEF IInv, CallsSound, CallSound
    <3>3. /\ call[c].output.source = r.source /\ r.sequence \in Nat /\ r.sequence \in SeqNos
          /\ call[c].ledger \in Ledger /\ LedgerBacked(call[c].ledger)
          /\ r.key \in Keys /\ call[c].output \in Output
      BY <3>1, ActiveCall DEF SeqNos
    <3>4. /\ record[r.sequence] # Absent /\ record[r.sequence].key = r.key
          /\ record[r.sequence].output.source = r.source
      <4>1. record[r.sequence] \in Record
        BY <3>2, <3>3 DEF SameAsStored, Record
      <4> QED
        BY <3>2, <3>3, <4>1, SentinelAssumption DEF SameAsStored
    <3>5. EntryOf(r).key = r.key /\ EntryOf(r).source = r.source
      BY DEF EntryOf
    <3>6. ledger'[r.sequence] = EntryOf(r)
          /\ \A s \in SeqNos \ {r.sequence} : ledger'[s] = call[c].ledger[s]
      BY <3>1, <3>3 DEF Ledger
    <3> HIDE DEF r
    <3> QED
      BY <3>1, <3>2, <3>3, <3>4, <3>5, <3>6 DEF LedgerBacked
  <2>3. UNCHANGED ledger \/ \E c \in Calls : WriteLedger(c)
    BY AnswerSteps
  <2> QED
    BY <2>1, <2>2, <2>3
<1> QED
  BY <1>1, <1>2, <1>3 DEF Backed, ReceiptsAreBacked

(* Samples stay real, and a fragment is verified once.                     *)
LEMMA SamplesKept == ASSUME IInv, [Next]_vars  PROVE SamplesSound'
<1>0. /\ TypeOK /\ SamplesSound /\ SamplesAreReal /\ Len(rolling) \in Nat
      /\ \A x \in samples : x.sequence \in SeqNos
      /\ \A s \in sampling : s \in SeqNos /\ s \in Nat
  <2>1. TypeOK /\ SamplesSound /\ SamplesAreReal
    BY DEF IInv, SamplesSound
  <2>2. /\ rolling \in Seq(Receipt) /\ samples \subseteq [sequence : SeqNos, verdict : Verdicts]
        /\ sampling \subseteq SeqNos
    BY <2>1 DEF TypeOK
  <2>3. Len(rolling) \in Nat
    BY <2>2
  <2>4. \A s \in sampling : s \in SeqNos /\ s \in Nat
    BY <2>2 DEF SeqNos
  <2>5. \A x \in samples : x.sequence \in SeqNos
    BY <2>2
  <2> QED
    BY <2>1, <2>3, <2>4, <2>5
<1> USE DEF lifecycle, inits, segments, seals, sampled, working, others, history
\* A step that asks for no verification and answers none.
<1>a. ASSUME samples' = samples,
             sampling' \subseteq sampling,
             verification' = verification \/ verification' # "EXACT_VERIFIED",
             \A c \in Calls : call'[c].step \in Mapped =>
               call[c].step \in Mapped /\ call'[c].request = call[c].request
      PROVE  SamplesSound'
  <2>1. \A x \in samples : record'[x.sequence] # Absent /\ Sampled(x.sequence)
                           /\ x.sequence < Len(rolling')
    BY <1>0, EvidenceGrows DEF SamplesSound, SamplesAreReal, SeqNos
  <2>2. \A s \in sampling : record'[s] # Absent /\ Sampled(s) /\ s < Len(rolling')
    BY <1>0, EvidenceGrows DEF SamplesSound
  <2> QED
    BY <1>0, <1>a, <2>1, <2>2 DEF SamplesSound, SamplesAreReal
<1>1. CASE Beside
  <2>0. UNCHANGED <<call, record, rolling>>
    BY <1>1, AsideSteps DEF Aside
  <2>1. ASSUME NEW s \in SeqNos, NEW v \in Verdicts, SampleVerified(s, v)
        PROVE  SamplesSound'
    <3>1. CASE Recordable
      <4> DEFINE new == [sequence |-> s, verdict |-> v]
      <4>1. /\ s \in sampling /\ sampling' = sampling \ {s}
            /\ samples' = samples \cup {new} /\ verification' = v
            /\ \A c \in Calls : ~ Active(c)
        BY <2>1, <3>1 DEF SampleVerified, Free, Active
      <4>2. new.sequence = s /\ new.verdict = v
        OBVIOUS
      <4>3. /\ record[s] # Absent /\ Sampled(s) /\ s < Len(rolling)
            /\ \A x \in samples : x.sequence # s
        BY <1>0, <4>1 DEF SamplesSound
      <4>4. \A c \in Calls : call[c].step \notin Mapped
        BY <4>1 DEF Active, Waiting, Mapped
      <4> HIDE DEF new
      <4>5. /\ \A x \in samples' : /\ record'[x.sequence] # Absent /\ Sampled(x.sequence)
                                   /\ x.sequence < Len(rolling')
            /\ \A x, y \in samples' : x.sequence = y.sequence => x = y
        BY <1>0, <2>0, <4>1, <4>2, <4>3 DEF SamplesSound, SamplesAreReal
      <4>6. verification' = "EXACT_VERIFIED" =>
              \E x \in samples' : x.verdict = "EXACT_VERIFIED"
        BY <4>1, <4>2
      <4>7. \A t \in sampling' : /\ record'[t] # Absent /\ Sampled(t) /\ t < Len(rolling')
                                 /\ \A x \in samples' : x.sequence # t
        BY <1>0, <2>0, <4>1, <4>2 DEF SamplesSound
      <4> QED
        BY <2>0, <4>4, <4>5, <4>6, <4>7 DEF SamplesSound, SamplesAreReal
    <3>2. CASE ~ Recordable
      BY <1>a, <2>0, <2>1, <3>2 DEF SampleVerified
    <3> QED
      BY <3>1, <3>2
  <2>2. ASSUME NEW s \in SeqNos, SampleFails(s)  PROVE SamplesSound'
    BY <1>a, <2>0, <2>2 DEF SampleFails
  <2>3. CASE Stop
    BY <1>a, <2>0, <2>3 DEF Stop, StopCall, StopSeals, StopEnds
  <2>4. CASE \/ Upload \/ VerifierDies \/ HealthCheck \/ UNCHANGED vars
             \/ \E r \in Offers : AppendReplayed(r) \/ AppendOverflows(r)
    <3>1. UNCHANGED <<samples, sampling, verification>>
      BY <2>4 DEF Upload, UploadInit, UploadInitRecord, UploadInitSession, VerifierDies,
         HealthCheck, vars, AppendReplayed, AppendOverflows
    <3> QED
      BY <1>a, <2>0, <3>1
  <2>5. ASSUME NEW k \in Starts, Start(k)  PROVE SamplesSound'
    <3>1. UNCHANGED <<samples, sampling, verification>>
      BY <2>5 DEF Start, StartCall, StartReady, StartThrows, WriteStartReceipt,
                  StartRetried, StartReplayed
    <3> QED
      BY <1>a, <2>0, <3>1
  <2> QED
    BY <1>1, <2>1, <2>2, <2>3, <2>4, <2>5 DEF Beside, Sample
<1>2. ASSUME NEW c \in Calls, NEW r \in Request, AppendAccepted(c, r)  PROVE SamplesSound'
  <2>1. /\ call'[c].step = "queued" /\ \A d \in Calls \ {c} : call'[d] = call[d]
        /\ UNCHANGED <<samples, sampling, verification>>
    BY <1>0, <1>2, CallBegins DEF AppendAccepted
  <2> QED
    BY <1>a, <2>1 DEF Mapped
<1>3. ASSUME NEW c \in Calls, NEW v \in Variants, WorkerAnswers(c, v)  PROVE SamplesSound'
  <2>1. /\ call'[c].step = "publish" /\ \A d \in Calls \ {c} : call'[d] = call[d]
        /\ UNCHANGED <<samples, sampling, verification>>
    BY <1>3, CallAnswered DEF WorkerAnswers
  <2> QED
    BY <1>a, <2>1 DEF Mapped
<1>4. ASSUME NEW c \in Calls, Fails(c)  PROVE SamplesSound'
  <2>1. /\ call'[c].step = "idle" /\ \A d \in Calls \ {c} : call'[d] = call[d]
        /\ UNCHANGED <<samples, sampling, verification>>
    BY <1>0, <1>4, CallEnds DEF Fails
  <2> QED
    BY <1>a, <2>1 DEF Mapped
<1>5. ASSUME NEW c \in Calls, Publishes(c)  PROVE SamplesSound'
  <2>1. /\ call'[c].step \in {"init.record", "init.session", "segment"}
        /\ \A d \in Calls \ {c} : call'[d] = call[d]
        /\ UNCHANGED <<samples, sampling, verification>>
    BY <1>5, PublishesMove DEF Publishes
  <2> QED
    BY <1>a, <2>1 DEF Mapped
<1>6. ASSUME NEW c \in Calls, Writes(c)  PROVE SamplesSound'
  <2>0. /\ Active(c) /\ \A d \in Calls \ {c} : call'[d] = call[d] /\ ~ Active(d)
        /\ \A d \in Calls \ {c} : call[d].step \notin Mapped
    BY <1>6, WritesActive, WritesMove, ActiveCall DEF Active, Waiting, Mapped
  <2>1. CASE WriteSegment(c) \/ CountSegment(c) \/ SegmentDuplicate(c)
    <3>1. call'[c].step \notin Mapped
      BY <1>6, <2>1, WritesMove DEF Mapped
    <3>2. UNCHANGED <<samples, sampling, verification>>
      BY <2>1 DEF WriteSegment, CountSegment, SegmentDuplicate
    <3> QED
      BY <1>a, <2>0, <3>1, <3>2
  <2>2. CASE WriteReceipt(c)
    <3>1. /\ call[c].request.sequence = Len(rolling) /\ Len(rolling') = Len(rolling) + 1
          /\ UNCHANGED <<record, samples, sampling, verification>>
          /\ call'[c].request = call[c].request /\ call'[c].step = "ledger"
      <4>1. ~ CountFrames(c)
        BY <2>2 DEF WriteReceipt, CountFrames, At
      <4> QED
        BY <1>6, <2>2, <4>1, WritesMove, ReceiptWritten
    <3>2. /\ \A x \in samples : x.sequence \in Nat /\ x.sequence < Len(rolling)
          /\ \A s \in sampling : s \in Nat /\ s < Len(rolling)
      BY <1>0 DEF SamplesSound, SeqNos
    <3>3. /\ call[c].request.sequence \notin sampling
          /\ \A x \in samples : x.sequence # call[c].request.sequence
      BY <1>0, <3>1, <3>2
    <3>4. /\ \A x \in samples : x.sequence < Len(rolling')
          /\ \A s \in sampling : s < Len(rolling')
      BY <1>0, <3>1, <3>2
    <3> QED
      BY <1>0, <2>0, <3>1, <3>3, <3>4 DEF SamplesSound, SamplesAreReal
  <2>3. CASE WriteLedger(c)
    <3>1. /\ UNCHANGED <<samples, sampling, verification>> /\ call[c].step \in Mapped
          /\ call'[c].request = call[c].request
      <4>1. ~ CountFrames(c) /\ call[c].step = "ledger"
        BY <2>3 DEF WriteLedger, CountFrames, At
      <4>2. call'[c].request = call[c].request
        BY <1>6, <4>1, WritesMove
      <4> QED
        BY <2>3, <4>1, <4>2 DEF WriteLedger, Mapped
    <3> QED
      BY <1>a, <2>0, <3>1
  <2>4. CASE CountFrames(c)
    <3> DEFINE s == call[c].request.sequence
    <3>1. /\ call[c].step \in Mapped /\ call[c].step \in Written
          /\ UNCHANGED <<record, rolling, samples>>
          /\ \/ UNCHANGED <<sampling, verification>>
             \/ Sampled(s) /\ sampling' = sampling \cup {s} /\ verification' = "PENDING"
      BY <2>4 DEF CountFrames, Mapped, Written, At
    <3>2. call'[c].step = "idle"
      BY <1>6, <2>4, WritesMove
    <3>3. SameAsStored(c) /\ Len(rolling) = s + 1
      BY <3>1 DEF IInv, CallsSound, CallSound
    <3>4. s \in Nat /\ s < Len(rolling) /\ call[c].request.key \in Keys
          /\ call[c].output \in Output
      BY <2>0, <3>3, ActiveCall DEF SeqNos
    <3>5. record[s] # Absent
      <4>1. record[s] \in Record
        BY <3>3, <3>4 DEF SameAsStored, Record
      <4> QED
        BY <4>1, SentinelAssumption
    <3>6. \A x \in samples : x.sequence # s
      BY <1>0, <3>1 DEF SamplesSound
    <3>7. CASE UNCHANGED <<sampling, verification>>
      BY <1>a, <2>0, <3>1, <3>2, <3>7 DEF Mapped
    <3>8. CASE Sampled(s) /\ sampling' = sampling \cup {s} /\ verification' = "PENDING"
      <4> HIDE DEF s
      <4>1. \A t \in sampling' : /\ record'[t] # Absent /\ Sampled(t) /\ t < Len(rolling')
                                 /\ \A x \in samples' : x.sequence # t
        BY <1>0, <3>1, <3>4, <3>5, <3>6, <3>8 DEF SamplesSound
      <4>2. \A d \in Calls : call'[d].step \notin Mapped
        BY <2>0, <3>2 DEF Mapped
      <4> QED
        BY <1>0, <3>1, <3>8, <4>1, <4>2 DEF SamplesSound, SamplesAreReal
    <3> QED
      BY <3>1, <3>7, <3>8
  <2> QED
    BY <1>6, <2>1, <2>2, <2>3, <2>4 DEF Writes
<1>7. CASE WorkerDies
  <2>1. UNCHANGED <<samples, sampling, verification>> /\ \A c \in Calls : ~ Active(c)
    BY <1>7 DEF WorkerDies, Free, Active
  <2>2. \A c \in Calls : call'[c].step \in {"orphan", call[c].step}
    BY <1>0, <1>7 DEF WorkerDies, TypeOK, Call
  <2>3. \A c \in Calls : call'[c].step \notin Mapped
    BY <2>1, <2>2 DEF Active, Waiting, Mapped
  <2> QED
    BY <1>a, <2>1, <2>3
<1>8. CASE Crash
  BY <1>8, <1>a DEF Crash, NoCall, Mapped
<1> QED
  BY <1>1, <1>2, <1>3, <1>4, <1>5, <1>6, <1>7, <1>8, StepKinds

(* A session that has ended, or is about to, does not open again, and a    *)
(* failing append closes it.                                               *)
LEMMA NeverReopens ==
  ASSUME IInv, [Next]_vars
  PROVE  /\ status' \in {"READY", "RUNNING"} => status \in {"READY", "RUNNING"}
         /\ \A c \in Calls : Fails(c) => status' \notin {"READY", "RUNNING"}
<1> USE DEF lifecycle, inits, segments, seals, sampled, working, others, history
<1>1. ASSUME NEW k \in Starts, Start(k)
      PROVE  status' \in {"READY", "RUNNING"} => status \in {"READY", "RUNNING"}
  BY <1>1 DEF Start, StartCall, StartReady, StartThrows, WriteStartReceipt, StartRetried,
              StartReplayed
<1>2. Stop \/ (\E r \in Offers : AppendReplayed(r) \/ AppendOverflows(r)) =>
        (status' \in {"READY", "RUNNING"} => status \in {"READY", "RUNNING"})
  BY DEF Stop, StopCall, StopSeals, StopEnds, AppendReplayed, AppendOverflows, Failed
<1>3. ASSUME \/ Upload \/ VerifierDies \/ HealthCheck \/ UNCHANGED vars
             \/ WorkerDies \/ Crash \/ \E s \in SeqNos : Sample(s)
      PROVE  UNCHANGED status
  BY <1>3 DEF Upload, UploadInit, UploadInitRecord, UploadInitSession, VerifierDies,
         HealthCheck, vars, WorkerDies, Crash, Sample, SampleVerified, SampleFails
<1>4. ASSUME NEW c \in Calls, \/ \E r \in Request : AppendAccepted(c, r)
                              \/ \E v \in Variants : WorkerAnswers(c, v)
                              \/ Publishes(c)
      PROVE  UNCHANGED status
  BY <1>4 DEF AppendAccepted, WorkerAnswers, Publishes
<1>5. ASSUME NEW c \in Calls, Writes(c)  PROVE UNCHANGED status
  BY <1>5, WritesMove
<1>6. ASSUME NEW c \in Calls, Fails(c)
      PROVE  status' \notin {"READY", "RUNNING"}
  BY <1>6 DEF Fails, Failed, IInv, StatusSound
<1>7. CASE Beside
  <2>1. status' \in {"READY", "RUNNING"} => status \in {"READY", "RUNNING"}
    BY <1>1, <1>2, <1>3, <1>7 DEF Beside
  <2> QED
    BY <1>6, <2>1
<1>8. CASE WorkerDies \/ Crash
  BY <1>3, <1>6, <1>8
<1> QED
  BY <1>4, <1>5, <1>6, <1>7, <1>8, StepKinds

(* What the calls read before they waited still agrees.                    *)
LEMMA ReadsKept ==
  ASSUME IInv, [Next]_vars, ~ torn'
  PROVE  ~ torn /\ ReadsAgree'
<1> USE DEF lifecycle, inits, segments, seals, sampled, working, others, history
<1>0. TypeOK
  BY DEF IInv
<1>1. ~ torn
  <2>1. ASSUME NEW c \in Calls, \/ \E r \in Request : AppendAccepted(c, r)
                                \/ \E v \in Variants : WorkerAnswers(c, v)
                                \/ Fails(c) \/ Publishes(c)
        PROVE  UNCHANGED torn
    BY <2>1 DEF AppendAccepted, WorkerAnswers, Fails, Publishes
  <2>2. ASSUME NEW c \in Calls, Writes(c)  PROVE UNCHANGED torn
    BY <2>2, WritesMove
  <2>3. Beside \/ WorkerDies => UNCHANGED torn
    BY AsideSteps DEF Aside, WorkerDies
  <2>4. Crash /\ torn => torn'
    BY DEF Crash
  <2> QED
    BY <2>1, <2>2, <2>3, <2>4, StepKinds
<1>2. ReadsAgree /\ (status \in {"READY", "RUNNING"} => TalliesAgree)
  BY <1>1 DEF IInv, AgreeUnlessTorn
\* One call is over, or goes on with what it has read.
<1>a. ASSUME NEW c \in Calls, \A d \in Calls \ {c} : call'[d] = call[d],
             \/ call'[c].step = "idle"
             \/ /\ ~ At(c, "idle") /\ call'[c].request = call[c].request
                /\ call'[c].ledger = call[c].ledger /\ call'[c].frames = call[c].frames
      PROVE  ReadsAgree'
  BY <1>2, <1>a DEF ReadsAgree, UpTo, At
<1>3. CASE Beside
  BY <1>2, <1>3, AsideSteps DEF Aside, ReadsAgree, UpTo, At
<1>4. ASSUME NEW c \in Calls, NEW r \in Request, AppendAccepted(c, r)  PROVE ReadsAgree'
  <2>1. /\ call'[c].request = r /\ call'[c].ledger = ledger /\ call'[c].frames = frames
        /\ \A d \in Calls \ {c} : call'[d] = call[d]
    BY <1>0, <1>4, CallBegins
  <2>2. status = "RUNNING" /\ r.sequence = next /\ \A d \in Calls : call[d].step \notin Written
    BY <1>4 DEF AppendAccepted, Free, Waiting, Written
  <2>3. frames = r.sequence /\ UpTo(ledger, r.sequence)
    BY <1>2, <2>2 DEF TalliesAgree, Tally
  <2> QED
    BY <1>2, <2>1, <2>3 DEF ReadsAgree, UpTo, At
<1>5. ASSUME NEW c \in Calls, NEW v \in Variants, WorkerAnswers(c, v)  PROVE ReadsAgree'
  BY <1>5, <1>a, CallAnswered DEF At
<1>6. ASSUME NEW c \in Calls, Fails(c)  PROVE ReadsAgree'
  BY <1>0, <1>6, <1>a, CallEnds DEF Fails
<1>7. ASSUME NEW c \in Calls, Publishes(c)  PROVE ReadsAgree'
  BY <1>7, <1>a, PublishesMove DEF Active, Waiting, At
<1>8. ASSUME NEW c \in Calls, Writes(c)  PROVE ReadsAgree'
  BY <1>8, <1>a, WritesActive, WritesMove DEF Active, Waiting, At
<1>9. CASE WorkerDies
  <2>1. ASSUME NEW c \in Calls
        PROVE  /\ call'[c].step = "idle" => At(c, "idle")
               /\ At(c, "idle") => call'[c].step = "idle"
               /\ call'[c].request = call[c].request
               /\ call'[c].ledger = call[c].ledger /\ call'[c].frames = call[c].frames
    <3>1. call[c] \in Call /\ call'[c] = IF At(c, "queued")
                                         THEN [call[c] EXCEPT !.step = "orphan"] ELSE call[c]
      BY <1>0, <1>9 DEF WorkerDies, TypeOK
    <3> QED
      BY <3>1 DEF Call, At
  <2> QED
    <3>1. ASSUME NEW c \in Calls, call'[c].step # "idle"
          PROVE  /\ call'[c].frames = call'[c].request.sequence
                 /\ \A s \in SeqNos : call'[c].ledger[s] # Absent
                                      <=> s < call'[c].request.sequence
      <4>1. call[c].step # "idle"
        BY <2>1, <3>1 DEF At
      <4>2. /\ call[c].frames = call[c].request.sequence
            /\ \A s \in SeqNos : call[c].ledger[s] # Absent
                                 <=> s < call[c].request.sequence
        BY <1>2, <4>1 DEF ReadsAgree, UpTo, At
      <4> QED
        BY <2>1, <4>2
    <3> QED
      BY <1>1, <3>1 DEF ReadsAgree, UpTo, At
<1>10. CASE Crash
  BY <1>10 DEF Crash, NoCall, ReadsAgree, At
<1> QED
  BY <1>1, <1>3, <1>4, <1>5, <1>6, <1>7, <1>8, <1>9, <1>10, StepKinds

(* The tallies of a running session that no death has torn still agree     *)
(* after the writes of an append.                                          *)
LEMMA WritesTally ==
  ASSUME IInv, [Next]_vars, NEW c \in Calls, Writes(c), ReadsAgree, TalliesAgree
  PROVE  TalliesAgree'
<1> DEFINE r == call[c].request
<1>0. PICK n \in Nat : n = Len(rolling)
  BY DEF IInv, TypeOK
<1>1. /\ Active(c) /\ ~ At(c, "idle") /\ CallSound(c)
      /\ \A d \in Calls \ {c} : call'[d] = call[d] /\ call[d].step \notin Written
  BY WritesActive, WritesMove, ActiveCall
  DEF Active, Waiting, Written, At, IInv, CallsSound
<1>2. /\ call[c].frames = r.sequence /\ UpTo(call[c].ledger, r.sequence)
      /\ r.sequence \in Nat /\ r.sequence \in SeqNos
      /\ r.key \in Keys /\ r.source \in Sources /\ call[c].output \in Output
      /\ call[c].ledger \in Ledger
  BY <1>1, ActiveCall DEF ReadsAgree, SeqNos
<1>3. /\ \A i \in 1 .. n : rolling[i].offset = i - 1
      /\ call[c].step \notin Written => Tally(n, FALSE, n, n)
      /\ At(c, "session") => Tally(n, TRUE, n, n)
      /\ At(c, "map") /\ r.sequence = n => Tally(n + 1, FALSE, n, n)
      /\ At(c, "ledger") => Tally(n, FALSE, n - 1, n - 1)
      /\ At(c, "counters") => Tally(n, FALSE, n, n - 1)
  <2>1. (\A d \in Calls : call[d].step \notin Written) => Tally(n, FALSE, n, n)
    BY <1>0 DEF TalliesAgree
  <2> QED
    BY <1>0, <1>1, <2>1 DEF TalliesAgree
<1>4. TypeOK /\ StoredUpTo /\ next \in Nat /\ behind \in BOOLEAN
  BY DEF IInv, TypeOK, SeqNos
<1> USE DEF lifecycle, inits, segments, seals, sampled, working, others, history
<1> HIDE DEF r
<1>5. CASE WriteSegment(c)
  <2>1. /\ call[c].step = "segment" /\ call'[c].step = "session" /\ call'[c].request = r
        /\ next' = Counted /\ behind' = TRUE /\ UNCHANGED <<rolling, ledger, frames>>
    <3>1. At(c, "segment") /\ ~ CountFrames(c)
      BY <1>5 DEF WriteSegment, CountFrames, At
    <3> QED
      BY <1>5, <3>1, SegmentWritten, WritesMove DEF At, r
  <2>2. Tally(n, FALSE, n, n)
    BY <1>3, <2>1 DEF Written
  <2>3. next' = n
    BY <2>1, <2>2 DEF Tally, Counted
  <2>4. Tally(n, TRUE, n, n)'
    BY <2>1, <2>2, <2>3 DEF Tally, UpTo
  <2> QED
    BY <1>0, <1>1, <1>3, <2>1, <2>4 DEF TalliesAgree, Written, At
<1>6. CASE CountSegment(c)
  <2>1. /\ At(c, "session") /\ call'[c].step = "map" /\ call'[c].request = r
        /\ Reconcile /\ UNCHANGED <<rolling, ledger, frames>>
    <3>1. At(c, "session") /\ ~ CountFrames(c) /\ Reconcile /\ UNCHANGED <<rolling, ledger, frames>>
      BY <1>6 DEF CountSegment, CountFrames, At
    <3> QED
      BY <1>6, <3>1, WritesMove DEF r
  <2>2. Tally(n, TRUE, n, n)
    BY <1>3, <2>1
  <2>3. next' = n + 1 /\ behind' = FALSE
    BY <2>1, <2>2 DEF Tally, Counted, Reconcile
  <2>4. Tally(n + 1, FALSE, n, n)'
    BY <2>1, <2>2, <2>3 DEF Tally, UpTo
  <2> QED
    BY <1>0, <1>1, <1>3, <2>1, <2>4 DEF TalliesAgree, Written, At
<1>7. CASE SegmentDuplicate(c)
  <2>1. /\ At(c, "segment") /\ SameAsStored(c) /\ UNCHANGED rolling
    BY <1>7 DEF SegmentDuplicate
  <2>2. call'[c].step = "map" /\ call'[c].request = r
    <3>1. ~ CountFrames(c)
      BY <2>1 DEF CountFrames, At
    <3> QED
      BY <1>7, <3>1, WritesMove DEF r
  <2>3. Counted = n
    BY <1>3, <2>1 DEF Tally, Counted, Written, At
  <2>4. record[r.sequence] # Absent
    <3>1. record[r.sequence] \in Record
      BY <1>2, <2>1 DEF SameAsStored, Record, r
    <3> QED
      BY <3>1, SentinelAssumption
  <2>5. r.sequence # n
    BY <1>2, <1>4, <2>3, <2>4 DEF StoredUpTo
  <2> QED
    BY <1>0, <1>1, <1>3, <2>1, <2>2, <2>5 DEF TalliesAgree, Written, At
<1>8. CASE WriteReceipt(c)
  <2>1. /\ At(c, "map") /\ r.sequence = n /\ Len(rolling') = n + 1
        /\ \A i \in 1 .. n : rolling'[i] = rolling[i]
        /\ rolling'[n + 1].offset = call[c].frames
        /\ next' = next /\ behind' = behind /\ ledger' = ledger /\ frames' = frames
    <3>1. At(c, "map")
      BY <1>8 DEF WriteReceipt
    <3>2. /\ r.sequence = n /\ Len(rolling') = n + 1
          /\ \A i \in 1 .. n : rolling'[i] = rolling[i]
          /\ rolling'[n + 1] = [sequence |-> r.sequence, offset |-> call[c].frames,
                                source |-> r.source, output |-> call[c].output]
      BY <1>0, <1>8, ReceiptWritten DEF r
    <3>3. next' = next /\ behind' = behind /\ ledger' = ledger /\ frames' = frames
      BY <1>8, ReceiptWritten
    <3> QED
      BY <3>1, <3>2, <3>3
  <2>2. call'[c].step = "ledger"
    BY <1>8, WritesMove
  <2>3. Tally(n + 1, FALSE, n, n)
    BY <1>3, <2>1
  <2>4. Tally(n + 1, FALSE, n, n)'
    BY <2>1, <2>3 DEF Tally, UpTo
  <2>5. \A i \in 1 .. n + 1 : rolling'[i].offset = i - 1
    BY <1>2, <1>3, <2>1
  <2>6. (n + 1) - 1 = n
    OBVIOUS
  <2> QED
    BY <1>1, <2>1, <2>2, <2>4, <2>5, <2>6 DEF TalliesAgree, Written, At
<1>9. CASE WriteLedger(c)
  <2>1. /\ At(c, "ledger") /\ call[c].step \in Mapped
        /\ ledger' = [call[c].ledger EXCEPT ![r.sequence] = EntryOf(r)]
        /\ UNCHANGED <<next, behind, frames, rolling>>
    BY <1>9 DEF WriteLedger, At, Mapped, r
  <2>2. call'[c].step = "counters"
    BY <1>9, WritesMove
  <2>3. n = r.sequence + 1
    BY <1>0, <1>1, <2>1 DEF CallSound, r
  <2>4. EntryOf(r) # Absent
    <3>1. EntryOf(r) \in Entry
      BY <1>2 DEF EntryOf, Entry
    <3> QED
      BY <3>1, SentinelAssumption
  <2>5. /\ ledger'[r.sequence] = EntryOf(r)
        /\ \A s \in SeqNos \ {r.sequence} : ledger'[s] = call[c].ledger[s]
    BY <1>2, <2>1 DEF Ledger
  <2>6. \A s \in SeqNos : ledger'[s] # Absent <=> s < n
    BY <1>2, <2>3, <2>4, <2>5 DEF UpTo, SeqNos
  <2>7. Tally(n, FALSE, n - 1, n - 1)
    BY <1>3, <2>1
  <2>8. Tally(n, FALSE, n, n - 1)'
    BY <2>1, <2>6, <2>7 DEF Tally, UpTo
  <2> QED
    BY <1>0, <1>1, <1>3, <2>1, <2>2, <2>8 DEF TalliesAgree, Written, At
<1>10. CASE CountFrames(c)
  <2>1. /\ At(c, "counters") /\ call[c].step \in Mapped
        /\ frames' = call[c].frames + 1
        /\ UNCHANGED <<next, behind, ledger, rolling>>
    BY <1>10 DEF CountFrames, At, Mapped
  <2>2. call'[c].step = "idle"
    BY <1>10, WritesMove
  <2>3. frames' = n
    BY <1>0, <1>1, <1>2, <2>1 DEF CallSound, r
  <2>4. Tally(n, FALSE, n, n - 1)
    BY <1>3, <2>1
  <2>5. Tally(n, FALSE, n, n)'
    BY <2>1, <2>3, <2>4 DEF Tally, UpTo
  <2> QED
    BY <1>0, <1>1, <1>3, <2>1, <2>2, <2>5 DEF TalliesAgree, Written, At
<1> QED
  BY <1>5, <1>6, <1>7, <1>8, <1>9, <1>10 DEF Writes

(* The session, its receipts, the ledger and the counter still agree.      *)
LEMMA AgreeKept == ASSUME IInv, [Next]_vars  PROVE AgreeUnlessTorn'
<1> SUFFICES ASSUME ~ torn', status' \in {"READY", "RUNNING"}  PROVE TalliesAgree'
  BY ReadsKept DEF AgreeUnlessTorn
<1>0. TypeOK /\ ReadsAgree /\ TalliesAgree
  BY ReadsKept, NeverReopens DEF IInv, AgreeUnlessTorn
<1> USE DEF lifecycle, inits, segments, seals, sampled, working, others, history
\* No call is, or comes to be, between the first and the last write.
<1>a. ASSUME UNCHANGED <<next, behind, ledger, frames, rolling>>,
             \A c \in Calls : \/ call'[c] = call[c]
                              \/ /\ call[c].step \notin Written
                                 /\ call'[c].step \notin Written
      PROVE  TalliesAgree'
  BY <1>0, <1>a DEF TalliesAgree, Tally, UpTo, At, Written
<1>1. CASE Beside
  <2>1. UNCHANGED <<call, ledger, frames, rolling>>
    BY <1>1, AsideSteps DEF Aside
  <2>2. next' = next /\ behind' = behind
    <3>1. CASE Free /\ Reconcile
      <4>1. \A c \in Calls : call[c].step \notin Written
        BY <3>1 DEF Free, Waiting, Written
      <4>2. behind = FALSE
        BY <1>0, <4>1 DEF TalliesAgree, Tally
      <4> QED
        BY <3>1, <4>2 DEF Reconcile, Counted
    <3> QED
      BY <1>1, <3>1, AsideSteps DEF Aside
  <2> QED
    BY <1>a, <2>1, <2>2
<1>2. ASSUME NEW c \in Calls, NEW r \in Request, AppendAccepted(c, r)  PROVE TalliesAgree'
  <2>1. /\ call[c].step = "idle" /\ call'[c].step = "queued"
        /\ \A d \in Calls \ {c} : call'[d] = call[d]
        /\ UNCHANGED <<next, behind, ledger, frames, rolling>>
    BY <1>0, <1>2, CallBegins DEF AppendAccepted, At
  <2> QED
    BY <1>a, <2>1 DEF Written
<1>3. ASSUME NEW c \in Calls, NEW v \in Variants, WorkerAnswers(c, v)  PROVE TalliesAgree'
  <2>1. /\ call[c].step = "queued" /\ call'[c].step = "publish"
        /\ \A d \in Calls \ {c} : call'[d] = call[d]
        /\ UNCHANGED <<next, behind, ledger, frames, rolling>>
    BY <1>3, CallAnswered DEF WorkerAnswers, At
  <2> QED
    BY <1>a, <2>1 DEF Written
<1>4. ASSUME NEW c \in Calls, Fails(c)  PROVE TalliesAgree'
  BY <1>4, NeverReopens
<1>5. ASSUME NEW c \in Calls, Publishes(c)  PROVE TalliesAgree'
  <2>1. /\ call[c].step \notin Written /\ call'[c].step \notin Written
        /\ \A d \in Calls \ {c} : call'[d] = call[d]
        /\ UNCHANGED <<next, behind, ledger, frames, rolling>>
    BY <1>5, PublishesMove DEF Publishes, Written
  <2> QED
    BY <1>a, <2>1
<1>6. ASSUME NEW c \in Calls, Writes(c)  PROVE TalliesAgree'
  BY <1>0, <1>6, WritesTally
<1>7. CASE WorkerDies
  <2>1. \A c \in Calls : call[c].step \notin Written
    BY <1>7 DEF WorkerDies, Free, Waiting, Written
  <2>2. \A c \in Calls : call'[c].step \in {"orphan", call[c].step}
    BY <1>0, <1>7 DEF WorkerDies, TypeOK, Call
  <2>3. UNCHANGED <<next, behind, ledger, frames, rolling>>
    BY <1>7 DEF WorkerDies
  <2> QED
    BY <1>a, <2>1, <2>2, <2>3 DEF Written
<1>8. CASE Crash
  <2>1. \A c \in Calls : call[c].step \notin Written
    BY <1>8 DEF Crash, Waiting, Written
  <2>2. \A c \in Calls : call'[c].step = "idle"
    BY <1>8 DEF Crash, NoCall
  <2>3. UNCHANGED <<next, behind, ledger, frames, rolling>>
    BY <1>8 DEF Crash
  <2> QED
    BY <1>a, <2>1, <2>2, <2>3 DEF Written
<1> QED
  BY <1>1, <1>2, <1>3, <1>4, <1>5, <1>6, <1>7, <1>8, StepKinds

(* Every reachable state satisfies the invariant.                          *)
THEOREM AppendInvariant == Spec => []IInv
<1>1. ASSUME IInv, [Next]_vars  PROVE IInv'
  BY <1>1, TypesKept, OneRunsKept, QueueKept, StatusKept, StoredKept, CallsKept,
     BackedKept, SamplesKept, AgreeKept DEF IInv
<1> QED
  BY <1>1, InitIsSound, PTL DEF Spec

-----------------------------------------------------------------------------
(***************************************************************************)
(* Part 4: the safety properties                                           *)
(***************************************************************************)

(* Types.                                                                  *)
THEOREM AppendTyped == Spec => []TypeOK
<1>1. IInv => TypeOK
  BY DEF IInv
<1> QED
  BY <1>1, AppendInvariant, PTL

(* The rolling map speaks only for what is stored, and what was answered   *)
(* is stored and has its receipt: appendSegment writes the segment first,  *)
(* its receipt next, and answers last or from the ledger.                  *)
THEOREM MapAlwaysBacked == Spec => []ReceiptsAreBacked
<1>1. IInv => ReceiptsAreBacked
  BY DEF IInv, Backed
<1> QED
  BY <1>1, AppendInvariant, PTL

(* One start wins, also when the process dies before its receipt.          *)
THEOREM OneStartWins == Spec => []OneStart
<1>1. IInv => OneStart
  BY DEF IInv, StatusSound
<1> QED
  BY <1>1, AppendInvariant, PTL

(* A verdict is of a stored fragment whose turn it was, one per fragment.  *)
THEOREM SamplesStayReal == Spec => []SamplesAreReal
<1>1. IInv => SamplesAreReal
  BY DEF IInv, SamplesSound
<1> QED
  BY <1>1, AppendInvariant, PTL

(* Where nobody holds the processor the tallies of a running session are   *)
(* those of the segments it counts.                                        *)
LEMMA FreeTallies ==
  ASSUME IInv, ~ torn, status = "RUNNING", Free
  PROVE  /\ ~ behind /\ next = Len(rolling) /\ frames = Len(rolling)
         /\ \A s \in SeqNos : (record[s] # Absent <=> s < next)
                              /\ (ledger[s] # Absent <=> s < next)
         /\ \A i \in 1 .. Len(rolling) : rolling[i].offset = i - 1
<1>1. TalliesAgree /\ StoredUpTo
  BY DEF IInv, AgreeUnlessTorn
<1>2. \A c \in Calls : call[c].step \notin Written
  BY DEF Free, Waiting, Written
<1>3. /\ next = Len(rolling) /\ behind = FALSE /\ frames = Len(rolling)
      /\ \A s \in SeqNos : ledger[s] # Absent <=> s < Len(rolling)
      /\ \A i \in 1 .. Len(rolling) : rolling[i].offset = i - 1
  BY <1>1, <1>2 DEF TalliesAgree, Tally, UpTo
<1>4. Counted = next
  BY <1>3 DEF Counted
<1>5. \A s \in SeqNos : record[s] # Absent <=> s < next
  BY <1>1, <1>4 DEF StoredUpTo
<1> QED
  BY <1>3, <1>5

(* Whatever the calls read before they waited, a running session that no   *)
(* death caught between two writes is consistent when no handler runs.     *)
THEOREM RunningSessionAgrees == Spec => []RunningAgrees
<1>1. IInv => RunningAgrees
  BY FreeTallies DEF RunningAgrees
<1> QED
  BY <1>1, AppendInvariant, PTL

(* A write of an append needs a running session whose map is open.         *)
LEMMA WritesRun ==
  ASSUME IInv, NEW c \in Calls, Writes(c)
  PROVE  status = "RUNNING" /\ ~ sealed
<1>1. status = "RUNNING"
  BY WritesActive DEF IInv, StatusSound
<1> QED
  BY <1>1 DEF IInv, StatusSound

(* Without a write of an append the evidence stays as it is.               *)
LEMMA NothingWritten ==
  ASSUME IInv, [Next]_vars, \A c \in Calls : ~ Writes(c)
  PROVE  /\ UNCHANGED <<record, rolling, ledger, frames>>
         /\ sealed => sealed'
<1> USE DEF lifecycle, inits, segments, seals, sampled, working, others, history
<1>1. CASE Beside
  <2>1. UNCHANGED <<record, rolling, ledger, frames>>
    BY <1>1, AsideSteps DEF Aside
  <2>2. Stop => (sealed => sealed')
    BY DEF Stop, StopCall, StopSeals, StopEnds
  <2>3. Upload \/ VerifierDies \/ HealthCheck \/ UNCHANGED vars => sealed' = sealed
    BY DEF Upload, UploadInit, UploadInitRecord, UploadInitSession, VerifierDies,
           HealthCheck, vars
  <2>4. ASSUME NEW k \in Starts, Start(k)  PROVE sealed' = sealed
    BY <2>4 DEF Start, StartCall, StartReady, StartThrows, WriteStartReceipt,
                StartRetried, StartReplayed
  <2>5. ASSUME NEW s \in SeqNos, Sample(s)  PROVE sealed' = sealed
    BY <2>5 DEF Sample, SampleVerified, SampleFails
  <2>6. (\E r \in Offers : AppendReplayed(r) \/ AppendOverflows(r)) => sealed' = sealed
    BY DEF AppendReplayed, AppendOverflows
  <2> QED
    BY <1>1, <2>1, <2>2, <2>3, <2>4, <2>5, <2>6 DEF Beside
<1>2. CASE WorkerDies \/ Crash
  BY <1>2 DEF WorkerDies, Crash
<1>3. ASSUME NEW c \in Calls, \/ \E r \in Request : AppendAccepted(c, r)
                              \/ \E v \in Variants : WorkerAnswers(c, v)
                              \/ Fails(c) \/ Publishes(c)
      PROVE  UNCHANGED <<record, rolling, ledger, frames, sealed>>
  BY <1>3 DEF AppendAccepted, WorkerAnswers, Fails, Publishes
<1> QED
  BY <1>1, <1>2, <1>3, StepKinds

(* A session that has ended stays so, and takes no late verdict.           *)
LEMMA EndedStays ==
  ASSUME IInv, [Next]_vars, status \in {"STOPPED", "FAILED"}
  PROVE  UNCHANGED <<status, samples, verification>>
<1> USE DEF lifecycle, inits, segments, seals, sampled, working, others, history
<1>1. stopping = "no"
  BY DEF IInv, StatusSound
<1>2. CASE Beside
  <2>1. Upload \/ VerifierDies \/ HealthCheck \/ UNCHANGED vars =>
          UNCHANGED <<status, samples, verification>>
    BY DEF Upload, UploadInit, UploadInitRecord, UploadInitSession, VerifierDies,
           HealthCheck, vars
  <2>2. ASSUME NEW k \in Starts, Start(k)
        PROVE  UNCHANGED <<status, samples, verification>>
    BY <2>2 DEF Start, StartCall, StartReady, StartThrows, WriteStartReceipt,
                StartRetried, StartReplayed
  <2>3. ASSUME NEW s \in SeqNos, Sample(s)
        PROVE  UNCHANGED <<status, samples, verification>>
    BY <2>3 DEF Sample, SampleVerified, SampleFails, Recordable
  <2>4. (\E r \in Offers : AppendReplayed(r) \/ AppendOverflows(r)) =>
          UNCHANGED <<status, samples, verification>>
    BY DEF AppendReplayed, AppendOverflows
  <2>5. ~ Stop
    BY <1>1 DEF Stop, StopCall, StopSeals, StopEnds
  <2> QED
    BY <1>2, <2>1, <2>2, <2>3, <2>4, <2>5 DEF Beside
<1>3. CASE WorkerDies \/ Crash
  BY <1>3 DEF WorkerDies, Crash
<1>4. ASSUME NEW c \in Calls, \/ \E r \in Request : AppendAccepted(c, r)
                              \/ \E v \in Variants : WorkerAnswers(c, v)
                              \/ Fails(c) \/ Publishes(c)
      PROVE  UNCHANGED <<status, samples, verification>>
  BY <1>4 DEF AppendAccepted, WorkerAnswers, Fails, Failed, Publishes
<1>5. ASSUME NEW c \in Calls, Writes(c)  PROVE FALSE
  BY <1>5, WritesRun
<1> QED
  BY <1>2, <1>3, <1>4, <1>5, StepKinds

(* Neither an append that was still waiting nor a late verdict touches the *)
(* evidence of a sealed map or of a session that has ended.                *)
THEOREM EndIsAlwaysFinal == Spec => EndIsFinal
<1> DEFINE Final ==
      /\ sealed => UNCHANGED <<record, rolling, ledger, frames, sealed>>
      /\ status \in {"STOPPED", "FAILED"} =>
           UNCHANGED <<status, record, rolling, ledger, samples, verification>>
<1>1. IInv /\ [Next]_vars => Final
  <2> SUFFICES ASSUME IInv, [Next]_vars  PROVE Final
    OBVIOUS
  <2>1. sealed \/ status \in {"STOPPED", "FAILED"} => \A c \in Calls : ~ Writes(c)
    BY WritesRun
  <2>2. sealed => UNCHANGED <<record, rolling, ledger, frames, sealed>>
    <3>1. sealed \in BOOLEAN /\ sealed' \in BOOLEAN
      BY TypesKept DEF IInv, TypeOK
    <3> QED
      BY <2>1, <3>1, NothingWritten
  <2>3. status \in {"STOPPED", "FAILED"} =>
          UNCHANGED <<status, record, rolling, ledger, samples, verification>>
    BY <2>1, NothingWritten, EndedStays
  <2> QED
    BY <2>2, <2>3
<1>2. IInv /\ [Next]_vars => [Final]_vars
  BY <1>1
<1> QED
  BY <1>2, AppendInvariant, PTL DEF Spec, EndIsFinal

-----------------------------------------------------------------------------
(***************************************************************************)
(* Part 5: protected appends implement the segment log                     *)
(***************************************************************************)

LogEntry(r) == [sequence |-> r.sequence, fragment |-> r.source, key |-> r.key]

logOf == [s \in SeqNos |-> IF record[s] = Absent THEN Absent
                           ELSE [sequence |-> s, fragment |-> record[s].output.source,
                                 key |-> record[s].key]]
answeredOf == {LogEntry(r) : r \in acked}
openOf == status \in {"READY", "RUNNING"}

(* A new session is an empty open log.                                     *)
LEMMA LogInit == Init => Log!Init
BY DEF Init, Log!Init, Log!Positions, SeqNos

(* What the log holds where a record is stored.                            *)
LEMMA LogHolds ==
  ASSUME TypeOK, NEW s \in SeqNos, record[s] # Absent
  PROVE  /\ logOf[s] = [sequence |-> s, fragment |-> record[s].output.source,
                        key |-> record[s].key]
         /\ logOf[s] # Absent /\ logOf[s].fragment = record[s].output.source
<1>1. record[s] \in Record
  BY DEF TypeOK
<1>2. [sequence |-> s, fragment |-> record[s].output.source, key |-> record[s].key]
        \in [sequence : SeqNos, fragment : Sources, key : Keys]
  BY <1>1 DEF Record, Output
<1> QED
  BY <1>2, SentinelAssumption DEF logOf

(* Storing the segment is the moment the log grows.                        *)
LEMMA SegmentCommits ==
  ASSUME IInv, [Next]_vars, NEW c \in Calls, WriteSegment(c)
  PROVE  \E e \in Log!Entry : Log!Commit(e)
<1> DEFINE r == call[c].request
           n == r.sequence
<1>1. /\ n = Counted /\ n < MaxSegments /\ n \in SeqNos /\ record[n] = Absent
      /\ record'[n] = [key |-> r.key, output |-> call[c].output]
      /\ record'[n] # Absent
      /\ \A s \in SeqNos \ {n} : record'[s] = record[s]
      /\ acked' = acked
  BY SegmentWritten
<1>2. /\ Active(c) /\ ~ At(c, "publish")
      /\ r.source \in Sources /\ r.key \in Keys /\ call[c].output.source = r.source
  BY WritesActive, ActiveCall DEF Writes
<1>3. status = "RUNNING" /\ status' = status
  BY <1>2, WritesMove DEF Writes, IInv, StatusSound
<1>4. TypeOK /\ \A s \in SeqNos : record[s] # Absent <=> s < n
  BY <1>1 DEF IInv, StoredUpTo
<1>5. n > 0 => Mfhd[r.source] = Mfhd[record[n - 1].output.source] + 1
  BY <1>1 DEF WriteSegment, Acceptable
<1>6. n > 0 => n - 1 \in SeqNos /\ n - 1 < n
  BY <1>1, AppendAssumption DEF SeqNos
<1> HIDE DEF n
<1>e. PICK e \in Log!Entry : e = LogEntry(r)
  BY <1>1, <1>2 DEF Log!Entry, Log!Positions, SeqNos, LogEntry, n
<1>7. e.sequence = n /\ e.fragment = r.source /\ Log!Positions = SeqNos
  BY <1>1, <1>2, <1>e DEF Log!Entry, Log!Positions, SeqNos, LogEntry, n
<1>8. \A s \in SeqNos : s < n => logOf[s] # Absent
  BY <1>4, LogHolds
<1>9. n > 0 => Mfhd[r.source] = Mfhd[logOf[n - 1].fragment] + 1
  BY <1>4, <1>5, <1>6, LogHolds
<1>10. logOf' = [logOf EXCEPT ![n] = e]
  <2>1. e = [sequence |-> n, fragment |-> record'[n].output.source, key |-> record'[n].key]
    BY <1>1, <1>2, <1>e DEF LogEntry, n
  <2>2. /\ logOf' = [s \in SeqNos |->
                       IF record'[s] = Absent THEN Absent
                       ELSE [sequence |-> s, fragment |-> record'[s].output.source,
                             key |-> record'[s].key]]
        /\ logOf = [s \in SeqNos |->
                      IF record[s] = Absent THEN Absent
                      ELSE [sequence |-> s, fragment |-> record[s].output.source,
                            key |-> record[s].key]]
    BY DEF logOf
  <2> QED
    BY <1>1, <2>1, <2>2
<1>11. logOf[n] = Absent /\ openOf /\ openOf' = openOf /\ answeredOf' = answeredOf
  BY <1>1, <1>3 DEF logOf, openOf, answeredOf
<1>12. Log!Commit(e)
  <2>1. /\ openOf /\ e.sequence < MaxSegments /\ logOf[e.sequence] = Absent
        /\ \A s \in Log!Positions : s < e.sequence => logOf[s] # Absent
    BY <1>1, <1>7, <1>8, <1>11
  <2>2. e.sequence > 0 => Mfhd[e.fragment] = Mfhd[logOf[e.sequence - 1].fragment] + 1
    BY <1>7, <1>9
  <2>3. logOf' = [logOf EXCEPT ![e.sequence] = e] /\ UNCHANGED <<answeredOf, openOf>>
    BY <1>7, <1>10, <1>11
  <2> QED
    BY <2>1, <2>2, <2>3 DEF Log!Commit, logOf, answeredOf, openOf, LogEntry
<1> QED
  BY <1>12

(* A success answers only what the log holds.                              *)
LEMMA LogAnswers ==
  ASSUME IInv, NEW r \in Request, acked' = acked \cup {r},
         record' = record, status' = status,
         record[r.sequence] # Absent, record[r.sequence].key = r.key,
         record[r.sequence].output.source = r.source
  PROVE  \E e \in Log!Entry : Log!Answer(e)
<1>1. r.sequence \in SeqNos /\ LogEntry(r) \in Log!Entry
  BY DEF Request, SeqNos, LogEntry, Log!Entry, Log!Positions
<1>2. logOf[LogEntry(r).sequence] = LogEntry(r)
  BY <1>1, LogHolds DEF IInv, LogEntry
<1>3. /\ answeredOf' = answeredOf \cup {LogEntry(r)}
      /\ logOf' = logOf /\ openOf' = openOf
  BY DEF answeredOf, logOf, openOf, LogEntry
<1> QED
  BY <1>1, <1>2, <1>3 DEF Log!Answer, logOf, answeredOf, openOf, LogEntry

(* The answer of an append, first or repeated, is such a success.          *)
LEMMA AppendAnswers ==
  ASSUME IInv, \/ \E r \in Offers : AppendReplayed(r)
               \/ \E c \in Calls : CountFrames(c)
  PROVE  \E e \in Log!Entry : Log!Answer(e)
<1> USE DEF lifecycle, segments
<1>1. CASE \E r \in Offers : AppendReplayed(r)
  <2>1. PICK r \in Offers : AppendReplayed(r)
    BY <1>1
  <2>2. r \in Request /\ r.sequence \in SeqNos
    BY AppendAssumption DEF Request, SeqNos
  <2>3. /\ acked' = acked \cup {r} /\ record' = record /\ status' = status
        /\ record[r.sequence] # Absent /\ ledger[r.sequence] = EntryOf(r)
    BY <2>1 DEF AppendReplayed
  <2>4. EntryOf(r) \in Entry /\ EntryOf(r).key = r.key /\ EntryOf(r).source = r.source
    BY <2>2 DEF Request, EntryOf, Entry
  <2>5. /\ record[r.sequence].key = r.key
        /\ record[r.sequence].output.source = r.source
    BY <2>2, <2>3, <2>4, SentinelAssumption DEF IInv, Backed, LedgerBacked
  <2> QED
    BY <2>2, <2>3, <2>5, LogAnswers
<1>2. CASE \E c \in Calls : CountFrames(c)
  <2>1. PICK c \in Calls : CountFrames(c)
    BY <1>2
  <2> DEFINE r == call[c].request
  <2>2. /\ acked' = acked \cup {r} /\ record' = record /\ status' = status
        /\ At(c, "counters")
    BY <2>1 DEF CountFrames
  <2>3. Active(c) /\ call[c].step \in Written
    BY <2>2 DEF Active, Waiting, Written, At
  <2>4. /\ r \in Request /\ r.sequence \in SeqNos /\ r.key \in Keys
        /\ call[c].output \in Output /\ call[c].output.source = r.source
    BY <2>3, ActiveCall
  <2>5. record[r.sequence] = [key |-> r.key, output |-> call[c].output]
    BY <2>3 DEF IInv, CallsSound, CallSound, SameAsStored
  <2>6. [key |-> r.key, output |-> call[c].output] \in Record
    BY <2>4 DEF Record
  <2> HIDE DEF r
  <2> QED
    BY <2>2, <2>4, <2>5, <2>6, SentinelAssumption, LogAnswers
<1> QED
  BY <1>1, <1>2

(* Every step is a step of the log or invisible.                           *)
LEMMA LogStep ==
  IInv /\ [Next]_vars => [Log!Next]_<<logOf, answeredOf, openOf>>
<1> SUFFICES ASSUME IInv, [Next]_vars
             PROVE  Log!Next \/ UNCHANGED <<logOf, answeredOf, openOf>>
  OBVIOUS
<1>1. CASE \E c \in Calls : WriteSegment(c)
  BY <1>1, SegmentCommits DEF Log!Next
<1>2. CASE (\E r \in Offers : AppendReplayed(r)) \/ (\E c \in Calls : CountFrames(c))
  BY <1>2, AppendAnswers DEF Log!Next
<1>3. ASSUME \A c \in Calls : ~ WriteSegment(c), acked' = acked
      PROVE  Log!Next \/ UNCHANGED <<logOf, answeredOf, openOf>>
  <2>1. record' = record
    BY <1>3, EvidenceSteps, ReceiptWritten
  <2>2. UNCHANGED <<logOf, answeredOf>>
    BY <1>3, <2>1 DEF logOf, answeredOf
  <2>3. openOf' => openOf
    BY NeverReopens DEF openOf
  <2> QED
    BY <2>2, <2>3 DEF Log!Next, Log!Close, logOf, answeredOf, openOf, LogEntry
<1> QED
  BY <1>1, <1>2, <1>3, AnswerSteps

(* The worker, its queue, the retries and the deaths of the process are    *)
(* invisible: a protected session is an append-only log of fragments,      *)
(* filled once and in order, that answers only what it holds and takes     *)
(* nothing after it has left RUNNING.                                      *)
THEOREM AppendImplementsLog == Spec => ImplementsLog
BY LogInit, LogStep, AppendInvariant, PTL
DEF Spec, ImplementsLog, Log!Spec, logOf, answeredOf, openOf, LogEntry

-----------------------------------------------------------------------------
(***************************************************************************)
(* Part 6: what a protected session inherits from the log                  *)
(***************************************************************************)

Guarantee == INSTANCE SegmentLogProofs WITH
  Fragments <- Sources, log <- logOf, answered <- answeredOf, open <- openOf

\* The mapping fits the log's assumptions.
LEMMA LogShape == Guarantee!Shape
BY AppendAssumption, SentinelAssumption
DEF Guarantee!Shape, Guarantee!Entry, Guarantee!Positions, SeqNos

\* It is the mapping of the refinement.
LEMMA SameLog == Log!Spec => Guarantee!Spec
BY DEF Guarantee!Spec, Guarantee!Init, Guarantee!Next, Guarantee!Commit, Guarantee!Answer,
       Guarantee!Close, Guarantee!Entry, Guarantee!Positions, Log!Spec, Log!Init, Log!Next,
       Log!Commit, Log!Answer, Log!Close, Log!Entry, Log!Positions,
       logOf, answeredOf, openOf, LogEntry

(* What holds of every step of the session, besides its invariant.         *)
LEMMA LogGuarantees == Spec => [](IInv /\ Guarantee!Continuous /\ Guarantee!AnswersHeld)
<1>1. Guarantee!Spec => [](Guarantee!Continuous /\ Guarantee!AnswersHeld)
  BY LogShape, Guarantee!LogIsSound
<1> QED
  BY <1>1, SameLog, AppendInvariant, AppendImplementsLog, PTL DEF ImplementsLog

(* Whichever appends overtake each other while they wait for the worker,   *)
(* the protected fragments of a session were made from source fragments    *)
(* that follow one another in the encoder's numbering.                     *)
SourceContinuous ==
  \A s \in SeqNos : s > 0 /\ record[s] # Absent =>
    /\ record[s - 1] # Absent
    /\ Mfhd[record[s].output.source] = Mfhd[record[s - 1].output.source] + 1

THEOREM ProtectedIsContinuous == Spec => []SourceContinuous
<1>1. IInv /\ Guarantee!Continuous => SourceContinuous
  <2> SUFFICES ASSUME IInv, Guarantee!Continuous, NEW s \in SeqNos, s > 0, record[s] # Absent
               PROVE  /\ record[s - 1] # Absent
                      /\ Mfhd[record[s].output.source] = Mfhd[record[s - 1].output.source] + 1
    BY DEF SourceContinuous
  <2>1. s - 1 \in SeqNos /\ Guarantee!Positions = SeqNos /\ TypeOK
    BY AppendAssumption DEF IInv, SeqNos, Guarantee!Positions
  <2>2. logOf[s] # Absent /\ logOf[s].fragment = record[s].output.source
    BY <2>1, LogHolds
  <2>3. /\ logOf[s - 1] # Absent
        /\ Mfhd[logOf[s].fragment] = Mfhd[logOf[s - 1].fragment] + 1
    BY <2>1, <2>2 DEF Guarantee!Continuous
  <2>4. record[s - 1] # Absent
    BY <2>1, <2>3 DEF logOf
  <2>5. logOf[s - 1].fragment = record[s - 1].output.source
    BY <2>1, <2>4, LogHolds
  <2> QED
    BY <2>2, <2>3, <2>4, <2>5
<1> QED
  BY <1>1, LogGuarantees, PTL

(* Of the callers that offered different fragments, or the same under      *)
(* different keys, for one position, one at most is told that it is in.    *)
OneAnswer == \A q, r \in acked : q.sequence = r.sequence => q = r

THEOREM AnswersNeverConflict == Spec => []OneAnswer
<1>1. IInv /\ Guarantee!AnswersHeld => OneAnswer
  <2> SUFFICES ASSUME IInv, Guarantee!AnswersHeld,
                      NEW q \in acked, NEW r \in acked, q.sequence = r.sequence
               PROVE  q = r
    BY DEF OneAnswer
  <2>1. q \in Request /\ r \in Request
    BY DEF IInv, TypeOK
  <2>2. LogEntry(q) \in answeredOf /\ LogEntry(r) \in answeredOf
    BY DEF answeredOf
  <2>3. LogEntry(q) = LogEntry(r)
    BY <2>2 DEF Guarantee!AnswersHeld, LogEntry
  <2> QED
    BY <2>1, <2>3 DEF Request, LogEntry
<1> QED
  BY <1>1, LogGuarantees, PTL

(* What was recorded for a position stays there, with its source and its   *)
(* key, and nothing is recorded once the session has left RUNNING: an      *)
(* append that comes back late from the worker finds its place taken or    *)
(* the session ended.                                                      *)
THEOREM ProtectedRecordsAreFinal == Spec => Guarantee!EntriesAreFinal
<1>1. Guarantee!Spec => Guarantee!EntriesAreFinal
  BY LogShape, Guarantee!LogIsFinal
<1> QED
  BY <1>1, SameLog, AppendImplementsLog, PTL DEF ImplementsLog
=============================================================================
