------------------------- MODULE LiveProtectedAppend -------------------------
(***************************************************************************)
(* A protected live session before it ends: uploadInit of LiveProductStore *)
(* and startSession, appendSegment and the sample verification of          *)
(* LiveProductLifecycle, over the worker of LiveWatermarkWorkerManager.    *)
(*                                                                         *)
(* A protected append reads the session and the ledger of source           *)
(* fragments, gives up the processor until the worker has watermarked the  *)
(* fragment, and goes on with what it had read: it publishes the init      *)
(* file, appends the segment, its receipt in the rolling map and its       *)
(* ledger entry, and counts its frames.  While it waits other appends      *)
(* (retries of the same one among them), starts, late verifications and a  *)
(* stop run, the worker may fail or die, and the process may die at any    *)
(* time: between two awaits it may die between any two writes.             *)
(*                                                                         *)
(* Abstractions: an output is its source and how the encoder happened to   *)
(* write it (Variants); every fragment has one frame; the store's own      *)
(* append, shown in LiveSegmentStore, is its record and its session write, *)
(* and behind says that a journal names a record the session does not      *)
(* count; callers send the revision that is current; the end of a stop is  *)
(* that of LiveSessionEnd, in two steps.                                   *)
(***************************************************************************)
EXTENDS Naturals, Sequences, FiniteSets

CONSTANTS
  Calls,        \* appends that may be under way at a time
  Starts,       \* idempotency keys of starts
  Keys,         \* idempotency keys of appends
  Sources,      \* source fragments
  Offers,       \* the appends callers ask for
  Mfhd,         \* their sequence number inside
  Variants,     \* ways the encoder may write one fragment
  Verdicts,     \* outcomes of a verification, "EXACT_VERIFIED" among them
  MaxSegments,  \* limits.maxSegments
  SampleEvery,  \* LIVE_SAMPLE_VERIFICATION_EVERY_FRAGMENTS
  MaxQueue,     \* TANCMARK_LIVE_WATERMARK_MAX_QUEUE
  MaxCrashes,   \* bound: deaths of the process
  MaxFaults,    \* bound: failures of a worker
  Absent

ASSUME AppendAssumption ==
  /\ Mfhd \in [Sources -> Nat]
  /\ Offers \subseteq [sequence : 0 .. MaxSegments, source : Sources, key : Keys]
  /\ MaxSegments \in Nat /\ SampleEvery \in Nat \ {0} /\ MaxQueue \in Nat \ {0}
  /\ MaxCrashes \in Nat /\ MaxFaults \in Nat

VARIABLES
  status,        \* session.status
  startAttempt,  \* session.startAttempt: the key of the start that won
  startReceipt,  \* start-receipt.json
  rawInit,       \* how far raw-init.mp4, raw-init.json and the session got
  init,          \* the same for init.mp4 and init.json
  record,        \* the segment records, by sequence number
  next,          \* session.nextSegmentSequence
  behind,        \* a journal names a record the session does not count
  frames,        \* session.protectedFrameCount
  rolling,       \* rolling-map.json: its receipts
  sealed,        \* rolling-map.json is finalized
  ledger,        \* raw-idempotency.json, by sequence number
  verification,  \* session.liveVerificationState
  samples,       \* sample-verification.json
  call,          \* the appends under way
  queue,         \* the worker's queue
  worker,        \* the worker process
  verifier,      \* the worker process of the sample verification
  sampling,      \* fragments whose verification is under way
  starting,      \* the starts under way
  upload,        \* the next write of a running upload
  stopping,      \* how far a running stop is
  crashes, faults,
  acked,         \* appends answered with success (history)
  started,       \* starts answered with success (history)
  torn           \* the process died between the writes of an append (history)

lifecycle == <<status, startAttempt, startReceipt>>
inits     == <<rawInit, init>>
segments  == <<record, next, behind>>
seals     == <<frames, rolling, sealed, ledger>>
sampled   == <<verification, samples, verifier, sampling>>
working   == <<call, queue, worker>>
others    == <<starting, upload, stopping>>
history   == <<acked, started, torn>>
vars == <<lifecycle, inits, segments, seals, sampled, working, others,
          crashes, faults, history>>

(***************************************************************************)
(* Values                                                                  *)
(***************************************************************************)

SeqNos   == 0 .. MaxSegments
Output   == [source : Sources, variant : Variants]
Record   == [key : Keys, output : Output]
Receipt  == [sequence : SeqNos, offset : Nat, source : Sources, output : Output]
Entry    == [key : Keys, source : Sources]
Ledger   == [SeqNos -> Entry \cup {Absent}]
Request  == [sequence : SeqNos, source : Sources, key : Keys]
Progress == {"none", "file", "record", "known"}

\* The steps of an append; at the first three it waits and others run.
Waiting == {"idle", "queued", "orphan"}
Steps   == Waiting \cup {"publish", "init.record", "init.session", "segment",
                         "session", "map", "ledger", "counters"}

ASSUME SentinelAssumption ==
  Absent \notin Record \cup Entry \cup Request \cup Output \cup Starts \cup Ledger
                 \cup [sequence : SeqNos, fragment : Sources, key : Keys]

\* An append under way: its request, and what it had read before it waited.
NoCall   == [step |-> "idle", request |-> Absent, ledger |-> Absent,
             frames |-> 0, output |-> Absent]
Call     == [step : Steps, request : Request \cup {Absent},
             ledger : Ledger \cup {Absent}, frames : Nat,
             output : Output \cup {Absent}]
Empty    == [s \in SeqNos |-> Absent]

TypeOK ==
  /\ status \in {"READY", "RUNNING", "STOPPING", "STOPPED", "FAILED"}
  /\ startAttempt \in Starts \cup {Absent} /\ startReceipt \in Starts \cup {Absent}
  /\ rawInit \in Progress /\ init \in Progress
  /\ record \in [SeqNos -> Record \cup {Absent}]
  /\ next \in SeqNos /\ behind \in BOOLEAN
  /\ frames \in Nat /\ rolling \in Seq(Receipt) /\ sealed \in BOOLEAN
  /\ ledger \in Ledger
  /\ verification \in Verdicts \cup {"NOT_STARTED", "NOT_APPLICABLE", "PENDING", "FAILED"}
  /\ samples \subseteq [sequence : SeqNos, verdict : Verdicts]
  /\ call \in [Calls -> Call] /\ queue \in Seq(Calls)
  /\ worker \in {"none", "alive", "dead"} /\ verifier \in {"alive", "dead"}
  /\ sampling \subseteq SeqNos
  /\ starting \in [Starts -> {"idle", "waiting", "receipt"}]
  /\ upload \in {"idle", "record", "session"}
  /\ stopping \in {"no", "waiting", "verifying"}
  /\ crashes \in 0 .. MaxCrashes /\ faults \in 0 .. MaxFaults
  /\ acked \subseteq Request /\ started \subseteq Starts /\ torn \in BOOLEAN

Stored == {s \in SeqNos : record[s] # Absent}

\* No handler holds the processor.
Free == /\ \A c \in Calls : call[c].step \in Waiting
        /\ \A k \in Starts : starting[k] # "receipt"
        /\ upload = "idle"

At(c, step)   == call[c].step = step
Goto(c, step) == call' = [call EXCEPT ![c].step = step]
Return(c)     == call' = [call EXCEPT ![c] = NoCall]

-----------------------------------------------------------------------------
Init ==
  /\ status = "READY" /\ startAttempt = Absent /\ startReceipt = Absent
  /\ rawInit = "none" /\ init = "none"
  /\ record = [s \in SeqNos |-> Absent] /\ next = 0 /\ behind = FALSE
  /\ frames = 0 /\ rolling = <<>> /\ sealed = FALSE /\ ledger = Empty
  /\ verification = "NOT_STARTED" /\ samples = {}
  /\ call = [c \in Calls |-> NoCall] /\ queue = <<>>
  /\ worker = "none" /\ verifier = "alive" /\ sampling = {}
  /\ starting = [k \in Starts |-> "idle"] /\ upload = "idle" /\ stopping = "no"
  /\ crashes = 0 /\ faults = 0
  /\ acked = {} /\ started = {} /\ torn = FALSE

Fault == faults < MaxFaults /\ faults' = faults + 1

\* Mutant: the record is counted again.
CountedTwice == next + 1

\* What the session counts once a journal left behind is settled
\* (reconcileSegmentJournal).
Counted == IF behind THEN next + 1 ELSE next
Reconcile == next' = Counted /\ behind' = FALSE

(***************************************************************************)
(* The source's init file: the file, exclusively, its record, the session  *)
(***************************************************************************)

UploadInit ==
  /\ Free /\ status = "READY" /\ rawInit = "none"
  /\ rawInit' = "file" /\ upload' = "record"
  /\ UNCHANGED <<lifecycle, init, segments, seals, sampled, working, starting,
                 stopping, crashes, faults, history>>

UploadInitRecord ==
  /\ upload = "record"
  /\ rawInit' = "record" /\ upload' = "session"
  /\ UNCHANGED <<lifecycle, init, segments, seals, sampled, working, starting,
                 stopping, crashes, faults, history>>

UploadInitSession ==
  /\ upload = "session"
  /\ rawInit' = "known" /\ upload' = "idle"
  /\ UNCHANGED <<lifecycle, init, segments, seals, sampled, working, starting,
                 stopping, crashes, faults, history>>

(***************************************************************************)
(* Start                                                                   *)
(***************************************************************************)

\* A new start spawns the worker and waits until it answers a ping.
StartCall(k) ==
  /\ Free /\ starting[k] = "idle"
  /\ startReceipt = Absent /\ startAttempt = Absent
  /\ status = "READY" /\ rawInit = "known"
  /\ worker' = "alive"
  /\ starting' = [starting EXCEPT ![k] = "waiting"]
  /\ UNCHANGED <<lifecycle, inits, segments, seals, sampled, call, queue, upload,
                 stopping, crashes, faults, history>>

\* Mutant: the session may be RUNNING already.
StartReadyAnyway(k) ==
  /\ Free /\ starting[k] = "waiting" /\ worker = "alive"
  /\ status \in {"READY", "RUNNING"}
  /\ status' = "RUNNING" /\ startAttempt' = k
  /\ starting' = [starting EXCEPT ![k] = "receipt"]
  /\ UNCHANGED <<startReceipt, inits, segments, seals, sampled, working, upload,
                 stopping, crashes, faults, history>>

StartReady(k) ==
  /\ Free /\ starting[k] = "waiting" /\ worker = "alive"
  /\ status = "READY"
  /\ status' = "RUNNING" /\ startAttempt' = k
  /\ starting' = [starting EXCEPT ![k] = "receipt"]
  /\ UNCHANGED <<startReceipt, inits, segments, seals, sampled, working, upload,
                 stopping, crashes, faults, history>>

\* The worker is gone, or another start was first.
StartThrows(k) ==
  /\ Free /\ starting[k] = "waiting" /\ (worker # "alive" \/ status # "READY")
  /\ starting' = [starting EXCEPT ![k] = "idle"]
  /\ UNCHANGED <<lifecycle, inits, segments, seals, sampled, working, upload,
                 stopping, crashes, faults, history>>

WriteStartReceipt(k) ==
  /\ starting[k] = "receipt"
  /\ startReceipt' = k /\ started' = started \cup {k}
  /\ starting' = [starting EXCEPT ![k] = "idle"]
  /\ UNCHANGED <<status, startAttempt, inits, segments, seals, sampled, working,
                 upload, stopping, crashes, faults, acked, torn>>

\* A repeated start whose receipt is missing writes it; one that has it is
\* answered from it.
StartRetried(k) ==
  /\ Free /\ startReceipt = Absent /\ status = "RUNNING" /\ startAttempt = k
  /\ Reconcile
  /\ startReceipt' = k /\ started' = started \cup {k}
  /\ UNCHANGED <<status, startAttempt, inits, record, seals, sampled, working,
                 others, crashes, faults, acked, torn>>

StartReplayed(k) ==
  /\ Free /\ startReceipt = k
  /\ Reconcile
  /\ started' = started \cup {k}
  /\ UNCHANGED <<lifecycle, inits, record, seals, sampled, working, others,
                 crashes, faults, acked, torn>>

\* A health check settles the journal, and so does a start or a stop that
\* is refused.
HealthCheck ==
  /\ Free /\ behind /\ Reconcile
  /\ UNCHANGED <<lifecycle, inits, record, seals, sampled, working, others,
                 crashes, faults, history>>

(***************************************************************************)
(* An append, before it waits                                              *)
(***************************************************************************)

EntryOf(r) == [key |-> r.key, source |-> r.source]

\* The ledger answers a repeated append.
AppendReplayed(r) ==
  /\ Free /\ status = "RUNNING"
  /\ ledger[r.sequence] = EntryOf(r) /\ record[r.sequence] # Absent
  /\ acked' = acked \cup {r}
  /\ UNCHANGED <<lifecycle, inits, segments, seals, sampled, working, others,
                 crashes, faults, started, torn>>

\* Only the session's next fragment is taken up; a fragment that is taken up
\* joins the queue of a living worker, or of a new one.
AppendAccepted(c, r) ==
  /\ Free /\ At(c, "idle") /\ status = "RUNNING"
  /\ ledger[r.sequence] = Absent /\ r.sequence = next
  /\ Len(queue) < MaxQueue
  /\ worker' = "alive" /\ queue' = Append(queue, c)
  /\ call' = [call EXCEPT ![c] = [step |-> "queued", request |-> r, ledger |-> ledger,
                                  frames |-> frames, output |-> Absent]]
  /\ UNCHANGED <<lifecycle, inits, segments, seals, sampled, others,
                 crashes, faults, history>>

\* The catch of an append: a session that is still RUNNING fails.
Failed == status' = IF status = "RUNNING" THEN "FAILED" ELSE status

\* The worker's queue is full.
AppendOverflows(r) ==
  /\ Free /\ status = "RUNNING"
  /\ ledger[r.sequence] = Absent /\ r.sequence = next
  /\ Len(queue) >= MaxQueue
  /\ Failed
  /\ UNCHANGED <<startAttempt, startReceipt, inits, segments, seals, sampled,
                 working, others, crashes, faults, history>>

(***************************************************************************)
(* The worker: one fragment at a time, in the order of the queue           *)
(***************************************************************************)

WorkerAnswers(c, v) ==
  /\ Free /\ worker = "alive" /\ queue # <<>> /\ c = Head(queue)
  /\ queue' = Tail(queue)
  /\ call' = [call EXCEPT ![c].step = "publish",
                          ![c].output = [source |-> call[c].request.source, variant |-> v]]
  /\ UNCHANGED <<lifecycle, inits, segments, seals, sampled, worker, others,
                 crashes, faults, history>>

\* An error, or an output whose timeline or tracks are not the source's.
WorkerRefuses(c) ==
  /\ Free /\ worker = "alive" /\ queue # <<>> /\ c = Head(queue)
  /\ Fault
  /\ queue' = Tail(queue) /\ Failed /\ Return(c)
  /\ UNCHANGED <<startAttempt, startReceipt, inits, segments, seals, sampled,
                 worker, others, crashes, history>>

\* Mutant: what is queued is forgotten.
WorkerDiesSilently ==
  /\ Free /\ worker = "alive" /\ Fault
  /\ worker' = "dead" /\ queue' = <<>>
  /\ UNCHANGED <<call, lifecycle, inits, segments, seals, sampled, others, crashes, history>>

\* The worker exits, or is killed because a request timed out: everything in
\* its queue will be rejected.
WorkerDies ==
  /\ Free /\ worker = "alive" /\ Fault
  /\ worker' = "dead" /\ queue' = <<>>
  /\ call' = [c \in Calls |-> IF At(c, "queued") THEN [call[c] EXCEPT !.step = "orphan"]
                                                 ELSE call[c]]
  /\ UNCHANGED <<lifecycle, inits, segments, seals, sampled, others, crashes, history>>

OrphanRejected(c) ==
  /\ Free /\ At(c, "orphan") /\ Failed /\ Return(c)
  /\ UNCHANGED <<startAttempt, startReceipt, inits, segments, seals, sampled, queue,
                 worker, others, crashes, faults, history>>

(***************************************************************************)
(* An append, after the worker has answered: one action per write          *)
(***************************************************************************)

Throws(c) ==
  /\ Failed /\ Return(c)
  /\ UNCHANGED <<startAttempt, startReceipt, inits, segments, seals, sampled, queue,
                 worker, others, crashes, faults, history>>

\* publishProtectedInit: init.mp4 is created exclusively, so one that a crash
\* left without its record is in the way of every later append.
Publishable == status = "RUNNING" /\ init # "file"

PublishInit(c) ==
  /\ At(c, "publish") /\ Publishable
  /\ IF init = "none" THEN init' = "file" /\ Goto(c, "init.record")
                      ELSE UNCHANGED init /\ Goto(c, "segment")
  /\ UNCHANGED <<lifecycle, rawInit, segments, seals, sampled, queue, worker,
                 others, crashes, faults, history>>

PublishRefused(c) == At(c, "publish") /\ ~ Publishable /\ Throws(c)

\* A restarted encoder wrote an init that does not fit the published one.
PublishIncompatible(c) ==
  /\ At(c, "publish") /\ Publishable /\ init # "none" /\ Fault
  /\ Failed /\ Return(c)
  /\ UNCHANGED <<startAttempt, startReceipt, inits, segments, seals, sampled, queue,
                 worker, others, crashes, history>>

WriteInitRecord(c) ==
  /\ At(c, "init.record") /\ init' = "record" /\ Goto(c, "init.session")
  /\ UNCHANGED <<lifecycle, rawInit, segments, seals, sampled, queue, worker,
                 others, crashes, faults, history>>

WriteInitSession(c) ==
  /\ At(c, "init.session") /\ init' = "known" /\ Goto(c, "segment")
  /\ UNCHANGED <<lifecycle, rawInit, segments, seals, sampled, queue, worker,
                 others, crashes, faults, history>>

\* Mutant: fragments need not follow one another.
AcceptableAnyTimeline(r) == r.sequence = Counted /\ Counted < MaxSegments

\* The store's checks of a fragment it does not hold.
Acceptable(r) ==
  /\ r.sequence = Counted /\ Counted < MaxSegments
  /\ Counted > 0 => Mfhd[r.source] = Mfhd[record[Counted - 1].output.source] + 1

SameAsStored(c) ==
  record[call[c].request.sequence] = [key |-> call[c].request.key, output |-> call[c].output]

\* appendProtectedSegment takes the fragment, and later counts it.
WriteSegment(c) ==
  /\ At(c, "segment") /\ record[call[c].request.sequence] = Absent
  /\ Acceptable(call[c].request)
  /\ next' = Counted /\ behind' = TRUE
  /\ record' = [record EXCEPT ![call[c].request.sequence] =
                  [key |-> call[c].request.key, output |-> call[c].output]]
  /\ Goto(c, "session")
  /\ UNCHANGED <<lifecycle, inits, seals, sampled, queue, worker, others,
                 crashes, faults, history>>

CountSegment(c) ==
  /\ At(c, "session") /\ Reconcile /\ Goto(c, "map")
  /\ UNCHANGED <<lifecycle, inits, record, seals, sampled, queue, worker, others,
                 crashes, faults, history>>

\* The store holds this output under this key already.
SegmentDuplicate(c) ==
  /\ At(c, "segment") /\ SameAsStored(c) /\ Reconcile /\ Goto(c, "map")
  /\ UNCHANGED <<lifecycle, inits, record, seals, sampled, queue, worker, others,
                 crashes, faults, history>>

SegmentRefused(c) ==
  /\ At(c, "segment") /\ Reconcile
  /\ IF record[call[c].request.sequence] = Absent THEN ~ Acceptable(call[c].request)
                                                  ELSE ~ SameAsStored(c)
  /\ Failed /\ Return(c)
  /\ UNCHANGED <<startAttempt, startReceipt, inits, record, seals, sampled, queue,
                 worker, others, crashes, faults, history>>

\* Mutant: a receipt may be appended at any position.
ReceiptInAnyPlace(r) == ~ sealed

\* appendLiveRollingSealReceipt: the next receipt of a map that is open.
ReceiptInPlace(r) == ~ sealed /\ r.sequence = Len(rolling)

WriteReceipt(c) ==
  /\ At(c, "map") /\ ReceiptInPlace(call[c].request)
  /\ rolling' = Append(rolling, [sequence |-> call[c].request.sequence,
                                 offset |-> call[c].frames,
                                 source |-> call[c].request.source,
                                 output |-> call[c].output])
  /\ Goto(c, "ledger")
  /\ UNCHANGED <<lifecycle, inits, segments, frames, sealed, ledger, sampled, queue,
                 worker, others, crashes, faults, history>>

ReceiptRefused(c) ==
  At(c, "map") /\ ~ ReceiptInPlace(call[c].request) /\ Throws(c)

\* The ledger is replaced by what was read before the worker was awaited and
\* the new entry; one that was read as empty must not exist yet.
WriteLedger(c) ==
  /\ At(c, "ledger") /\ (call[c].ledger = Empty => ledger = Empty)
  /\ ledger' = [call[c].ledger EXCEPT ![call[c].request.sequence] = EntryOf(call[c].request)]
  /\ Goto(c, "counters")
  /\ UNCHANGED <<lifecycle, inits, segments, frames, rolling, sealed, sampled, queue,
                 worker, others, crashes, faults, history>>

LedgerRefused(c) ==
  At(c, "ledger") /\ call[c].ledger = Empty /\ ledger # Empty /\ Throws(c)

Sampled(s) == (s + 1) % SampleEvery = 0

\* The frames are counted from what was read before; every SampleEvery-th
\* fragment is verified later, by a worker of its own.
CountFrames(c) ==
  LET r == call[c].request IN
  /\ At(c, "counters")
  /\ frames' = call[c].frames + 1
  /\ IF Sampled(r.sequence)
     THEN /\ verification' = "PENDING" /\ verifier' = "alive"
          /\ sampling' = sampling \cup {r.sequence}
     ELSE UNCHANGED <<verification, verifier, sampling>>
  /\ acked' = acked \cup {r}
  /\ Return(c)
  /\ UNCHANGED <<lifecycle, inits, segments, rolling, sealed, ledger, samples, queue,
                 worker, others, crashes, faults, started, torn>>

(***************************************************************************)
(* The sample verification                                                 *)
(***************************************************************************)

\* Mutant: a late verdict is recorded whatever has become of the session.
RecordableAlways == TRUE

Recordable == status \in {"RUNNING", "STOPPING"}

\* Mutant: the verification may be answered again.
SampleVerifiedAgain(s, v) ==
  /\ Free /\ s \in sampling
  /\ samples' = samples \cup {[sequence |-> s, verdict |-> v]} /\ verification' = v
  /\ UNCHANGED <<lifecycle, inits, segments, seals, sampling, verifier, working, others,
                 crashes, faults, history>>

SampleVerified(s, v) ==
  /\ Free /\ s \in sampling
  /\ sampling' = sampling \ {s}
  /\ IF Recordable
     THEN samples' = samples \cup {[sequence |-> s, verdict |-> v]} /\ verification' = v
     ELSE UNCHANGED <<samples, verification>>
  /\ UNCHANGED <<lifecycle, inits, segments, seals, verifier, working, others,
                 crashes, faults, history>>

\* The verifier refuses the fragment, has died or has too much to do.
SampleFails(s) ==
  /\ Free /\ s \in sampling
  /\ sampling' = sampling \ {s}
  /\ verification' = IF Recordable THEN "FAILED" ELSE verification
  /\ UNCHANGED <<lifecycle, inits, segments, seals, samples, verifier, working, others,
                 crashes, faults, history>>

VerifierDies ==
  /\ Free /\ verifier = "alive" /\ sampling # {} /\ Fault
  /\ verifier' = "dead"
  /\ UNCHANGED <<lifecycle, inits, segments, seals, verification, samples, sampling,
                 working, others, crashes, history>>

(***************************************************************************)
(* Stop: it waits until both workers have done what is queued, seals the   *)
(* rolling map and waits for the final verification                        *)
(***************************************************************************)

StopCall ==
  /\ Free /\ status \in {"RUNNING", "STOPPING"} /\ stopping = "no"
  /\ Reconcile
  /\ status' = "STOPPING" /\ stopping' = "waiting"
  /\ UNCHANGED <<startAttempt, startReceipt, inits, record, seals, sampled, working,
                 starting, upload, crashes, faults, history>>

Idle == (worker = "alive" => queue = <<>>) /\ (verifier = "alive" => sampling = {})

StopSeals ==
  /\ Free /\ stopping = "waiting" /\ Idle
  /\ worker' = "none"
  /\ IF Stored = {} \/ init \in {"none", "file"}
     THEN status' = "FAILED" /\ stopping' = "no" /\ UNCHANGED sealed
     ELSE sealed' = TRUE /\ stopping' = "verifying" /\ UNCHANGED status
  /\ UNCHANGED <<startAttempt, startReceipt, inits, segments, frames, rolling, ledger,
                 sampled, call, queue, starting, upload, crashes, faults, history>>

StopEnds ==
  /\ Free /\ stopping = "verifying" /\ stopping' = "no"
  /\ \/ /\ status' = "STOPPED"
        /\ verification' = IF verification = "NOT_STARTED" THEN "NOT_APPLICABLE"
                                                           ELSE verification
     \/ status' = "FAILED" /\ UNCHANGED verification
  /\ UNCHANGED <<startAttempt, startReceipt, inits, segments, seals, samples, verifier,
                 sampling, working, starting, upload, crashes, faults, history>>

(***************************************************************************)
(* The process dies: what is in memory is gone                             *)
(***************************************************************************)

Crash ==
  /\ crashes < MaxCrashes /\ crashes' = crashes + 1
  /\ torn' = (torn \/ \E c \in Calls : call[c].step \notin Waiting)
  /\ call' = [c \in Calls |-> NoCall] /\ queue' = <<>>
  /\ worker' = "none" /\ verifier' = "alive" /\ sampling' = {}
  /\ starting' = [k \in Starts |-> "idle"] /\ upload' = "idle" /\ stopping' = "no"
  /\ UNCHANGED <<lifecycle, inits, segments, seals, verification, samples,
                 faults, acked, started>>

-----------------------------------------------------------------------------
Upload == UploadInit \/ UploadInitRecord \/ UploadInitSession

Start(k) == \/ StartCall(k) \/ StartReady(k) \/ StartThrows(k)
            \/ WriteStartReceipt(k) \/ StartRetried(k) \/ StartReplayed(k)

\* What a client asks for.
Ask(c, r) == AppendReplayed(r) \/ AppendAccepted(c, r) \/ AppendOverflows(r)

\* What the worker does with an append.
Work(c) == (\E v \in Variants : WorkerAnswers(c, v)) \/ WorkerRefuses(c) \/ OrphanRejected(c)

\* How an append goes on.
Continue(c) ==
  \/ PublishInit(c) \/ PublishRefused(c) \/ PublishIncompatible(c)
  \/ WriteInitRecord(c) \/ WriteInitSession(c)
  \/ WriteSegment(c) \/ CountSegment(c) \/ SegmentDuplicate(c) \/ SegmentRefused(c)
  \/ WriteReceipt(c) \/ ReceiptRefused(c) \/ WriteLedger(c) \/ LedgerRefused(c)
  \/ CountFrames(c)

Sample(s) == (\E v \in Verdicts : SampleVerified(s, v)) \/ SampleFails(s)

Stop == StopCall \/ StopSeals \/ StopEnds

Next ==
  \/ Upload \/ \E k \in Starts : Start(k)
  \/ \E c \in Calls, r \in Offers : Ask(c, r)
  \/ \E c \in Calls : Work(c) \/ Continue(c)
  \/ WorkerDies \/ \E s \in SeqNos : Sample(s)
  \/ VerifierDies \/ Stop \/ HealthCheck \/ Crash

Spec == Init /\ [][Next]_vars

\* What goes on without a client: the process, up to where it waits, its
\* workers, and a stop that has nothing left to wait for.
Proceed ==
  \/ UploadInitRecord \/ UploadInitSession
  \/ \E k \in Starts : WriteStartReceipt(k)
  \/ \E c \in Calls : Continue(c) \/ Work(c)
  \/ \E s \in SeqNos : Sample(s)
  \/ StopSeals \/ StopEnds

(***************************************************************************)
(* The process goes on with what it has begun unless it dies; a worker     *)
(* answers, fails, or is killed because its request timed out.  As long as *)
(* any of this is left to do some of it is done.                           *)
(***************************************************************************)
FairSpec == Spec /\ WF_vars(Proceed)

(***************************************************************************)
(* Properties                                                              *)
(***************************************************************************)

\* The receipt, the record and the ledger entry of one position agree.
Agree(s) ==
  /\ record[s] # Absent
  /\ rolling[s + 1].source = record[s].output.source
  /\ rolling[s + 1].output = record[s].output

(* The rolling map never speaks for a segment that is not stored, nor for  *)
(* another output or source than the stored one, and an append that was    *)
(* answered is stored under its key and has its receipt for ever, whatever *)
(* was retried, whoever else was waiting for the worker and wherever the   *)
(* process died (appendSegment: segment first, receipt next).              *)
ReceiptsAreBacked ==
  /\ \A i \in 1 .. Len(rolling) : rolling[i].sequence = i - 1 /\ Agree(i - 1)
  /\ \A r \in acked :
       /\ r.sequence < Len(rolling)
       /\ record[r.sequence].key = r.key /\ record[r.sequence].output.source = r.source

(* While a session runs that no death of the process caught between the    *)
(* writes of an append, the segments, their receipts, the ledger and the   *)
(* frame counter agree whenever no handler runs, and frame ranges of the   *)
(* receipts neither overlap nor leave gaps: what an append read before it  *)
(* waited was not stale, or the append failed.                             *)
RunningAgrees ==
  ~ torn /\ status = "RUNNING" /\ Free =>
    /\ ~ behind /\ next = Len(rolling) /\ frames = Len(rolling)
    /\ \A s \in SeqNos : (record[s] # Absent <=> s < next)
                         /\ (ledger[s] # Absent <=> s < next)
    /\ \A i \in 1 .. Len(rolling) : rolling[i].offset = i - 1

(* One start wins: the others are refused although all of them passed the  *)
(* checks before they waited for the worker, and only the winner is        *)
(* answered, also after a death between its transition and its receipt.    *)
OneStart == started \subseteq {startAttempt} /\ startReceipt \in {Absent, startAttempt}

(* A session shows a sample as exact only if a verification of a stored    *)
(* fragment found it so, and records at most one verdict per fragment.     *)
SamplesAreReal ==
  /\ verification = "EXACT_VERIFIED" => \E x \in samples : x.verdict = "EXACT_VERIFIED"
  /\ \A x \in samples : record[x.sequence] # Absent /\ Sampled(x.sequence)
  /\ \A x, y \in samples : x.sequence = y.sequence => x = y

(* Once the rolling map is sealed, and once a session has stopped or       *)
(* failed, no append that was still waiting and no late verdict changes    *)
(* what the evidence speaks of.                                            *)
EndIsFinal ==
  [][ /\ sealed => UNCHANGED <<record, rolling, ledger, frames, sealed>>
      /\ status \in {"STOPPED", "FAILED"} =>
           UNCHANGED <<status, record, rolling, ledger, samples, verification>> ]_vars

(* Every append and every stop that is taken up comes to an end, also when *)
(* the worker dies under it or the session has ended meanwhile (requests   *)
(* have timeouts; a stop waits for the queues of both workers).            *)
CallsReturn == []<>((\A c \in Calls : At(c, "idle")) /\ stopping = "no")

(* Watermarking, its queue and its retries keep the promise of the segment *)
(* store: an append-only log of source fragments (SegmentLog).             *)
Log == INSTANCE SegmentLog WITH
  Fragments <- Sources,
  log <- [s \in SeqNos |-> IF record[s] = Absent THEN Absent
                           ELSE [sequence |-> s, fragment |-> record[s].output.source,
                                 key |-> record[s].key]],
  answered <- {[sequence |-> r.sequence, fragment |-> r.source, key |-> r.key] : r \in acked},
  open <- status \in {"READY", "RUNNING"}

ImplementsLog == Log!Spec

(* Claimed by the product guide (idempotent receipts recover the gaps      *)
(* between an output and its receipt): an append that was answered stays   *)
(* in the ledger that answers its retries.                                 *)
AnsweredStaysInLedger == \A r \in acked : ledger[r.sequence] = EntryOf(r)
=============================================================================
