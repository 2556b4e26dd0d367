# Verification of TancMark's stateful core

TancMark is a watermarking toolkit: media engines that embed and recover
identifiers, and around them an API server that keeps records. Most of the
repository computes (signal processing, codecs, report builders) or is generated;
what can go wrong in ways a test hardly reaches is concentrated in the parts of
`artifacts/api-server/src` that keep state over time: the local live-streaming
product, the learning queue, the timestamp anchoring, and in the demo server. This
directory models those parts in TLA+, checks them with TLC on small instances and
proves the central results with TLAPS.

Paths below are relative to the repository; `live/` stands for
`artifacts/api-server/src/live/` and `lib/` for `artifacts/api-server/src/lib/`.

## 1. Inventory

### The live product

One Node process serves it; an exclusive lease (`live/liveProcessLease.ts`) keeps a
second process off the same store. Everything durable is a file under a managed root.

| Component | State | Operations | Interacts with |
|---|---|---|---|
| **Segment store** `live/liveProductStore.ts` | per session: `session.json`, `segment-<n>.json`, `media/segments/*`, `segment-journal.json`, `events.ndjson`, `media/manifest.m3u8`, the recording, receipts, evidence | create, init upload, append, reconcile, transition, finalize, evidence, inventory, purge | called by the lifecycle; synchronous, each method is a chain of file writes |
| **Lifecycle** `live/liveProductLifecycle.ts` | the status of a session (DRAFT .. PURGED), idempotency receipts, the append ledger | create, start, append, stop, plan and execute cleanup, sample verification | store, worker pool, grants, rolling seal map, final verification; awaits the worker, so operations interleave there |
| **Worker pool** `live/liveWatermarkWorker.ts` | one child process per protected session, a bounded request queue, timers | ensure ready, process a fragment, stop, shut down | a Python process over stdin and stdout |
| **Rolling seal map, seal binding, final verification** `live/liveRollingSealMap.ts`, `live/liveSessionSealBinding.ts`, `live/liveAutomaticExactVerification.ts` | a hash chain of rows per session; signed map and decision files | append, finalize, verify | lifecycle |
| **Playback grants** `live/livePlaybackGrantStore.ts`, `live/livePlaybackTokenV1.ts` | an access file per session (epoch, grants, used token ids), a global index of grants | exchange a token, authorize, revoke one, revoke all | routes; the lifecycle revokes all on a stop |
| **Routes and start-up** `routes/liveLocalProduct.ts`, `live/liveLocalRuntime.ts` | none of their own | HTTP handlers, wiring, recovery at boot | all of the above |

What makes it correct: an answered segment is never lost; the segment records form
one gap-free hash chain that the session's counters agree with; a playlist lists
only fetchable segments; no crash leaves untracked media; after a stop nothing more
is recorded and what was recorded is what the final artifacts are made of; a retry
of any operation gives the first answer; a revoked viewer sees nothing more.

Hard behaviours: a crash between any two writes, a full disk, a retry racing the
first attempt across an `await`, a stop racing an append that waits for the worker,
late answers of the worker.

### Learning

| Component | State | Operations |
|---|---|---|
| **Learning queue** `lib/distributedLearningRuntime.ts` | jobs with leases, attempts and retry times, a list of pending jobs with a cursor, results, a snapshot | enqueue, lease the next, heartbeat, complete, fail, shut down, snapshot, resume |
| **Learning memory and apply gate** `lib/learningDnaMemory.ts`, `lib/learningRecordStore.ts`, `lib/canonicalDnaControlPlane.ts`, `lib/humanApprovedImprovementProposal.ts` | records, consumed approvals | advice computed from records, one synchronous check and application |

What makes the queue correct: one worker at a time owns a job, no pending job is lost
or listed twice, attempts stay within their limit, a job ends once, also when the queue
is resumed from an older snapshot while workers still run, and every job ends.

### Timestamps

| Component | State | Operations |
|---|---|---|
| **Timestamp anchoring** `lib/timestampSubmit.ts`, `lib/timestampSweeper.ts`, `lib/timestampUpgrade.ts`, `lib/vaultOtsMirror.ts`, `routes/timestamp.ts` | a database row per reference (digest, receipts, anchored), the vault anchors with a copy of the proof, an advisory lock, audit events | submit, sweep, upgrade on request, mirror |

Several server processes share the database, and every SQL statement and every request
to a calendar is awaited. What makes it correct: one row per reference whoever submits,
the anchoring announced once, a flag that covers the receipts beside it, in the vault only
proofs of digests that a row backs, and a lock that follows the sweeps. Whether a calendar's
answer really is a Bitcoin proof is not among it: the code goes by its length
(`lib/aegis-core/src/legalTimestamp.ts`, lines 147-160), and so does the model.

### The demo server

| Component | State | Operations |
|---|---|---|
| **Demo server** `artifacts/tancmark-demo/src/server.ts`, `liveDemoController.ts`, `liveDemoPipeline.ts`, `c2paDemo.ts`, `demoEngine.ts` | a gate with two counters, browser sessions, the state of one live demo, rows and work directories | heavy runs (audio, video, C2PA), start and stop of the live demo, reset, session eviction, shutdown |

What makes it correct: the calls of the gate and the live demo exclude each other (a run
whose call timed out goes on beside the demo), the gate's places are given back on every
way out of a call, nobody takes the files of a running live demo away, and what has ended
leaves no files.

### Elsewhere

The other components keep no state between calls, or change it in one synchronous step
(rate limits, the apply gate), or run as one straight pipeline over their own data (the
discovery worker). They are listed with these reasons in `PROJECT.json`.

The hazards of all components, line by line, are the `hazards` of `PROJECT.json`.

## 2. Plan

Done, in the order of the plan:

1. `LiveSegmentStore`, the append and its recovery, with the abstract `SegmentLog`,
   progress and proofs.
2. `PlaybackGrants`, tokens and grants, with the abstract `PlaybackAccess` and proofs.
3. `LiveSessionEnd`, the stop pipeline with its awaits, the final verification and
   the cleanup, with the abstract `SessionOutcome` and proofs.
4. `LiveProtectedAppend`: initialisation uploads, start, the protected append over the
   worker pool, the rolling map and the sample verification. It meets 1 at the abstract
   `SegmentLog`, which it implements as well, and 3 at the steps of the stop; with proofs.
5. `LearningQueue` with the abstract `LearningJobs` and proofs.
6. `TimestampAnchoring` with the abstract `TimestampLifecycle` and proofs.
7. `DemoServer` with proofs.

Left: admission of several sessions to the worker pool, and references other than
vault anchors.

## 3. Modules

| Module | What it is |
|---|---|
| `LiveSegmentStore` | the append, its journal, the reconcile, the stop's first step, crashes and full disks |
| `SegmentLog` | abstract: an append-only log without gaps |
| `SegmentLogProofs` | TLAPS proofs of what the log guarantees whoever implements it |
| `LiveSegmentStoreProgress` | the store with a process that dies only finitely often |
| `LiveSegmentStoreProofs` | TLAPS proofs about `LiveSegmentStore` |
| `PlaybackGrants` | tokens, grants, revocation, waiting playlist requests, a clock that is set back |
| `PlaybackAccess` | abstract: who has been let in, who is barred, who is served |
| `PlaybackGrantsProofs` | TLAPS proofs about `PlaybackGrants` |
| `LiveSessionEnd` | stop, final verification, cleanup plan and cleanup |
| `SessionOutcome` | abstract: the phases a session ends through, its receipt, its watchability |
| `LiveSessionEndProofs` | TLAPS proofs about `LiveSessionEnd` |
| `LiveProtectedAppend` | uploads, start, protected append, worker, rolling map, sample verification |
| `LiveProtectedAppendProofs` | TLAPS proofs about `LiveProtectedAppend` |
| `LearningQueue` | the learning queue, one turn of `leaseNext` at a time |
| `LearningJobs` | abstract: attempts and outcome of a job, snapshot and resume |
| `LearningQueueProofs` | TLAPS proofs about `LearningQueue` |
| `TimestampAnchoring` | submissions, sweeps page by page, upgrades and mirrors of several references, over several instances |
| `TimestampLifecycle` | abstract: a record is submitted, anchored and told of once |
| `TimestampAnchoringProofs` | TLAPS proofs about `TimestampAnchoring` |
| `DemoServer` | the gate, the sessions, live demos with their preparation and preview, the reset and the end of the process |
| `DemoServerProofs` | TLAPS proofs about `DemoServer` |
| `MC*` | instances for TLC: values of constants, symmetry |

Conventions. One action is one file write (or one step between two awaits); `pc`, or
the step of a call, names the next write. A file that the code writes with
`atomicJson` (temporary file, then rename) is written as a whole or not at all when the
process dies; a file it writes in place can be left partial. There is no fsync, so a loss
of power is not covered: a crash is the death of the process, and what it wrote is there
afterwards. `Crash` clears what is in memory and keeps
the files. Node runs one handler at a time: another operation runs only where the code
awaits, which is written as the guard `Free` or `pc = "idle"`. Variables marked
*history* record answers that were given; no action reads them. An operator named after
an action with a suffix, commented "Mutant", is a plausible bug: it is not part of the
specification, and shows that a property can fail.

### 3.1 LiveSegmentStore

State: `session` is `session.json` (the fields the append uses), `record` the
`segment-<n>.json` files, `media` and `temporary` the two names a media file goes
through, `journal` is `segment-journal.json`, `eventsOk` says that `events.ndjson`
still parses, `manifest` is what the live playlist lists.

| Actions | Code |
|---|---|
| `AppendCall`, `StopCall`, `HealthCall` | the entry points, each of which reconciles first |
| `ReconcileNone`, `RollBackMedia/Journal/Event`, `ReconcileRefused`, `CommitJournal/Session/Event` | `reconcileSegmentJournal` |
| `AppendRefused`, `AppendDuplicate`, `AppendAccepted` | the checks of `appendSegmentInternal` |
| `WriteJournal`, `WriteTemporary`, `RenameMedia`, `WriteRecord`, `WriteSession`, `WriteEvent`, `RemoveJournal`, `WriteManifest` | its writes, in order |
| `UndoMedia`, `UndoRecord`, `UndoJournal`, `WriteFailed` | its catch, and the lifecycle's |
| `Full*` | a write that finds the disk full (`FaultSpec`) |

Abstractions: SHA-256 is injective, so a chain head is the list of segments it covers;
a fragment is its content and its sequence number inside (`Mfhd`).

### 3.2 PlaybackGrants

State: `session` (status and epoch), `token` (tokens issued), `consumed` and `grant`
(the per-session `access.json`), `index` (`access-index.json`, shared), `clock`, and
the playlist requests and stops that wait. Each handler writes `access.json`, then the
index, then an event; the process may die in between. `StopSession` waits for its
worker after it has revoked; `PlaylistWait` waits for the next segment with a grant
that was authorized before.

| Actions | Code |
|---|---|
| `IssueToken`, `Fetch`, `PlaylistWait`, `PlaylistAnswer` | `routes/liveLocalProduct.ts` |
| `ExchangeAccess/Index/Answer` | `consumeExchangeAndCreateGrant` |
| `RevokeGrantAccess/Index/Answer` | `revokeGrant` |
| `RevokeSession`, `StopSession`, `RevokeAllAccess/Index/Answer`, `StopAnswer`, `Close` | `revokeSessionPlayback`, `stopSession`, `revokeAllForSession` |

Abstractions: `accessRevision` and `tokenEpoch` only move together and are one epoch; a
token is its `jti`, and only tokens that were issued verify.

### 3.3 LiveSessionEnd

State: `session` is `session.json` (mode, status, the two attempts, the receipt and
what the finalizers record), `files` the set of the session's files on disk, `verdict`
the content of `final-verification.json`, `plan` and `cleanupReceipt` the two cleanup
files, `torn` that a line of `events.ndjson` is cut short, `call` the stop calls under way
with the next thing each writes.

| Actions | Code |
|---|---|
| `StopReplayed`, `StopAccepted`, `StopAcceptFails` | the receipt and attempt checks of `stopSession`, and its first writes |
| `WorkerStopped`, `WriteSignedMap`, `SignedMapExists`, `Verify`, `VerificationBreaks` | what runs after an await: the worker's end, `createAndVerifyLiveFinalExact` |
| `RefuseManifest`, `FinalizeManifest`, `RecordManifest` | `finalizeManifest` |
| `RefuseRecording`, `ReuseRecording`, `ReusePartial`, `BeginCopy`, `EndCopy`, `RenameCopy`, `RecordRecording`, `NoRoomForCopy` | `finalizeRecording` |
| `RecordPending`, `RecordExact`, `RefuseVerdict`, `RemovePrivateIngest`, `WriteFile`, `RecordStopped` | the rest of `stopSession`; `WriteFile` is any write of the chain that nothing can refuse, `Following` its order |
| `Catch`, `SessionAfterError` | the catch of `stopSession`, which changes the session once more |
| `Transition`, `ThenLog`, `WriteFails`, `EventCutShort` | `transitionSession` and `appendEvent`: `session.json` is written first, then a line of the event log, which a full disk can cut short; every later change of the session is then written and throws, because the log is read before each line |
| `PlanCleanup`, `PlanExpires`, `Cleanup*` (`CleanupFails`: a full disk), `Purge*`, `WriteCleanupReceipt`, `RecordPurged` | `planCleanup`, `executeCleanup`, `purgeManagedMedia` |
| `AppendFails`, `RevokePlayback` | what else changes the status or the revision |

Two failures last: a torn event log, and a quota that refuses the copy of the recording
(`QuotaRefuses`, as often as the stop is repeated). A cut that takes only the newline of a
line is left out: the next line then joins it, and the log is torn one line later.

It takes from the other two what they show: no segment record changes after a stop has
begun (`RecordsOnlyGrow`, `StoppedIsSettled`), and grants are revoked by the step that
accepts the stop (`RevocationIsFinal`).

### 3.4 LiveProtectedAppend

State: `status`, `startAttempt`, `startReceipt` of the session; `rawInit` and `init`, how
far the two initialisation files got (file, record, session); `record`, `next` and
`behind` (a journal names a record the session does not count); `rolling` and `sealed`,
the rolling map; `ledger`, the entries of `raw-idempotency.json`; `frames`;
`verification` and `samples`; `call`, the appends under way with what each had read
before it waited; `queue`, `worker`, `verifier` and `sampling`, the two worker processes
and their queues; `starting`, `upload` and `stopping`.

| Actions | Code |
|---|---|
| `UploadInit`, `UploadInitRecord`, `UploadInitSession` | `uploadInit` |
| `StartCall`, `StartReady`, `StartThrows`, `WriteStartReceipt`, `StartRetried`, `StartReplayed` | `startSession` |
| `AppendAccepted`, `AppendReplayed`, `AppendOverflows` | `appendSegment` up to its await, `enqueue` of the worker |
| `WorkerAnswers`, `WorkerRefuses`, `WorkerDies`, `OrphanRejected`, `VerifierDies` | the worker's process and its pending requests |
| `PublishInit`, `PublishRefused`, `PublishIncompatible`, `WriteInitRecord`, `WriteInitSession` | `publishProtectedInit` |
| `WriteSegment`, `CountSegment`, `SegmentDuplicate`, `SegmentRefused` | `appendProtectedSegment`, whose writes `LiveSegmentStore` models one by one |
| `WriteReceipt`, `ReceiptRefused`, `WriteLedger`, `LedgerRefused`, `CountFrames`, `Throws` | the rest of `appendSegment` and its catch |
| `SampleVerified`, `SampleFails` | `scheduleLiveSampleVerification` |
| `Reconcile`, `HealthCheck` | `reconcileSegmentJournal` and who calls it between two appends |
| `StopCall`, `StopSeals`, `StopEnds` | the stop as far as an append can meet it |

An append waits in three states (for the worker, for a worker that has died, before it
is taken up); everything after the worker's answer runs without an await, but the
process may die between any two of its writes. An output is its source and a variant,
since the encoder need not write the same bytes twice: this is what makes a retry after
a crash differ from the first attempt.

### 3.5 LearningQueue

State: `jobs`, `results`; `waiting`, the list of pending jobs from the cursor on;
`leasing`, a running `leaseNext`; `saved`, the snapshot. `belief` is what workers
believe of their leases, which only `OneHolder` reads. Times are what is left until
them, and `Tick` lets one unit pass.

| Actions | Code |
|---|---|
| `Enqueue`, `Heartbeat`, `Complete`, `Fail`, `Shutdown`, `Snapshot`, `Resume` | the methods of that name |
| `LeaseCall`, `Skip`, `TakePending`, `TakeExpired`, `LeaseNothing`, with `Grant` and `Bury` | `leaseNext`: its call, the turns of its scan, what it finds |

### 3.6 TimestampAnchoring

State: `row`, the timestamp record of each reference; `anchor`, the vault row of each
tenant (the reference it belongs to now, the digest, the copy of the proof); `submit` and
`call`, how far the submissions and the upgrades (of sweepers and of operators) are, a
sweep's with the rest of its page; `mirroring`, the mirrors nobody awaits; `lock`, whose
session holds the sweepers' advisory lock, and `leaked`, that a failed unlock left it to
an idle client of the pool; `audits`.

| Actions | Code |
|---|---|
| `Cloak` | the vault anchor's upsert in `routes/aegis.ts`, which may move the row to another reference |
| `SubmitAt`, `Lookup`, `Insert`, `LoseInsert`, `MirrorPending` | `submitTimestampFireAndForget` |
| `SweepStarts`, `NextRow`, `Unlock` | `runSweepOnce`: lock and page, one row after the other, the finally |
| `OperatorStarts` | the upgrade route |
| `Ask` with `Upgraded`, `Flip`, `LoseFlip`, `Refresh`, `Announce`, `UpgradeFails` | `upgradeOneRow` and the calendars' answers |
| `MirrorAnchored` | `mirrorVaultOtsProof` |
| `SubmitFails`, `MirrorFails`, `UnlockFails`, `LockLost`, `PoolEndsClient`, `Crash` | a statement that fails, a connection that drops, an instance that dies |

A calendar answers with a body of any length whether or not it has anchored anything, and
a body longer than the proof of the row as it was read counts as the Bitcoin proof, as in
`upgradeReceipt`. A length is counted in steps of more than 16 bytes. What a calendar
answers depends on nothing in the model, so `Ask` draws the answers when the copy is taken
and they wait in the call until they are written; everything may happen in between.

### 3.7 DemoServer

State: `sessions`, the browser sessions in order of age; `calls`, how far each POST is;
`active` and `queued`, the gate's counters; `live`, the state of the controller; `pipes`,
the demos whose pipeline has not settled; `previews`, those whose playback promise is
pending; `files`, the operations whose row and work directory exist, and `abandoned`, that
a preparation failed and left its directory; `process`, and `awaited`, the demo a shutdown
waits for.

| Actions | Code |
|---|---|
| `OpenSession`, `Expire` | `issueSession`, `pruneSessions` |
| `Read`, `Refuse` | the checks before a POST's body is awaited, a body that is refused |
| `Enter`, `Wait`, `Poll`, `Finish`, `GiveUp`, `LooseEnds` | `HeavyGate.run` around `withTimeout`; an operation that was given up runs on and ends later |
| `FinishUnprepared`, `SettleUnprepared` | `c2paDemo.ts`, lines 23-30, and `liveDemoPipeline.ts`, lines 56-89: a throw between `mkdtemp` and the `try` |
| `Start`, `Stop`, `StopReturns`, `Settle` | `LiveDemoController` and the end of its pipeline |
| `Preview`, `Die` | the playback promise of `liveDemoPipeline.ts`, line 170: fulfilled, or rejected while its pipeline does not await it, which ends the process |
| `Reset`, `Signal`, `Shutdown`, `HardStop` | the reset route, the shutdown |

The stops that wait for a pipeline return in the drain of the event loop in which it
settles (`Settle`). A stop of a demo that has ended before awaits a promise that is settled
already; what was sent behind it on the same socket may run before it goes on
(`StopReturns`), a start among it, whose state it then clears.

## 4. Runs

| Run | Question | Bounds |
|---|---|---|
| `segment_store` | do answered segments, the chain, the counters, the playlist and the media survive a crash between any two writes, do the files implement `SegmentLog`, and is an interrupted append settled? | three consecutive fragments for two positions, so one can be refused, skipped or reordered; two keys, so a retry can be the same request or another; three file names, one more than is ever in use |
| `segment_store_full` | what holds when any write may also find the disk full? | four file names, since an undo can leave one behind; names are symmetric |
| `playback_grants` | are revocations final and other viewers left in, with two sessions in one index, and does a token buy one grant although used tokens are forgotten? | two tokens, a third grant for the token that must not be exchanged twice, one waiting request, an epoch that moves once; a used token is forgotten as soon as it has expired and the clock is set back by one unit, which is as tight as the assumption allows |
| `session_end` | is a receipt backed by what is on disk, is only the recorded attempt answered, is a decision taken once, is `SessionOutcome` implemented, and does a stop that is repeated come to an end? | two calls at a time under two keys (more calls can only repeat what two do: they share all state but their step), two cleanup keys, both modes, every verdict, one crash, two full disks (one to tear the event log, one more), a quota that may refuse any number of times |
| `protected_append` | do records, receipts, ledger and frames of a protected session agree while appends, starts, verifications and a stop overlap, and does every call come back? | two appends at a time, offered three times under two keys and out of place, two starts, encodings that differ from one attempt to the next, a queue of two, one crash and one worker that dies |
| `learning_queue` | is a lease exclusive, is no job lost or leased twice, does every job end, is `LearningJobs` implemented? | two jobs, two keys, two workers, two attempts, a lease that outlives a retry delay by one unit, one resume from an older snapshot |
| `timestamps` | does the flag cover the receipts, is what the vault shows backed, does the lock follow the sweeps, is the anchoring announced once, and does it reach the vault? | two instances and an operator, so three upgrades race; two references and two digests, so a cloak replaces an anchor under the same reference or moves it to the other; a page of one row, so the other starves; one tenant and one calendar (the proofs are for any number); lengths 0 and 1, so an answer is nothing, as long as the receipt or longer than a row without one; one fault of any kind |
| `demo_server` | do gate, live demo and files agree? | three requests for a gate of one place and a queue of one: one runs, one waits, one is refused or runs on after its timeout; two demos, so one can start while the state of the other is cleared; two browsers and room for one session, so that sessions are evicted |

Runs that find a violation, with the finding each shows:

| Run | Property | Finding |
|---|---|---|
| `crash_in_reconcile` | `SettledIsCounted` | the reconcile removes the journal before it counts the record |
| `stop_interrupted` | `FailsOnVerdictOnly` | a crash between the signed map and the verdict makes the repeated stop fail the session |
| `append_overlap` | `AnsweredStaysInLedger` | after a crash, two appends wait for the worker with the same copy of the ledger, and the second drops the entry of the first |
| `stale_upgrade` | `AnchoredKeepsProof` | an upgrade that was answered before the anchoring overwrites the full proof of an anchored row |

`FailsOnVerdictOnly` fails in two more ways, which the same configuration shows with
other bounds: two overlapping calls of one stop (`Calls = {c1, c2}`, no crash), where
the second meets the signed map of the first, and a disk that is full once
(`MaxFull = 1`, no crash). The configuration leaves the refusing quota out
(`QuotaRefuses = FALSE`), so that the crash is what it shows.

`SessionOutcome` has an action `Overtaken`, which the promise would be simpler without: the stop of a session that failed on its verdict,
repeated, takes a pending cleanup back to STOPPING, since CLEANUP_PENDING is also the
status of a failed stop (`liveProductLifecycle.ts`, line 348).
`CleanupAnswersHold` shows that nothing the cleanup has answered becomes false; what an
unanswered one can come to is said below.

What a reader might expect, does not hold and is not claimed:

- *Store.* With a full disk, the undo of an append removes the files of a segment the
  session counts already (`liveProductStore.ts`, line 775), so `CountedAreStored` is proved
  for a disk that has room. A crash after `recording.json` leaves the recording out of the
  quota (line 974).
- *Stop.* While a line of `events.ndjson` stays cut short (`liveProductStore.ts`, lines
  796, 815 and 824), every change of the session is written and then throws: a transport-only
  stop that is repeated goes from STOPPING to CLEANUP_PENDING and back for ever, a protected
  one fails. The same happens when a quota refuses the recording at each repeat (line 951).
  `StopSettles` names the two as its exceptions; without either exception TLC
  finds it violated.
- *Cleanup.* A crash after the cleanup receipt leaves an answered session CLEANUP_PENDING
  (`liveProductLifecycle.ts`, line 484). A cleanup whose receipt could not be written, of a
  session that failed on its verdict, can be overtaken by the repeated stop: if an older
  call of that stop still awaits its verification and is told that it is exact, the session
  becomes STOPPED, with a receipt, although its media is gone. `ReceiptIsBacked` and
  `SessionOutcome` (`Overtaken`) say so.
- *Demo.* A heavy run that timed out goes on beside the next one and beside the live demo
  (`server.ts`, line 386), so `GateAgrees` speaks of calls. A stop of a demo that has
  ended can clear the state of the next one, which was started behind it on the same socket
  (`liveDemoController.ts`, line 97); the gate and a further start then do not see that it
  runs. A preparation that fails leaves its directory (`c2paDemo.ts`, lines 23-29,
  `liveDemoPipeline.ts`, lines 56-89), and a preview that is not ready while its pipeline is
  not waiting for it ends the process with whatever it has on disk (line 170); both stay
  until the next reset or shutdown, of this or a later process. That every call comes back is not so either: neither the
  C2PA run (`server.ts`, line 161, `c2paDemo.ts`, line 32) nor the streaming loop
  (`liveDemoPipeline.ts`, lines 179 and 231) has a timeout, and a stop does not abort.
- *Timestamps.* A calendar that has confirmed nothing and answers with a body long enough
  anchors the row (`legalTimestamp.ts`, lines 147-160). A pending mirror can
  replace an anchored proof in the vault: one that is late, or that of another reference, to
  which a cloak under another key version has moved the vault row (`routes/aegis.ts`, lines
  2365-2375). A row that is not among the
  oldest 50 that are due is not asked about, however long (`timestampSweeper.ts`, lines
  117-118), so that a confirmed digest is anchored in the end cannot be promised. A failed
  unlock keeps the sweepers of other instances out until the pool ends the client (lines
  166-176). A crash between the anchoring and its mirror leaves the vault behind for good
  (`timestampUpgrade.ts`, line 120).

Deadlock is checked for the segment store, the grants and the learning queue. A session
that has ended, a row that is anchored and a server that is gone have nothing left to
do, so the other configurations do not check it.

Symmetry is used only where no liveness is checked, on sets whose members the
specification does not tell apart.

### Fairness

`segment_store`: the store is synchronous code, so an operation that has begun
goes on unless the process dies (weak fairness of the reconcile, the append and the
stop); someone keeps calling it, be it the encoder, the health check or the operator
(weak fairness of `Call`); the process dies only finitely often (`calm`).

`session_end`: a call that has begun goes on, because every request to the worker has a
timeout and every decoder is a child process with one (weak fairness of the stop's
steps and of the cleanup's); the caller repeats a stop that was not answered, which is
what the receipts are for (weak fairness of `Repeat`). Crashes and full disks are
bounded and have no fairness. The quota may refuse for ever; `StopSettles` is claimed for
behaviours in which it ends (`RoomInTheEnd`), the event log is not torn and the session
has segments (without any, its manifest is refused at every repeat).

`protected_append`: weak fairness of one action, `Proceed`: something that has been
taken up goes on, since requests to the worker have timeouts and the writes after an
answer are synchronous. Nobody has to call anything.

`learning_queue`: some worker keeps asking for work and a scan that has begun goes on
(weak fairness), and time passes whatever else happens (strong fairness of `Tick`, since
calls in between disable it only for a moment). Heartbeats, completions and failures
have none: a job ends also when no worker ever reports.

`timestamps`: weak fairness of two steps. Who won the transition goes on to its mirror and
its event (`Announce`), which is synchronous code after the UPDATE, and a statement that was
sent is answered or fails (`MirrorAnchored`). Nothing is assumed of sweeps, of calendars or
of the lock: whether a row ever gets onto a page is up to the rows before it. Faults are
bounded and have none.

`demo_server` checks safety only: neither the live demo nor a C2PA run has to end.

## 5. Proofs

Checked by TLAPS for every value of the constants that satisfies the assumptions.

**Segment store.** Assumptions: `MfhdAssumption` (every fragment has a sequence
number), `LimitAssumption` (the limit is a number), `SentinelAssumption` (the values
that stand for "no file" are no file's contents). `IInv` is inductive for `Spec`:
beside the properties it says, for each value of `pc`, which writes have been done
(`BeforeCommit`, `AfterCommit`, `Settled`), and what a journal can name
(`JournalKnown`). Without these the reconcile could not be shown to tell a committed
segment from an orphan. From it follow `TypeOK`, `AckedDurable`, `CountedAreStored`,
`ChainUnbroken`, `NoUntrackedMedia`, `ListedAreFetchable`, the action property
`RecordsOnlyGrow` and the refinement `ImplementsLog`.

With full disks (`FaultSpec`) `IInv` does not hold: an undo can take back a segment the
session counts already, so `CountedAreStored`, `ChainUnbroken` and `RecordsOnlyGrow` are
lost. Two invariants say what is left. `FaultInv`, about the process and its position
alone, carries `StoppedIsSettled`. `DiskInv` adds the files:

- `StoredCounted`: never more records than segments the session may count, so a
  recovery that recounts them stays within the limit;
- `JournalApart`: the journal names the last position and a file of its own, neither in
  the playlist nor answered; so removing that file harms nobody else;
- `BrokenIsNamed` and `MediaTracked`: only the segment the journal names can lack its
  media, and only its file can lack a record;
- `WorkSound`: how far the append or its undo is. The undo removes the journal last, so
  a record that has lost its media is still named when the process dies in between.

From `DiskInv` follow `TypeOK`, `AckedDurable`, `NoUntrackedMedia` and
`ListedAreFetchable` for `FaultSpec`: what the store promises its clients survives a
full disk, what it counts for itself does not.

The append-only log has guarantees of its own (`SegmentLogProofs`, from the assumption
that an empty position is no entry): it is filled in order along the source timeline and
within its capacity, answers only what it holds, and neither changes an entry nor grows
once closed. Both implementations instantiate these theorems with their refinement
mappings, so each also has `SourceContinuous` (fragments recorded next to one another
are consecutive in the encoder's numbering) and `OneAnswer` (no two requests are told
that they are the segment at one position); the store has `OneAnswer` with full disks
too, from `DiskInv`, and a protected session has `ProtectedRecordsAreFinal`.

**Protected append.** Assumptions: `AppendAssumption` (every fragment has a sequence
number, and the limits of session, queue and faults are numbers) and
`SentinelAssumption` (the value that stands for "no file" is nothing's content). Any number of calls, keys, starts, deaths of the process
and of the worker is covered. `IInv` has these parts beside the properties:

- `OneRuns` and `QueueSound`: one call holds the processor, and a call waits for the
  worker at most once;
- `StatusSound`: what the status can be under a call that runs, a stop, a start and a
  sealed map. It is what makes an append that waited notice that its session ended;
- `StoredUpTo`: the records are those the session counts and the one a journal left
  behind names;
- `CallsSound`: the ledger a call read before it waited, however long ago, is of
  segments that still have their receipt, and at each write what it wrote before is in
  place;
- `Backed` and `SamplesSound`: receipts, rolling map and both ledgers are of recorded
  segments, and a fragment that is about to be answered has not been verified yet, so
  none is verified twice;
- `AgreeUnlessTorn`: while no crash has come between the writes of an append, what a
  call read before it waited is still what it was, and at each write the counters differ
  from the receipts by exactly the writes to come (`TalliesAgree`).

From it follow `TypeOK`, `ReceiptsAreBacked`, `OneStart`, `SamplesAreReal`,
`RunningAgrees`, the action property `EndIsFinal` and the refinement `ImplementsLog`.

**Playback grants.** Assumptions: `ClockAssumption` (the clock is set back by no more
than the time a used token is remembered after its expiry, 60 seconds in the code,
`livePlaybackGrantStore.ts` line 55, and the one unit by which expiry is strict) and
`SentinelAssumption`. `IInv` says that a grant repeats its token, that a used token is remembered until it can no longer verify however the clock is set
(`UsedRemembered`), that tokens of a closing session are of an earlier epoch
(`EpochsPast`), and that a barred token is dead for one of two reasons (`BarredDead`).
From it follow `SingleUse`, `RevocationIsFinal`, `DeliveredWorks` and the refinement
`ImplementsAccess`.

**Session end.** Assumptions: `EndAssumption` and `SentinelAssumption` (the value that
stands for "none" is no key, no verdict and no plan). Any number of calls, keys,
crashes and full disks is covered. `IInv` has these parts beside the properties:

- `CallsSound`: one call at a time holds the processor, none while a cleanup does, and
  every call is for the recorded attempt;
- `StatusSound`: the status does not change under a call that has looked at it and has
  not awaited since;
- `RecordsSound`: a call that has a recording finds its two records on disk, also when it
  waited through a cleanup that failed;
- `MediaSound`: what a call has seen or written of the media stays, until a cleanup is
  accepted; without it a receipt could not be shown to be backed, and the exception for a
  cleanup that was overtaken would not be known to be the only one;
- `DecisionSound`: the files of the decision appear in order, and at most one call is
  between the signed map and the verdict, which is what the exclusive write buys;
- `CleanupSound`: a cleanup that was interrupted finds no call alive.

From it follow `TypeOK`, `ReceiptIsBacked`, `AnswersTheAttempt`, `RecordsAreBacked`,
`CleanupAnswersHold`, the action property `OneDecision` and, with one lemma per kind of
step, the refinement `ImplementsOutcome`.

**Learning queue.** Assumption: `QueueAssumption` (finitely many job ids, positive lease
and limits, sentinels that are nobody's name). `IInv` says that the list from the cursor
on holds every pending job exactly once (`ListedOnce`) and, while `leaseNext` runs, that
what is left to scan is a prefix of it; that a job's fields fit its state, in the queue
and in its snapshot; and that a belief in a lease is never longer than the lease. From
it follow `TypeOK`, `ListedOnce`, `ResultsAgree`, `OneHolder` and the refinement
`ImplementsJobs`.

**Timestamp anchoring.** Assumption: `AnchoringAssumption` (sentinels, and that a sweeper
is not an operator). Any number of tenants that share a cloak id, of references, calendars,
instances, operators and faults is covered, with pages and proofs of any length. Beside the
properties `IInv` says that whoever announces does so alone (`OneAnnounces`), that a call
which saw the row anchored, or lost the transition, finds it anchored (`CallsKnow`, from
which the plain UPDATE is safe), that a mirror under way has its reason, that a call has a
row, and which sweeps have a client (`SweepsHaveClient`). The records and the lock are kept
apart in the proof, since no step needs both. From it follow `TypeOK`, `AnchoredOnce`,
`FlagCoversReceipts`, `VaultIsBacked`, `LockFollowsSweep` and the refinement
`ImplementsLifecycle`, reference by reference.

**Demo server.** Assumption: `DemoAssumption` (finitely many requests at a time, at least
one place and one session, demos that are no requests). The conjunction of `TypeOK` and the
three safety invariants is inductive as it stands: that the live demo is undisturbed needs
that the counters agree with the calls, and holds although a stop may clear the state of a
demo that runs, since a start and the gate look at the state that is left. The
preparations that fail, the death by a late preview and the shutdown are covered.

Proved, and checked by no run of their own: `SourceContinuous` and `OneAnswer` of both
appends; `CountedAreStored` and `RecordsOnlyGrow` of the segment store; what a protected
session inherits as `ProtectedRecordsAreFinal`; `RecordsAreBacked` of the session's end;
`ResultsAgree` of the queue; `AnchoredOnce` of the timestamps (the refinement that the
run checks implies it); the type invariants of these modules, each `IInv` and `DiskInv`.
The runs check the properties that are furthest from a single write; what a refinement
implies is left to the refinement.

Only model-checked: liveness (`JournalSettles`, `StopSettles`, `CallsReturn`,
`EveryJobEnds`, `AnchoredReachesVault`), which is out of the
prover's reach, and the violations, which are counterexamples.

## 6. Not modelled

The components that are not modelled are listed with the reason in `PROJECT.json`: most
of the repository computes on media (watermarks, codecs, reports) in straight lines, or
is generated, or is user interface. Within the modelled ones: parsing of fragments and
initialisation segments, path checks, legal holds (a constant of a session that only
refuses a cleanup), quotas other than the one the recording must pass, event texts, a loss
of power (nothing is synced to the disk),
token encoding and signatures; the worker pool's admission of several sessions and the
content of its protocol; references other than vault anchors and when a row is due;
the demo's text and image runs, media proxy, request tokens and rate limit. That only
one process uses the live store is `live/liveProcessLease.ts`'s doing and is assumed.
