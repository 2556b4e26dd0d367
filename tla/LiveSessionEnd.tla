--------------------------- MODULE LiveSessionEnd ---------------------------
(***************************************************************************)
(* How a live session ends: stopSession, planCleanup and executeCleanup of *)
(* LiveProductLifecycle, with the finalizers of LiveProductStore and the   *)
(* final verification they call.                                           *)
(*                                                                         *)
(* A stop is a chain of file writes that a caller repeats, with the same   *)
(* request, until it is answered; each link is skipped when its file is    *)
(* there already.  A stop of a protected session gives up the processor    *)
(* three times: while its worker ends, while the recording is hashed for   *)
(* the signed map, and while the recording is verified.  Between those     *)
(* points, and through a whole cleanup, nothing else of the process runs;  *)
(* but the process may die between any two writes (Crash), and a write may *)
(* find the disk full.  What fails goes through the catch of stopSession   *)
(* ("catch"), which looks at the session again.                            *)
(*                                                                         *)
(* Every change of session.json is followed by a line of events.ndjson,    *)
(* and the whole of that file is parsed before a line is added to it.  A   *)
(* line cut short by a full disk (torn) stays: from then on every change   *)
(* of the session is made and then answered with an error.                 *)
(*                                                                         *)
(* A step of a call is named after what it writes next.  A file is a       *)
(* member of files while it is on disk; "manifest.m3u8" is the finished    *)
(* playlist, "rolling-map.json" the finalized rolling map.                 *)
(*                                                                         *)
(* Abstractions: a request stands for its idempotency key and its expected *)
(* revision; that a plan was made for the current revision is a flag of    *)
(* the plan; segment records do not change once a stop has begun (shown    *)
(* for LiveSegmentStore); grants are those of PlaybackGrants.              *)
(***************************************************************************)
EXTENDS Naturals, FiniteSets

CONSTANTS
  Modes,            \* protection modes a session may have been created with
  StopRequests, CleanupRequests,
  Calls,            \* stop calls that may be under way at a time
  Verdicts,         \* how a final verification may end
  MaxCrashes,       \* bound: deaths of the process
  MaxFull,          \* bound: writes that find the disk full
  QuotaRefuses,     \* the capacity check may refuse the copy, any number of times
  Absent

ASSUME EndAssumption ==
  /\ Modes \subseteq {"PROTECTED_TANCMARK", "TRANSPORT_ONLY"}
  /\ Verdicts \subseteq {"exact", "inexact", "error"}
  /\ MaxCrashes \in Nat /\ MaxFull \in Nat
  /\ QuotaRefuses \in BOOLEAN

VARIABLES
  session,         \* session.json
  files,           \* the files of the session that are on disk
  verdict,         \* what final-verification.json says
  plan,            \* cleanup-plan.json
  cleanupReceipt,  \* cleanup-receipt.json: the request it answers
  torn,            \* a line of events.ndjson is cut short
  call,            \* the stop calls under way
  cleanup,         \* the cleanup under way
  crashes, full,   \* bounds used up
  stopped,         \* stop requests answered with success (history)
  purged           \* cleanup requests answered with success (history)

disk    == <<session, files, verdict, plan, cleanupReceipt, torn>>
bounds  == <<crashes, full>>
history == <<stopped, purged>>
vars    == <<session, files, verdict, plan, cleanupReceipt, torn, call, cleanup,
             crashes, full, stopped, purged>>

(***************************************************************************)
(* Values                                                                  *)
(***************************************************************************)

\* Everything under media/: what purgeManagedMedia removes.
Media == {"init", "segments", "manifest.m3u8", "recording.half",
          "recording.full", "recording.mp4"}
Files == Media \cup
  {"records", "private-ingest", "manifest.json", "recording.json",
   "rolling-map.json", "rolling-final.json", "signed-map.json",
   "registry-row.json", "final-verification.json", "final-performance.json",
   "evidence.json"}

Status  == {"RUNNING", "STOPPING", "STOPPED", "FAILED", "CLEANUP_PENDING", "PURGED"}
Session == [protectionMode : Modes,
            status : Status,
            stopAttempt : StopRequests \cup {Absent},
            cleanupAttempt : CleanupRequests \cup {Absent},
            stopReceipt : StopRequests \cup {Absent},
            manifest : BOOLEAN,    \* manifestId is set
            recording : BOOLEAN,   \* recordingByteLength is counted
            final : {"NOT_STARTED", "PENDING", "EXACT_VERIFIED", "FAILED"}]
Plan    == [expired : BOOLEAN, current : BOOLEAN]

ASSUME SentinelAssumption ==
  Absent \notin StopRequests \cup CleanupRequests \cup Plan \cup {"exact", "inexact", "error"}

\* The steps at which a stop waits and others run.
Awaiting == {"worker", "signed-map.json", "final-verification.json"}
Steps == Awaiting \cup
  {"idle", "manifest", "manifest.m3u8", "manifest.json", "session.manifest",
   "recording", "recording.copy", "recording.rename", "recording.json",
   "session.recording", "rolling-map.json", "rolling-final.json",
   "session.pending", "registry-row.json", "session.exact",
   "final-performance.json", "private-ingest", "evidence.json",
   "session.stopped", "catch"}

Idle == [step |-> "idle", request |-> Absent]

Protected == session.protectionMode = "PROTECTED_TANCMARK"

TypeOK ==
  /\ session \in Session
  /\ files \subseteq Files
  /\ verdict \in {"exact", "inexact", Absent}
  /\ plan \in Plan \cup {Absent}
  /\ cleanupReceipt \in CleanupRequests \cup {Absent}
  /\ torn \in BOOLEAN
  /\ call \in [Calls -> [step : Steps, request : StopRequests \cup {Absent}]]
  /\ cleanup \in [step : {"idle", "purge", "receipt", "session.purged"},
                  request : CleanupRequests \cup {Absent}]
  /\ crashes \in 0 .. MaxCrashes /\ full \in 0 .. MaxFull
  /\ stopped \subseteq StopRequests
  /\ purged \subseteq CleanupRequests

At(c, step)   == call[c].step = step
Then(c, step) == call' = [call EXCEPT ![c].step = step]

\* What follows a change of session.json: its line in events.ndjson.
ThenLog(c, step) == Then(c, IF torn THEN "catch" ELSE step)

\* No handler holds the processor.
Free == /\ \A c \in Calls : call[c].step \in Awaiting \cup {"idle"}
        /\ cleanup.step = "idle"

Has(f) == f \in files
Readable == {"records", "init", "segments"} \subseteq files
MediaOnDisk == files \cap Media

\* A session that was never sent a segment can be stopped too.
Init ==
  /\ \E mode \in Modes :
       session = [protectionMode |-> mode, status |-> "RUNNING",
                  stopAttempt |-> Absent, cleanupAttempt |-> Absent,
                  stopReceipt |-> Absent, manifest |-> FALSE,
                  recording |-> FALSE, final |-> "NOT_STARTED"]
  /\ files \in IF Protected
                 THEN {{"private-ingest"},
                       {"private-ingest", "init", "segments", "records"}}
                 ELSE {{"init"}, {"init", "segments", "records"}}
  /\ verdict = Absent /\ plan = Absent /\ cleanupReceipt = Absent
  /\ torn = FALSE
  /\ call = [c \in Calls |-> Idle]
  /\ cleanup = Idle
  /\ crashes = 0 /\ full = 0
  /\ stopped = {} /\ purged = {}

(***************************************************************************)
(* Starting a stop                                                         *)
(***************************************************************************)

\* Mutant: a failed stop may be retried under any request.
RetriesAny(k) == session.status \in {"STOPPING", "CLEANUP_PENDING"}

\* Mutant: only an interrupted stop may be retried, not one that failed.
RetriesInterrupted(k) ==
  session.status = "STOPPING" /\ session.stopAttempt = k

\* The same request as the attempt under way.
Retries(k) ==
  /\ session.status \in {"STOPPING", "CLEANUP_PENDING"}
  /\ session.stopAttempt = k

\* A stop already answered is answered again from its receipt.
StopReplayed(k) ==
  /\ Free
  /\ session.stopReceipt = k /\ Has("evidence.json")
  /\ stopped' = stopped \cup {k}
  /\ UNCHANGED <<disk, call, cleanup, bounds, purged>>

\* The attempt is recorded and the grants are revoked; a plan made before
\* is for an earlier revision from here on.
StopBegins(c, k) ==
  /\ Free /\ At(c, "idle")
  /\ session.stopReceipt = Absent
  /\ \/ Retries(k)
     \/ session.stopAttempt = Absent /\ session.status = "RUNNING"
  /\ IF session.status = "STOPPING"
       THEN UNCHANGED <<session, plan>>
       ELSE /\ session' = [session EXCEPT !.status = "STOPPING",
                                          !.stopAttempt = k]
            /\ plan' = IF plan = Absent THEN Absent
                       ELSE [plan EXCEPT !.current = FALSE]
  /\ UNCHANGED <<files, verdict, cleanupReceipt, cleanup, crashes, history>>

StopAccepted(c, k) ==
  /\ StopBegins(c, k)
  /\ call' = [call EXCEPT ![c] =
       [step |-> IF torn /\ session.status # "STOPPING" THEN "catch"
                 ELSE IF Protected THEN "worker" ELSE "manifest",
        request |-> k]]
  /\ UNCHANGED <<torn, full>>

\* The disk is full for the event, which may be cut short, or for the grants.
StopAcceptFails(c, k) ==
  /\ full < MaxFull /\ full' = full + 1
  /\ StopBegins(c, k)
  /\ call' = [call EXCEPT ![c] = [step |-> "catch", request |-> k]]
  /\ torn' \in {torn, TRUE}

(***************************************************************************)
(* What an error does                                                      *)
(***************************************************************************)

\* Mutant: the status is not looked at again.
SessionAfterErrorBlindly ==
  IF Protected
    THEN [session EXCEPT !.status = "FAILED", !.final = "FAILED"]
    ELSE [session EXCEPT !.status = "CLEANUP_PENDING"]

\* The catch of stopSession.
SessionAfterError ==
  IF session.status # "STOPPING" THEN session
  ELSE IF Protected
    THEN [session EXCEPT !.status = "FAILED", !.final = "FAILED"]
    ELSE [session EXCEPT !.status = "CLEANUP_PENDING"]

\* The error is answered whether or not the line is added to the events.
Catch(c) ==
  /\ At(c, "catch")
  /\ session' = SessionAfterError
  /\ call' = [call EXCEPT ![c] = Idle]
  /\ UNCHANGED <<files, verdict, plan, cleanupReceipt, torn, cleanup, bounds,
                 history>>

(***************************************************************************)
(* The pipeline of a stop                                                  *)
(***************************************************************************)

Kept == <<verdict, plan, cleanupReceipt, torn, cleanup, bounds, history>>

\* Writes of one file that nothing can refuse, and what comes next.  A file
\* that is there already is left or written again with the same contents.
Following == [f \in {"manifest.m3u8", "manifest.json", "recording.json",
                     "rolling-map.json", "rolling-final.json",
                     "registry-row.json", "final-performance.json",
                     "evidence.json"} |->
  CASE f = "manifest.m3u8"          -> "manifest.json"
    [] f = "manifest.json"          -> "session.manifest"
    [] f = "recording.json"         -> "session.recording"
    [] f = "rolling-map.json"       -> "rolling-final.json"
    [] f = "rolling-final.json"     -> "session.pending"
    [] f = "registry-row.json"      -> "final-verification.json"
    [] f = "final-performance.json" -> "private-ingest"
    [] f = "evidence.json"          -> "session.stopped"]

WriteFile(c) ==
  /\ call[c].step \in DOMAIN Following
  /\ files' = files \cup {call[c].step}
  /\ Then(c, Following[call[c].step])
  /\ UNCHANGED <<session, Kept>>

\* The worker of a protected session has ended.
WorkerStopped(c) ==
  /\ Free /\ At(c, "worker")
  /\ Then(c, "manifest")
  /\ UNCHANGED <<session, files, Kept>>

\* finalizeManifest: the session is stopping, has segments and its init, and
\* a manifest recorded earlier is still there.
ManifestRefused ==
  \/ session.status # "STOPPING"
  \/ ~ {"records", "init"} \subseteq files
  \/ Has("manifest.json") /\ ~ Has("manifest.m3u8")

RefuseManifest(c) ==
  /\ At(c, "manifest") /\ ManifestRefused
  /\ Then(c, "catch")
  /\ UNCHANGED <<session, files, Kept>>

FinalizeManifest(c) ==
  /\ At(c, "manifest") /\ ~ ManifestRefused
  /\ Then(c, IF Has("manifest.json") THEN "recording" ELSE "manifest.m3u8")
  /\ UNCHANGED <<session, files, Kept>>

\* What transitionSession writes at the step of the call.
Transition(c) ==
  CASE At(c, "session.manifest")  -> [session EXCEPT !.manifest = TRUE]
    [] At(c, "session.recording") -> [session EXCEPT !.recording = TRUE]
    [] At(c, "session.pending")   -> [session EXCEPT !.final = "PENDING"]
    [] At(c, "session.exact")     -> [session EXCEPT !.final = "EXACT_VERIFIED"]
    [] At(c, "session.stopped")   -> [session EXCEPT !.status = "STOPPED",
                                        !.stopReceipt = call[c].request]
    [] OTHER                      -> SessionAfterError

RecordManifest(c) ==
  /\ At(c, "session.manifest")
  /\ session' = Transition(c)
  /\ ThenLog(c, "recording")
  /\ UNCHANGED <<files, Kept>>

AfterRecording == IF Protected THEN "rolling-map.json" ELSE "evidence.json"

\* finalizeRecording: the media cannot be read, or the recording is lost.
RecordingRefused ==
  \/ ~ Readable
  \/ Has("recording.json") /\ ~ Has("recording.mp4")

RefuseRecording(c) ==
  /\ At(c, "recording") /\ RecordingRefused
  /\ Then(c, "catch")
  /\ UNCHANGED <<session, files, Kept>>

\* A recording, or a finished file no record names yet, is used as it is.
ReuseRecording(c) ==
  /\ At(c, "recording") /\ ~ RecordingRefused
  /\ Has("recording.mp4")
  /\ Then(c, IF Has("recording.json") THEN AfterRecording ELSE "recording.json")
  /\ UNCHANGED <<session, files, Kept>>

\* So is a partial file that turns out to be whole.
ReusePartial(c) ==
  /\ At(c, "recording") /\ ~ RecordingRefused
  /\ ~ Has("recording.mp4") /\ Has("recording.full")
  /\ files' = (files \ {"recording.full"}) \cup {"recording.mp4"}
  /\ Then(c, "recording.json")
  /\ UNCHANGED <<session, Kept>>

NeedsCopy == ~ RecordingRefused /\ ~ Has("recording.mp4") /\ ~ Has("recording.full")

BeginCopy(c) ==
  /\ At(c, "recording") /\ NeedsCopy
  /\ files' = files \cup {"recording.half"}
  /\ Then(c, "recording.copy")
  /\ UNCHANGED <<session, Kept>>

EndCopy(c) ==
  /\ At(c, "recording.copy")
  /\ files' = (files \ {"recording.half"}) \cup {"recording.full"}
  /\ Then(c, "recording.rename")
  /\ UNCHANGED <<session, Kept>>

RenameCopy(c) ==
  /\ At(c, "recording.rename")
  /\ files' = (files \ {"recording.full"}) \cup {"recording.mp4"}
  /\ Then(c, "recording.json")
  /\ UNCHANGED <<session, Kept>>

RecordRecording(c) ==
  /\ At(c, "session.recording")
  /\ session' = Transition(c)
  /\ ThenLog(c, AfterRecording)
  /\ UNCHANGED <<files, Kept>>

\* The rolling map is final; a verification written earlier is used.
RecordPending(c) ==
  /\ At(c, "session.pending")
  /\ session' = Transition(c)
  /\ ThenLog(c, IF Has("final-verification.json")
                  THEN "session.exact" ELSE "signed-map.json")
  /\ UNCHANGED <<files, Kept>>

\* Mutant: the signed map is written again.
WriteSignedMapAgain(c) ==
  /\ Free /\ At(c, "signed-map.json")
  /\ files' = files \cup {"signed-map.json"}
  /\ Then(c, "registry-row.json")
  /\ UNCHANGED <<session, Kept>>

\* createAndVerifyLiveFinalExact after it has hashed the recording: the
\* signed map is written once and never again.
WriteSignedMap(c) ==
  /\ Free /\ At(c, "signed-map.json")
  /\ ~ Has("signed-map.json")
  /\ files' = files \cup {"signed-map.json"}
  /\ Then(c, "registry-row.json")
  /\ UNCHANGED <<session, Kept>>

SignedMapExists(c) ==
  /\ Free /\ At(c, "signed-map.json")
  /\ Has("signed-map.json")
  /\ Then(c, "catch")
  /\ UNCHANGED <<session, files, Kept>>

\* The verification of the recording has come to an end.
Verify(c) ==
  /\ Free /\ At(c, "final-verification.json")
  /\ verdict' \in Verdicts \ {"error"}
  /\ files' = files \cup {"final-verification.json"}
  /\ Then(c, "session.exact")
  /\ UNCHANGED <<session, plan, cleanupReceipt, torn, cleanup, bounds, history>>

\* Hashing the recording for the map, or decoding it, fails.
VerificationBreaks(c) ==
  /\ Free /\ call[c].step \in {"signed-map.json", "final-verification.json"}
  /\ "error" \in Verdicts
  /\ Then(c, "catch")
  /\ UNCHANGED <<session, files, Kept>>

\* Mutant: any verdict will do.
AcceptsAny == session.status = "STOPPING"

\* The decision is exact and the session is still stopping.
Accepts == verdict = "exact" /\ session.status = "STOPPING"

RecordExact(c) ==
  /\ At(c, "session.exact") /\ Accepts
  /\ session' = Transition(c)
  /\ ThenLog(c, "final-performance.json")
  /\ UNCHANGED <<files, Kept>>

RefuseVerdict(c) ==
  /\ At(c, "session.exact") /\ ~ Accepts
  /\ Then(c, "catch")
  /\ UNCHANGED <<session, files, Kept>>

RemovePrivateIngest(c) ==
  /\ At(c, "private-ingest")
  /\ files' = files \ {"private-ingest"}
  /\ Then(c, "evidence.json")
  /\ UNCHANGED <<session, Kept>>

\* The receipt and the status are one write; if the event cannot follow it,
\* the caller gets its answer when it repeats the stop.
RecordStopped(c) ==
  /\ At(c, "session.stopped")
  /\ session' = Transition(c)
  /\ IF torn
       THEN Then(c, "catch") /\ UNCHANGED stopped
       ELSE /\ call' = [call EXCEPT ![c] = Idle]
            /\ stopped' = stopped \cup {call[c].request}
  /\ UNCHANGED <<files, verdict, plan, cleanupReceipt, torn, cleanup, bounds, purged>>

(***************************************************************************)
(* A full disk                                                             *)
(***************************************************************************)

\* The next step of the call changes session.json.
Transits(c) ==
  \/ call[c].step \in {"session.manifest", "session.recording",
                       "session.pending", "session.stopped"}
  \/ At(c, "session.exact") /\ Accepts
  \/ At(c, "catch") /\ session.status = "STOPPING"

\* The next step of the call writes.
Writes(c) ==
  \/ call[c].step \in DOMAIN Following \ files
  \/ At(c, "recording.copy")
  \/ Free /\ call[c].step \in {"signed-map.json", "final-verification.json"}
  \/ Transits(c)

\* The write fails; or session.json is written and its event is not, which
\* may leave a part of the line behind.
WriteFails(c) ==
  /\ full < MaxFull /\ full' = full + 1
  /\ Writes(c)
  /\ \/ UNCHANGED <<session, torn>>
     \/ Transits(c) /\ session' = Transition(c) /\ torn' \in {torn, TRUE}
  /\ call' = [call EXCEPT ![c] =
       IF At(c, "catch") THEN Idle ELSE [call[c] EXCEPT !.step = "catch"]]
  /\ UNCHANGED <<files, verdict, plan, cleanupReceipt, cleanup, crashes, history>>

\* assertCapacity refuses the copy, by a quota or for want of free space; a
\* half written one is gone by then.
NoRoomForCopy(c) ==
  /\ QuotaRefuses
  /\ At(c, "recording") /\ NeedsCopy
  /\ files' = files \ {"recording.half"}
  /\ Then(c, "catch")
  /\ UNCHANGED <<session, Kept>>

\* The disk is full for the event of another request.
EventCutShort ==
  /\ full < MaxFull /\ full' = full + 1
  /\ Free /\ torn' = TRUE
  /\ UNCHANGED <<session, files, verdict, plan, cleanupReceipt, call, cleanup,
                 crashes, history>>

(***************************************************************************)
(* Cleanup                                                                 *)
(***************************************************************************)

Plannable == session.status \in {"STOPPED", "FAILED"}

PlanCleanup ==
  /\ Free /\ Plannable /\ plan = Absent
  /\ plan' = [expired |-> FALSE, current |-> TRUE]
  /\ UNCHANGED <<session, files, verdict, cleanupReceipt, torn, call, cleanup,
                 bounds, history>>

PlanExpires ==
  /\ plan # Absent /\ ~ plan.expired
  /\ plan' = [plan EXCEPT !.expired = TRUE]
  /\ UNCHANGED <<session, files, verdict, cleanupReceipt, torn, call, cleanup,
                 bounds, history>>

CleanupReplayed(k) ==
  /\ Free /\ cleanupReceipt = k
  /\ purged' = purged \cup {k}
  /\ UNCHANGED <<disk, call, cleanup, bounds, stopped>>

\* A first attempt needs a plan for this revision that has not expired.
CleanupBegins(k) ==
  /\ Free /\ cleanupReceipt = Absent
  /\ plan # Absent /\ plan.current /\ ~ plan.expired /\ Plannable
  /\ session' = [session EXCEPT !.status = "CLEANUP_PENDING",
                                !.cleanupAttempt = k]
  /\ plan' = [plan EXCEPT !.current = FALSE]
  /\ UNCHANGED <<files, verdict, cleanupReceipt, call, crashes, history>>

CleanupAccepted(k) ==
  /\ CleanupBegins(k)
  /\ cleanup' = IF torn THEN cleanup ELSE [step |-> "purge", request |-> k]
  /\ UNCHANGED <<torn, full>>

\* Mutant: any request may resume the attempt.
ResumesAny(k) ==
  /\ session.status = "CLEANUP_PENDING" /\ session.cleanupAttempt # Absent
  /\ plan.expired => MediaOnDisk = {}

\* The matching attempt; after the expiry only if nothing is left to remove.
Resumes(k) ==
  /\ session.status = "CLEANUP_PENDING" /\ session.cleanupAttempt = k
  /\ plan.expired => MediaOnDisk = {}

CleanupResumed(k) ==
  /\ Free /\ cleanupReceipt = Absent
  /\ plan # Absent /\ Resumes(k)
  /\ cleanup' = [step |-> "purge", request |-> k]
  /\ UNCHANGED <<disk, call, bounds, history>>

\* purgeManagedMedia removes one file after the other, in no given order.
PurgeOne ==
  /\ cleanup.step = "purge"
  /\ \E f \in MediaOnDisk : files' = files \ {f}
  /\ UNCHANGED <<session, verdict, plan, cleanupReceipt, torn, call, cleanup,
                 bounds, history>>

PurgeEnds ==
  /\ cleanup.step = "purge" /\ MediaOnDisk = {}
  /\ cleanup' = [cleanup EXCEPT !.step = "receipt"]
  /\ UNCHANGED <<disk, call, bounds, history>>

WriteCleanupReceipt ==
  /\ cleanup.step = "receipt"
  /\ cleanupReceipt' = cleanup.request
  /\ cleanup' = [cleanup EXCEPT !.step = "session.purged"]
  /\ UNCHANGED <<session, files, verdict, plan, torn, call, bounds, history>>

Purged == [session EXCEPT !.status = "PURGED"]

RecordPurged ==
  /\ cleanup.step = "session.purged"
  /\ session' = Purged
  /\ purged' = IF torn THEN purged ELSE purged \cup {cleanup.request}
  /\ cleanup' = Idle
  /\ UNCHANGED <<files, verdict, plan, cleanupReceipt, torn, call, bounds, stopped>>

\* The disk is full for the receipt, for session.json or for an event.
CleanupFails ==
  /\ full < MaxFull /\ full' = full + 1
  /\ \/ /\ cleanup.step \in {"receipt", "session.purged"}
        /\ UNCHANGED <<session, plan, torn>>
     \/ /\ cleanup.step = "session.purged"
        /\ session' = Purged /\ torn' \in {torn, TRUE}
        /\ UNCHANGED plan
     \/ /\ \E k \in CleanupRequests : CleanupBegins(k)
        /\ torn' \in {torn, TRUE}
  /\ cleanup' = Idle
  /\ UNCHANGED <<files, verdict, cleanupReceipt, call, crashes, history>>

(***************************************************************************)
(* What else happens to the session                                        *)
(***************************************************************************)

\* An append fails and takes the session with it.
AppendFails ==
  /\ Free /\ session.status = "RUNNING"
  /\ session' = [session EXCEPT !.status = "FAILED"]
  /\ UNCHANGED <<files, verdict, plan, cleanupReceipt, torn, call, cleanup, bounds,
                 history>>

\* revokeSessionPlayback moves the revision on.
RevokePlayback ==
  /\ Free /\ session.status = "STOPPED"
  /\ plan # Absent /\ plan' = [plan EXCEPT !.current = FALSE]
  /\ UNCHANGED <<session, files, verdict, cleanupReceipt, torn, call, cleanup,
                 bounds, history>>

Crash ==
  /\ crashes < MaxCrashes
  /\ crashes' = crashes + 1
  /\ call' = [c \in Calls |-> Idle]
  /\ cleanup' = Idle
  /\ UNCHANGED <<disk, full, history>>

(***************************************************************************)
(* The specification                                                       *)
(***************************************************************************)

StopStep(c) ==
  \/ WriteFile(c) \/ WorkerStopped(c)
  \/ RefuseManifest(c) \/ FinalizeManifest(c) \/ RecordManifest(c)
  \/ RefuseRecording(c) \/ ReuseRecording(c) \/ ReusePartial(c)
  \/ BeginCopy(c) \/ EndCopy(c) \/ RenameCopy(c) \/ RecordRecording(c)
  \/ RecordPending(c) \/ WriteSignedMap(c) \/ SignedMapExists(c)
  \/ Verify(c) \/ VerificationBreaks(c) \/ RecordExact(c) \/ RefuseVerdict(c)
  \/ RemovePrivateIngest(c) \/ RecordStopped(c)
  \/ NoRoomForCopy(c) \/ Catch(c)

CleanupStep == PurgeOne \/ PurgeEnds \/ WriteCleanupReceipt \/ RecordPurged

Next ==
  \/ \E k \in StopRequests : StopReplayed(k)
  \/ \E c \in Calls, k \in StopRequests : StopAccepted(c, k) \/ StopAcceptFails(c, k)
  \/ \E c \in Calls : StopStep(c) \/ WriteFails(c)
  \/ EventCutShort
  \/ PlanCleanup \/ PlanExpires
  \/ \E k \in CleanupRequests :
       CleanupReplayed(k) \/ CleanupAccepted(k) \/ CleanupResumed(k)
  \/ CleanupStep \/ CleanupFails
  \/ AppendFails \/ RevokePlayback \/ Crash

Spec == Init /\ [][Next]_vars

\* The caller of a stop repeats it until it is answered, and what was begun
\* goes on: every request to the worker and every decoder run has a timeout.
Repeat == \E c \in Calls, k \in StopRequests : Retries(k) /\ StopAccepted(c, k)

FairSpec == /\ Spec
            /\ WF_vars(Repeat)
            /\ WF_vars(\E c \in Calls : StopStep(c))
            /\ WF_vars(CleanupStep)

(***************************************************************************)
(* Properties                                                              *)
(***************************************************************************)

Artifacts == {"manifest.json", "recording.json", "evidence.json"}
Decision  == {"rolling-map.json", "rolling-final.json", "signed-map.json",
              "registry-row.json", "final-verification.json"}
Playable  == {"init", "segments", "manifest.m3u8", "recording.mp4"}

\* A session with a stop receipt has everything the receipt speaks for: its
\* manifest, recording and evidence; when protected, an exact decision with
\* all it rests on, and no unprotected source left; and while it is STOPPED
\* all the media a viewer may ask for, unless the stop overtook a cleanup.
ReceiptIsBacked ==
  session.stopReceipt # Absent =>
    /\ Artifacts \subseteq files
    /\ session.status = "STOPPED" /\ session.cleanupAttempt = Absent =>
         Playable \subseteq files
    /\ Protected => /\ verdict = "exact" /\ Decision \subseteq files
                    /\ session.final = "EXACT_VERIFIED"
                    /\ ~ Has("private-ingest")

\* Only the request that was recorded as the attempt is ever answered, and
\* every answer to it is the session's receipt: no second stop succeeds under
\* another key, whichever calls wait for each other.
AnswersTheAttempt ==
  \A k \in stopped : session.stopAttempt = k /\ session.stopReceipt = k

\* Until a cleanup is accepted, manifest.json and recording.json are backed by
\* the files they describe, wherever the process died between the writes.
RecordsAreBacked ==
  session.cleanupAttempt = Absent =>
    /\ Has("manifest.json") => Has("manifest.m3u8")
    /\ Has("recording.json") => Has("recording.mp4")

\* A cleanup is answered only to the request that was accepted, and then no
\* media is on disk, nor does an overtaking stop bring any back.
CleanupAnswersHold ==
  \A k \in purged : /\ cleanupReceipt = k /\ session.cleanupAttempt = k
                    /\ MediaOnDisk = {}

\* The final decision on a recording is taken once: a repeated or concurrent
\* stop never replaces it.
OneDecision == [][verdict # Absent => verdict' = verdict]_vars

\* The promise of SessionOutcome.
Phase ==
  IF session.status = "RUNNING" THEN "live"
  ELSE IF session.status = "STOPPED" THEN "stopped"
  ELSE IF session.status = "FAILED" THEN "failed"
  ELSE IF session.status = "PURGED" THEN "purged"
  ELSE IF session.cleanupAttempt = Absent THEN "ending"
  ELSE IF session.status = "CLEANUP_PENDING" THEN "cleaning" ELSE "overtaken"

Watchable == Playable \cup {"manifest.json", "recording.json"} \subseteq files

Outcome == INSTANCE SessionOutcome WITH
  Unstopped <- Absent, phase <- Phase, receipt <- session.stopReceipt,
  watchable <- Watchable

\* The stop pipeline and the cleanup implement SessionOutcome: a stopped
\* session stays stopped and watchable until it is cleaned up, and its
\* receipt never changes.
ImplementsOutcome == Outcome!Spec

\* The capacity check does not refuse the copy for ever.
RoomInTheEnd == <>[][\A c \in Calls : ~ NoRoomForCopy(c)]_vars

\* A stop of a session with segments is settled when its caller repeats it:
\* transport-only sessions get their receipt, protected ones that or FAILED.
\* The two failures a repetition cannot mend are the exceptions: a copy that
\* is refused each time, and an events.ndjson cut short.
StopSettles ==
  RoomInTheEnd =>
    (session.stopAttempt # Absent /\ Has("records")
       ~> \/ session.stopReceipt # Absent
          \/ Protected /\ session.status \in {"FAILED", "PURGED"}
          \/ torn)

(***************************************************************************)
(* The inductive invariant                                                 *)
(***************************************************************************)

\* The call holds the processor.
Running(c) == call[c].step \notin Awaiting \cup {"idle"}

Manifested == {"manifest.m3u8", "manifest.json"}
Records    == {"manifest.json", "recording.json"}
Recorded   == Playable \cup Records

\* The steps of a call that only protected sessions take, and their parts:
\* up to the signed map, up to the verdict, with a verdict.
Mapping   == {"rolling-map.json", "rolling-final.json", "session.pending",
              "signed-map.json"}
Verifying == {"registry-row.json", "final-verification.json"}
Exact     == {"final-performance.json", "private-ingest"}
Decided   == {"session.exact"} \cup Exact
Closing   == {"evidence.json", "session.stopped"}
Sealing   == Mapping \cup Verifying \cup Decided
\* The steps with a finished recording.
Late      == {"session.recording"} \cup Sealing \cup Closing

\* One call at a time holds the processor, none while a cleanup does; all
\* calls are for the attempt; only protected ones wait.
CallsSound ==
  /\ \A c, d \in Calls : Running(c) /\ Running(d) => c = d
  /\ cleanup.step # "idle" => \A c \in Calls : ~ Running(c)
  /\ \A c \in Calls : call[c].step # "idle" =>
       /\ call[c].request = session.stopAttempt
       /\ session.stopAttempt # Absent
       /\ call[c].step \in Awaiting \cup Sealing => Protected

\* Nothing changes the status of a session under a call that holds the
\* processor and has looked at it.
StatusSound ==
  /\ \A c \in Calls :
       Running(c) /\ call[c].step \notin {"manifest", "registry-row.json",
                                         "session.exact", "catch"}
         => session.status = "STOPPING"
  /\ session.status = "RUNNING" =>
       session.stopAttempt = Absent /\ session.cleanupAttempt = Absent
  /\ session.status = "STOPPING" => session.stopAttempt # Absent
  /\ session.status = "STOPPED" <=>
       /\ session.stopReceipt # Absent
       /\ session.status \notin {"CLEANUP_PENDING", "PURGED"}
  /\ session.stopReceipt # Absent => session.stopReceipt = session.stopAttempt
  /\ ~ Protected => /\ session.status = "FAILED" => session.stopAttempt = Absent
                    /\ session.cleanupAttempt # Absent =>
                         \/ session.stopAttempt = Absent
                         \/ session.stopReceipt # Absent

\* What a call has seen or written of the media stays, until a cleanup; a
\* call that waits through a cleanup which fails finds only the records.
RecordsSound ==
  \A c \in Calls : call[c].step \in Late => Records \subseteq files

MediaSound ==
  session.status \in {"STOPPING", "STOPPED", "FAILED"} =>
    \A c \in Calls :
      /\ call[c].step \in {"manifest.m3u8", "manifest.json"} => Has("init")
      /\ call[c].step = "manifest.json" => Has("manifest.m3u8")
      /\ call[c].step \in {"session.manifest", "recording"} => Manifested \subseteq files
      /\ call[c].step \in {"recording.copy", "recording.rename"} =>
           Manifested \cup {"init", "segments"} \subseteq files
      /\ call[c].step = "recording.json" => Manifested \cup Playable \subseteq files
      /\ call[c].step \in Late /\ session.cleanupAttempt = Absent =>
           Playable \subseteq files

\* The files of the decision appear in order, and one call at most is between
\* the signed map and the verdict.
DecisionSound ==
  /\ verdict # Absent <=> Has("final-verification.json")
  /\ Has("final-verification.json") => Decision \subseteq files
  /\ \A c, d \in Calls : call[c].step \in Verifying /\ call[d].step \in Verifying => c = d
  /\ \A c \in Calls :
       /\ call[c].step \in Sealing \ {"rolling-map.json"} => Has("rolling-map.json")
       /\ call[c].step \in Sealing \ {"rolling-map.json", "rolling-final.json"} =>
            Has("rolling-final.json")
       /\ call[c].step \in Verifying => Has("signed-map.json") /\ verdict = Absent
       /\ call[c].step = "final-verification.json" => Has("registry-row.json")
       /\ call[c].step \in Decided => verdict # Absent
       /\ call[c].step \in Exact => verdict = "exact" /\ session.final = "EXACT_VERIFIED"
       /\ call[c].step \in Closing /\ Protected =>
            /\ verdict = "exact" /\ session.final = "EXACT_VERIFIED"
            /\ ~ Has("private-ingest")
       /\ call[c].step = "session.stopped" => Has("evidence.json")

\* A cleanup runs for the attempt and is the only way to PURGED.
CleanupSound ==
  /\ cleanup.step # "idle" =>
       /\ session.status = "CLEANUP_PENDING"
       /\ cleanup.request = session.cleanupAttempt
       /\ cleanup.request # Absent
       /\ plan # Absent
  /\ cleanup.step \in {"receipt", "session.purged"} => MediaOnDisk = {}
  /\ cleanup.step = "session.purged" => cleanupReceipt = cleanup.request
  /\ cleanup.step \in {"purge", "receipt"} => cleanupReceipt = Absent
  /\ session.status = "CLEANUP_PENDING" /\ session.cleanupAttempt = Absent =>
       ~ Protected
  /\ cleanupReceipt # Absent => /\ session.cleanupAttempt = cleanupReceipt
                                /\ MediaOnDisk = {}
  /\ session.status = "PURGED" => cleanupReceipt # Absent

\* What every write keeps: the session, its files and the calls under way
\* agree (stopSession, executeCleanup and what they call).
IInv ==
  /\ TypeOK /\ CallsSound /\ StatusSound /\ RecordsSound /\ MediaSound
  /\ DecisionSound
  /\ CleanupSound /\ ReceiptIsBacked /\ AnswersTheAttempt /\ RecordsAreBacked
  /\ CleanupAnswersHold

(***************************************************************************)
(* What the repository says and the code does not do                       *)
(***************************************************************************)

\* A stop that was interrupted, repeated or ran out of disk space can be
\* repeated: a protected session with segments fails only on its verdict.
FailsOnVerdictOnly ==
  session.final = "FAILED" /\ Has("records") => verdict = "inexact"
=============================================================================
