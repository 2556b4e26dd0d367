------------------------ MODULE LiveSessionEndProofs ------------------------
(***************************************************************************)
(* What holds of LiveSessionEnd for any number of calls and requests, any  *)
(* outcome of the verification, and any number of crashes and full disks.  *)
(*                                                                         *)
(* Part 1: IInv is inductive, one lemma per action; failures share two.    *)
(* Part 2: the safety properties.  Part 3: LiveSessionEnd implements       *)
(* SessionOutcome.                                                         *)
(***************************************************************************)
EXTENDS LiveSessionEnd, TLAPS

\* Names of steps and files, and abbreviations, are expanded everywhere.
USE EndAssumption, SentinelAssumption
    DEF Awaiting, Sealing, Mapping, Verifying, Decided, Exact, Closing,
        Late, Manifested, Records, Recorded, Playable, Artifacts, Decision,
        Has, Protected, At, Running, Kept, bounds, history, disk

-----------------------------------------------------------------------------
(***************************************************************************)
(* Part 1: IInv is inductive                                               *)
(***************************************************************************)

(* A call that moves to its next step. *)
LEMMA Moved ==
  ASSUME TypeOK, NEW c \in Calls, NEW s \in Steps, Then(c, s)
  PROVE  /\ call' \in [Calls -> [step : Steps, request : StopRequests \cup {Absent}]]
         /\ call'[c].step = s
         /\ call'[c].request = call[c].request
         /\ \A d \in Calls \ {c} : call'[d] = call[d]
  BY DEF TypeOK, Then

(* The error of a call is answered: the session is as it was or as the catch
   leaves it. *)
Abandoned(c) ==
  /\ At(c, "catch")
  /\ call' = [call EXCEPT ![c] = Idle]
  /\ session' \in {session, SessionAfterError}
  /\ torn' \in BOOLEAN /\ full' \in 0 .. MaxFull
  /\ UNCHANGED <<files, verdict, plan, cleanupReceipt, cleanup, crashes, history>>

(* A step of a call fails: the catch comes next; the session is as it was or
   as its transition leaves it, and at most a partial recording is removed. *)
Failed(c) ==
  /\ call[c].step \notin {"idle", "catch"} /\ Then(c, "catch")
  /\ session' = session \/ (Transits(c) /\ session' = Transition(c))
  /\ files' \in {files, files \ {"recording.half"}}
  /\ torn' \in BOOLEAN /\ full' \in 0 .. MaxFull
  /\ UNCHANGED <<verdict, plan, cleanupReceipt, cleanup, crashes, history>>

(* What the catch of a stop changes of the session. *)
LEMMA AfterError ==
  ASSUME TypeOK, NEW t, t \in {session, SessionAfterError}
  PROVE  /\ t \in Session
         /\ t.protectionMode = session.protectionMode
         /\ t.stopAttempt = session.stopAttempt
         /\ t.cleanupAttempt = session.cleanupAttempt
         /\ t.stopReceipt = session.stopReceipt
         /\ \/ t.status = session.status /\ t.final = session.final
            \/ /\ session.status = "STOPPING"
               /\ t.status = IF Protected THEN "FAILED" ELSE "CLEANUP_PENDING"
<1>1. CASE t = session
  BY <1>1 DEF TypeOK
<1>2. CASE t = SessionAfterError /\ session.status # "STOPPING"
  BY <1>2 DEF TypeOK, SessionAfterError
<1>3. CASE t = SessionAfterError /\ session.status = "STOPPING" /\ Protected
  BY <1>3 DEF TypeOK, SessionAfterError, Session, Status
<1>4. CASE t = SessionAfterError /\ session.status = "STOPPING" /\ ~ Protected
  BY <1>4 DEF TypeOK, SessionAfterError, Session, Status
<1> QED
  BY <1>1, <1>2, <1>3, <1>4

(* A call that ends with an error. *)
LEMMA AbandonedKeeps ==
  ASSUME IInv, NEW c \in Calls, Abandoned(c)
  PROVE  IInv'
<1>m. /\ call' \in [Calls -> [step : Steps, request : StopRequests \cup {Absent}]]
      /\ call'[c].step = "idle" /\ call[c].step = "catch"
      /\ \A d \in Calls \ {c} : call'[d] = call[d]
      /\ \A d \in Calls \ {c} : ~ Running(d)
  BY DEF TypeOK, CallsSound, IInv, Abandoned, Idle, Steps
<1>s. /\ session' \in Session
      /\ session'.protectionMode = session.protectionMode
      /\ session'.stopAttempt = session.stopAttempt
      /\ session'.cleanupAttempt = session.cleanupAttempt
      /\ session'.stopReceipt = session.stopReceipt
      /\ \/ session'.status = session.status /\ session'.final = session.final
         \/ /\ session.status = "STOPPING"
            /\ session'.status = IF Protected THEN "FAILED" ELSE "CLEANUP_PENDING"
  <2> session' \in {session, SessionAfterError}
    BY DEF Abandoned
  <2> QED
    BY AfterError DEF IInv
<1>f. /\ torn' \in BOOLEAN /\ full' \in 0 .. MaxFull
      /\ UNCHANGED <<files, verdict, plan, cleanupReceipt, cleanup, crashes, stopped, purged>>
  BY DEF Abandoned
<1> USE DEF IInv
<1>1. TypeOK'
  BY <1>m, <1>s, <1>f DEF TypeOK
<1>2. CallsSound' /\ StatusSound' /\ CleanupSound'
  BY <1>m, <1>s, <1>f DEF CallsSound, StatusSound, CleanupSound, MediaOnDisk
<1>3. RecordsSound' /\ MediaSound'
  <2>1. RecordsSound'
    BY <1>m, <1>s, <1>f DEF RecordsSound, MediaSound
  <2>2. MediaSound'
    BY <1>m, <1>s, <1>f DEF MediaSound
  <2> QED
    BY <2>1, <2>2
<1>4. DecisionSound'
  BY <1>m, <1>s, <1>f DEF DecisionSound
<1>5. ReceiptIsBacked' /\ RecordsAreBacked'
  BY <1>m, <1>s, <1>f DEF ReceiptIsBacked, RecordsAreBacked, StatusSound
<1>6. AnswersTheAttempt' /\ CleanupAnswersHold'
  BY <1>m, <1>s, <1>f DEF AnswersTheAttempt, CleanupAnswersHold, MediaOnDisk
<1> QED
  BY <1>1, <1>2, <1>3, <1>4, <1>5, <1>6 DEF IInv

(* What a failing step leaves of the session: as it was; a flag or the state
   of the verification changed by the call that holds the processor; or
   stopped, with everything the receipt speaks for. *)
LEMMA FailedSession ==
  ASSUME IInv, NEW c \in Calls, Failed(c)
  PROVE  /\ session' \in Session
         /\ session'.protectionMode = session.protectionMode
         /\ session'.stopAttempt = session.stopAttempt
         /\ session'.cleanupAttempt = session.cleanupAttempt
         /\ \/ /\ session'.status = session.status
               /\ session'.stopReceipt = session.stopReceipt
               /\ \/ session'.final = session.final
                  \/ session.status = "STOPPING" /\ Running(c)
            \/ /\ session.status = "STOPPING" /\ session'.status = "STOPPED"
               /\ session'.stopReceipt = session.stopAttempt
               /\ session.stopAttempt \in StopRequests
               /\ session'.final = session.final
               /\ Artifacts \subseteq files
               /\ session.cleanupAttempt = Absent => Playable \subseteq files
               /\ Protected => /\ verdict = "exact" /\ Decision \subseteq files
                               /\ session.final = "EXACT_VERIFIED"
                               /\ ~ Has("private-ingest")
<1>t. session \in Session
  BY DEF IInv, TypeOK
<1>1. CASE session' = session
  BY <1>1, <1>t
<1>2. CASE session' # session
  <2>1. Transits(c) /\ session' = Transition(c) /\ call[c].step \notin {"idle", "catch"}
    BY <1>2 DEF Failed
  <2>2. session.status = "STOPPING" /\ Running(c)
    BY <2>1 DEF IInv, StatusSound, Transits, Accepts
  <2>3. CASE At(c, "session.manifest")
    <3>1. session' = [session EXCEPT !.manifest = TRUE]
      BY <2>1, <2>3 DEF Transition
    <3> QED
      BY <3>1, <1>t DEF Session
  <2>4. CASE At(c, "session.recording")
    <3>1. session' = [session EXCEPT !.recording = TRUE]
      BY <2>1, <2>4 DEF Transition
    <3> QED
      BY <3>1, <1>t DEF Session
  <2>5. CASE At(c, "session.pending")
    <3>1. session' = [session EXCEPT !.final = "PENDING"]
      BY <2>1, <2>5 DEF Transition
    <3> QED
      BY <2>2, <3>1, <1>t DEF Session
  <2>6. CASE At(c, "session.exact")
    <3>1. session' = [session EXCEPT !.final = "EXACT_VERIFIED"]
      BY <2>1, <2>6 DEF Transition
    <3> QED
      BY <2>2, <3>1, <1>t DEF Session
  <2>7. CASE At(c, "session.stopped")
    <3>1. session' = [session EXCEPT !.status = "STOPPED", !.stopReceipt = call[c].request]
      BY <2>1, <2>7 DEF Transition
    <3>2. call[c].request = session.stopAttempt /\ session.stopAttempt \in StopRequests
      BY <2>7, <1>t DEF IInv, CallsSound, Session
    <3>3. /\ session.cleanupAttempt = Absent => Playable \subseteq files
          /\ Artifacts \subseteq files
          /\ Protected => /\ verdict = "exact" /\ Decision \subseteq files
                          /\ session.final = "EXACT_VERIFIED"
                          /\ ~ Has("private-ingest")
      BY <2>2, <2>7 DEF IInv, RecordsSound, MediaSound, DecisionSound
    <3> QED
      BY <2>2, <3>1, <3>2, <3>3, <1>t DEF Session, Status
  <2> QED
    BY <2>1, <2>3, <2>4, <2>5, <2>6, <2>7 DEF Transits
<1> QED
  BY <1>1, <1>2

(* A call that fails: its catch comes next. *)
LEMMA FailedKeeps ==
  ASSUME IInv, NEW c \in Calls, Failed(c), cleanup.step = "idle",
         \A d \in Calls \ {c} : ~ Running(d)
  PROVE  IInv'
<1> DEFINE s == "catch"
<1>m. /\ call' \in [Calls -> [step : Steps, request : StopRequests \cup {Absent}]]
      /\ call'[c].step = s
      /\ call'[c].request = call[c].request
      /\ \A d \in Calls \ {c} : call'[d] = call[d]
      /\ call[c].step # "idle"
  BY Moved DEF IInv, Failed, Steps
<1> HIDE DEF s
<1>f. /\ files' \subseteq files
      /\ \A x : x # "recording.half" => (x \in files' <=> x \in files)
      /\ torn' \in BOOLEAN /\ full' \in 0 .. MaxFull
      /\ UNCHANGED <<verdict, plan, cleanupReceipt, cleanup, crashes, stopped, purged>>
  BY DEF Failed
<1> USE DEF IInv
<1>1. TypeOK'
  BY <1>m, <1>f, FailedSession DEF TypeOK
<1>2. CallsSound' /\ StatusSound' /\ CleanupSound'
  <2>1. CallsSound'
    BY <1>m, <1>f, FailedSession DEF CallsSound, s
  <2>2. StatusSound'
    BY <1>m, <1>f, FailedSession DEF StatusSound, s, TypeOK
  <2>3. CleanupSound'
    BY <1>m, <1>f, FailedSession DEF CleanupSound, MediaOnDisk
  <2> QED
    BY <2>1, <2>2, <2>3
<1>3. RecordsSound' /\ MediaSound'
  <2>1. RecordsSound'
    BY <1>m, <1>f, FailedSession DEF RecordsSound, MediaSound, s
  <2>2. MediaSound'
    BY <1>m, <1>f, FailedSession DEF MediaSound, s
  <2> QED
    BY <2>1, <2>2
<1>4. DecisionSound'
  BY <1>m, <1>f, FailedSession DEF DecisionSound, CallsSound, s
<1>5. ReceiptIsBacked' /\ RecordsAreBacked'
  BY <1>m, <1>f, FailedSession DEF ReceiptIsBacked, RecordsAreBacked, StatusSound
<1>6. AnswersTheAttempt' /\ CleanupAnswersHold'
  BY <1>m, <1>f, FailedSession DEF AnswersTheAttempt, CleanupAnswersHold, MediaOnDisk,
     StatusSound, TypeOK
<1> QED
  BY <1>1, <1>2, <1>3, <1>4, <1>5, <1>6 DEF IInv

(* A stop answered from its receipt. *)
LEMMA StopReplayedKeeps ==
  ASSUME IInv, NEW k \in StopRequests, StopReplayed(k)
  PROVE  IInv'
<1> USE DEF IInv, StopReplayed
<1>1. TypeOK'
  BY DEF TypeOK
<1>2. CallsSound' /\ StatusSound' /\ CleanupSound'
  BY DEF CallsSound, StatusSound, CleanupSound, MediaOnDisk
<1>3. RecordsSound' /\ MediaSound'
  <2>1. RecordsSound'
    BY DEF RecordsSound, MediaSound
  <2>2. MediaSound'
    BY DEF MediaSound
  <2> QED
    BY <2>1, <2>2
<1>4. DecisionSound'
  BY DEF DecisionSound
<1>5. ReceiptIsBacked' /\ RecordsAreBacked'
  BY DEF ReceiptIsBacked, RecordsAreBacked
<1>6. AnswersTheAttempt' /\ CleanupAnswersHold'
  BY DEF AnswersTheAttempt, CleanupAnswersHold, StatusSound, MediaOnDisk
<1> QED
  BY <1>1, <1>2, <1>3, <1>4, <1>5, <1>6 DEF IInv

(* A stop that begins, or begins again, and comes to its step s. *)
LEMMA StopBeginsKeeps ==
  ASSUME IInv, NEW c \in Calls, NEW k \in StopRequests, StopBegins(c, k),
         NEW s \in {"worker", "manifest", "catch"}, s = "worker" => Protected,
         call' = [call EXCEPT ![c] = [step |-> s, request |-> k]],
         torn' \in BOOLEAN, full' \in 0 .. MaxFull
  PROVE  IInv'
<1>m. /\ call' \in [Calls -> [step : Steps, request : StopRequests \cup {Absent}]]
      /\ call'[c] = [step |-> s, request |-> k]
      /\ \A d \in Calls \ {c} : call'[d] = call[d]
  BY DEF TypeOK, IInv, Steps
<1>s. /\ session' \in Session
      /\ session'.protectionMode = session.protectionMode
      /\ session'.cleanupAttempt = session.cleanupAttempt
      /\ session'.stopReceipt = session.stopReceipt
      /\ session'.final = session.final
      /\ session'.status = "STOPPING" /\ session'.stopAttempt = k
      /\ session.stopReceipt = Absent
      /\ \/ session.status \in {"STOPPING", "CLEANUP_PENDING"} /\ session.stopAttempt = k
         \/ session.status = "RUNNING" /\ session.stopAttempt = Absent
  <2>1. CASE session.status = "STOPPING"
    BY <2>1 DEF IInv, TypeOK, StopBegins, Retries
  <2>2. CASE session.status # "STOPPING"
    <3>1. session' = [session EXCEPT !.status = "STOPPING", !.stopAttempt = k]
      BY <2>2 DEF StopBegins
    <3>2. session \in Session
      BY DEF IInv, TypeOK
    <3>3. session' \in Session /\ session'.status = "STOPPING" /\ session'.stopAttempt = k
      BY <3>1, <3>2 DEF Session, Status
    <3> QED
      BY <2>2, <3>1, <3>2, <3>3 DEF StopBegins, Retries
  <2> QED
    BY <2>1, <2>2
<1>f. /\ plan' \in Plan \cup {Absent}
      /\ Free
      /\ UNCHANGED <<files, verdict, cleanupReceipt, cleanup, crashes, history>>
  BY DEF StopBegins, IInv, TypeOK, Plan
<1>p. plan = Absent => plan' = Absent
  BY DEF StopBegins
<1> USE DEF IInv
<1>1. TypeOK'
  BY <1>m, <1>s, <1>f DEF TypeOK
<1>2. CallsSound' /\ StatusSound' /\ CleanupSound'
  <2>1. CallsSound'
    BY <1>m, <1>s, <1>f DEF CallsSound, StatusSound, Free
  <2>2. StatusSound'
    BY <1>m, <1>s, <1>f DEF StatusSound, Free
  <2>3. CleanupSound'
    BY <1>m, <1>s, <1>f DEF CleanupSound, MediaOnDisk, Free
  <2> QED
    BY <2>1, <2>2, <2>3
<1>3. RecordsSound' /\ MediaSound'
  <2>1. RecordsSound'
    BY <1>m, <1>s, <1>f DEF RecordsSound, MediaSound, CallsSound, CleanupSound, Free
  <2>2. MediaSound'
    BY <1>m, <1>s, <1>f DEF MediaSound, CallsSound, CleanupSound, Free
  <2> QED
    BY <2>1, <2>2
<1>4. DecisionSound'
  BY <1>m, <1>s, <1>f DEF DecisionSound
<1>5. ReceiptIsBacked' /\ RecordsAreBacked'
  BY <1>m, <1>s, <1>f DEF ReceiptIsBacked, RecordsAreBacked
<1>6. AnswersTheAttempt' /\ CleanupAnswersHold'
  BY <1>m, <1>s, <1>f DEF AnswersTheAttempt, CleanupAnswersHold, MediaOnDisk, TypeOK
<1> QED
  BY <1>1, <1>2, <1>3, <1>4, <1>5, <1>6 DEF IInv

(* A stop is accepted, or the disk is full for what follows its transition. *)
LEMMA StopAcceptedKeeps ==
  ASSUME IInv, NEW c \in Calls, NEW k \in StopRequests,
         StopAccepted(c, k) \/ StopAcceptFails(c, k)
  PROVE  IInv'
<1>t. torn \in BOOLEAN /\ full \in 0 .. MaxFull
  BY DEF IInv, TypeOK
<1>1. CASE StopAccepted(c, k)
  <2> DEFINE s == IF torn /\ session.status # "STOPPING" THEN "catch"
                  ELSE IF Protected THEN "worker" ELSE "manifest"
  <2>1. /\ StopBegins(c, k)
        /\ call' = [call EXCEPT ![c] = [step |-> s, request |-> k]]
        /\ torn' \in BOOLEAN /\ full' \in 0 .. MaxFull
    BY <1>t, <1>1 DEF StopAccepted
  <2>2. s \in {"worker", "manifest", "catch"} /\ (s = "worker" => Protected)
    OBVIOUS
  <2> HIDE DEF s
  <2> QED
    BY <2>1, <2>2, StopBeginsKeeps
<1>2. CASE StopAcceptFails(c, k)
  <2>1. StopBegins(c, k) /\ torn' \in BOOLEAN
    BY <1>t, <1>2 DEF StopAcceptFails
  <2>2. full' \in 0 .. MaxFull
    BY <1>t, <1>2 DEF StopAcceptFails
  <2>3. call' = [call EXCEPT ![c] = [step |-> "catch", request |-> k]]
    BY <1>2 DEF StopAcceptFails
  <2> QED
    BY <2>1, <2>2, <2>3, StopBeginsKeeps
<1> QED
  BY <1>1, <1>2

(* One of the files nothing can refuse. *)
LEMMA WriteFileKeeps ==
  ASSUME IInv, NEW c \in Calls, WriteFile(c)
  PROVE  IInv'
<1> DEFINE s == Following[call[c].step]
<1>f. /\ files' = files \cup {call[c].step}
      /\ UNCHANGED <<session, Kept>>
      /\ \/ call[c].step = "manifest.m3u8" /\ s = "manifest.json"
         \/ call[c].step = "manifest.json" /\ s = "session.manifest"
         \/ call[c].step = "recording.json" /\ s = "session.recording"
         \/ call[c].step = "rolling-map.json" /\ s = "rolling-final.json"
         \/ call[c].step = "rolling-final.json" /\ s = "session.pending"
         \/ call[c].step = "registry-row.json" /\ s = "final-verification.json"
         \/ call[c].step = "final-performance.json" /\ s = "private-ingest"
         \/ call[c].step = "evidence.json" /\ s = "session.stopped"
  BY DEF WriteFile, Following
<1>n. Then(c, s)
  BY DEF WriteFile
<1> HIDE DEF s
<1>t. s \in Steps /\ call[c].step \in Files
  BY <1>f DEF Steps, Files, Media
<1>m. /\ call' \in [Calls -> [step : Steps, request : StopRequests \cup {Absent}]]
      /\ call'[c].step = s
      /\ call'[c].request = call[c].request
      /\ \A d \in Calls \ {c} : call'[d] = call[d]
  BY <1>n, <1>t, Moved DEF IInv
<1>i. cleanup.step = "idle" /\ (cleanupReceipt # Absent => call[c].step \notin Media)
  BY <1>f DEF IInv, StatusSound, MediaSound, CallsSound, CleanupSound, MediaOnDisk, Media
<1> USE DEF IInv
<1>1. TypeOK'
  <2> files' \subseteq Files
    BY <1>f, <1>t DEF TypeOK
  <2> QED
    BY <1>m, <1>f DEF TypeOK
<1>2. CallsSound' /\ StatusSound' /\ CleanupSound'
  BY <1>m, <1>f, <1>t, <1>i DEF CallsSound, StatusSound, CleanupSound, MediaOnDisk
<1>3. RecordsSound' /\ MediaSound'
  <2>1. RecordsSound'
    BY <1>m, <1>f, <1>t, <1>i DEF RecordsSound, MediaSound, StatusSound
  <2>2. MediaSound'
    BY <1>m, <1>f, <1>t, <1>i DEF MediaSound
  <2> QED
    BY <2>1, <2>2
<1>4. DecisionSound'
  BY <1>m, <1>f, <1>t, <1>i DEF DecisionSound
<1>5. ReceiptIsBacked' /\ RecordsAreBacked'
  BY <1>m, <1>f, <1>t, <1>i DEF ReceiptIsBacked, RecordsAreBacked, StatusSound, MediaSound
<1>6. AnswersTheAttempt' /\ CleanupAnswersHold'
  BY <1>m, <1>f, <1>t, <1>i DEF AnswersTheAttempt, CleanupAnswersHold, MediaOnDisk, TypeOK
<1> QED
  BY <1>1, <1>2, <1>3, <1>4, <1>5, <1>6 DEF IInv

(* The worker has ended. *)
LEMMA WorkerStoppedKeeps ==
  ASSUME IInv, NEW c \in Calls, WorkerStopped(c)
  PROVE  IInv'
<1> DEFINE s == "manifest"
<1>m. /\ call' \in [Calls -> [step : Steps, request : StopRequests \cup {Absent}]]
      /\ call'[c].step = s
      /\ call'[c].request = call[c].request
      /\ \A d \in Calls \ {c} : call'[d] = call[d]
  BY Moved DEF IInv, WorkerStopped, Steps
<1> HIDE DEF s
<1> USE DEF IInv, WorkerStopped, Free
<1>1. TypeOK'
  BY <1>m DEF TypeOK
<1>2. CallsSound' /\ StatusSound' /\ CleanupSound'
  BY <1>m DEF CallsSound, StatusSound, CleanupSound, MediaOnDisk, Media, s
<1>3. RecordsSound' /\ MediaSound'
  <2>1. RecordsSound'
    BY <1>m DEF RecordsSound, MediaSound, s
  <2>2. MediaSound'
    BY <1>m DEF MediaSound, s
  <2> QED
    BY <2>1, <2>2
<1>4. DecisionSound'
  BY <1>m DEF DecisionSound, s
<1>5. ReceiptIsBacked' /\ RecordsAreBacked'
  BY <1>m DEF ReceiptIsBacked, RecordsAreBacked
<1>6. AnswersTheAttempt' /\ CleanupAnswersHold'
  BY <1>m DEF AnswersTheAttempt, CleanupAnswersHold, MediaOnDisk
<1> QED
  BY <1>1, <1>2, <1>3, <1>4, <1>5, <1>6 DEF IInv

(* The manifest is to be written, or is there. *)
LEMMA FinalizeManifestKeeps ==
  ASSUME IInv, NEW c \in Calls, FinalizeManifest(c)
  PROVE  IInv'
<1> DEFINE s == IF Has("manifest.json") THEN "recording" ELSE "manifest.m3u8"
<1>m. /\ call' \in [Calls -> [step : Steps, request : StopRequests \cup {Absent}]]
      /\ call'[c].step = s
      /\ call'[c].request = call[c].request
      /\ \A d \in Calls \ {c} : call'[d] = call[d]
  BY Moved DEF IInv, FinalizeManifest, Steps
<1> HIDE DEF s
<1> USE DEF IInv, FinalizeManifest, ManifestRefused
<1>1. TypeOK'
  BY <1>m DEF TypeOK
<1>2. CallsSound' /\ StatusSound' /\ CleanupSound'
  BY <1>m DEF CallsSound, StatusSound, CleanupSound, MediaOnDisk, Session, s
<1>3. RecordsSound' /\ MediaSound'
  <2>1. RecordsSound'
    BY <1>m DEF RecordsSound, MediaSound, s
  <2>2. MediaSound'
    BY <1>m DEF MediaSound, s
  <2> QED
    BY <2>1, <2>2
<1>4. DecisionSound'
  BY <1>m DEF DecisionSound, s
<1>5. ReceiptIsBacked' /\ RecordsAreBacked'
  BY <1>m DEF ReceiptIsBacked, RecordsAreBacked
<1>6. AnswersTheAttempt' /\ CleanupAnswersHold'
  BY <1>m DEF AnswersTheAttempt, CleanupAnswersHold, MediaOnDisk
<1> QED
  BY <1>1, <1>2, <1>3, <1>4, <1>5, <1>6 DEF IInv

(* The session names its manifest. *)
LEMMA RecordManifestKeeps ==
  ASSUME IInv, NEW c \in Calls, RecordManifest(c), ~ torn
  PROVE  IInv'
<1> DEFINE s == "recording"
<1>w. session' = [session EXCEPT !.manifest = TRUE]
  BY DEF RecordManifest, Transition
<1>m. /\ call' \in [Calls -> [step : Steps, request : StopRequests \cup {Absent}]]
      /\ call'[c].step = s
      /\ call'[c].request = call[c].request
      /\ \A d \in Calls \ {c} : call'[d] = call[d]
  BY Moved DEF IInv, ThenLog, RecordManifest, Steps
<1> HIDE DEF s
<1> USE DEF IInv, RecordManifest
<1>1. TypeOK'
  BY <1>w, <1>m DEF TypeOK, Session
<1>2. CallsSound' /\ StatusSound' /\ CleanupSound'
  BY <1>w, <1>m DEF CallsSound, StatusSound, CleanupSound, MediaOnDisk, s
<1>3. RecordsSound' /\ MediaSound'
  <2>1. RecordsSound'
    BY <1>w, <1>m DEF RecordsSound, MediaSound, s
  <2>2. MediaSound'
    BY <1>w, <1>m DEF MediaSound, s
  <2> QED
    BY <2>1, <2>2
<1>4. DecisionSound'
  BY <1>w, <1>m DEF DecisionSound, s
<1>5. ReceiptIsBacked' /\ RecordsAreBacked'
  BY <1>w, <1>m DEF ReceiptIsBacked, RecordsAreBacked
<1>6. AnswersTheAttempt' /\ CleanupAnswersHold'
  BY <1>w, <1>m DEF AnswersTheAttempt, CleanupAnswersHold, MediaOnDisk
<1> QED
  BY <1>1, <1>2, <1>3, <1>4, <1>5, <1>6 DEF IInv

(* A recording that is there is used. *)
LEMMA ReuseRecordingKeeps ==
  ASSUME IInv, NEW c \in Calls, ReuseRecording(c)
  PROVE  IInv'
<1> DEFINE s == IF Has("recording.json") THEN AfterRecording ELSE "recording.json"
<1>m. /\ call' \in [Calls -> [step : Steps, request : StopRequests \cup {Absent}]]
      /\ call'[c].step = s
      /\ call'[c].request = call[c].request
      /\ \A d \in Calls \ {c} : call'[d] = call[d]
  BY Moved DEF IInv, ReuseRecording, Steps, AfterRecording
<1>a. \/ s = "recording.json"
      \/ s = "rolling-map.json" /\ Protected /\ Has("recording.json")
      \/ s = "evidence.json" /\ ~ Protected /\ Has("recording.json")
  BY DEF AfterRecording
<1> HIDE DEF s
<1> USE DEF IInv, ReuseRecording, RecordingRefused, Readable
<1>1. TypeOK'
  BY <1>m, <1>a DEF TypeOK
<1>2. CallsSound' /\ StatusSound' /\ CleanupSound'
  BY <1>m, <1>a DEF CallsSound, StatusSound, CleanupSound, MediaOnDisk
<1>3. RecordsSound' /\ MediaSound'
  <2>1. RecordsSound'
    BY <1>m, <1>a DEF RecordsSound, MediaSound, StatusSound
  <2>2. MediaSound'
    BY <1>m, <1>a DEF MediaSound
  <2> QED
    BY <2>1, <2>2
<1>4. DecisionSound'
  BY <1>m, <1>a DEF DecisionSound
<1>5. ReceiptIsBacked' /\ RecordsAreBacked'
  BY <1>m, <1>a DEF ReceiptIsBacked, RecordsAreBacked
<1>6. AnswersTheAttempt' /\ CleanupAnswersHold'
  BY <1>m, <1>a DEF AnswersTheAttempt, CleanupAnswersHold, MediaOnDisk
<1> QED
  BY <1>1, <1>2, <1>3, <1>4, <1>5, <1>6 DEF IInv

(* A partial recording that is whole is renamed. *)
LEMMA ReusePartialKeeps ==
  ASSUME IInv, NEW c \in Calls, ReusePartial(c)
  PROVE  IInv'
<1> DEFINE s == "recording.json"
<1>m. /\ call' \in [Calls -> [step : Steps, request : StopRequests \cup {Absent}]]
      /\ call'[c].step = s
      /\ call'[c].request = call[c].request
      /\ \A d \in Calls \ {c} : call'[d] = call[d]
  BY Moved DEF IInv, ReusePartial, Steps
<1>f. /\ \A x : x \notin {"recording.full", "recording.mp4"} => (x \in files' <=> x \in files)
      /\ {"init", "segments"} \subseteq files /\ "recording.mp4" \in files'
  BY DEF ReusePartial, RecordingRefused, Readable
<1> HIDE DEF s
<1> USE DEF IInv, ReusePartial, RecordingRefused, Readable
<1>1. TypeOK'
  BY <1>m, <1>f DEF TypeOK, Files, Media
<1>2. CallsSound' /\ StatusSound' /\ CleanupSound'
  BY <1>m, <1>f DEF CallsSound, StatusSound, CleanupSound, MediaOnDisk, Media, s
<1>3. RecordsSound' /\ MediaSound'
  <2>1. RecordsSound'
    BY <1>m, <1>f DEF RecordsSound, MediaSound, s
  <2>2. MediaSound'
    BY <1>m, <1>f DEF MediaSound, s
  <2> QED
    BY <2>1, <2>2
<1>4. DecisionSound'
  BY <1>m, <1>f DEF DecisionSound, s
<1>5. ReceiptIsBacked' /\ RecordsAreBacked'
  BY <1>m, <1>f DEF ReceiptIsBacked, RecordsAreBacked
<1>6. AnswersTheAttempt' /\ CleanupAnswersHold'
  BY <1>m, <1>f DEF AnswersTheAttempt, CleanupAnswersHold, MediaOnDisk, Media
<1> QED
  BY <1>1, <1>2, <1>3, <1>4, <1>5, <1>6 DEF IInv

(* The copy begins. *)
LEMMA BeginCopyKeeps ==
  ASSUME IInv, NEW c \in Calls, BeginCopy(c)
  PROVE  IInv'
<1> DEFINE s == "recording.copy"
<1>m. /\ call' \in [Calls -> [step : Steps, request : StopRequests \cup {Absent}]]
      /\ call'[c].step = s
      /\ call'[c].request = call[c].request
      /\ \A d \in Calls \ {c} : call'[d] = call[d]
  BY Moved DEF IInv, BeginCopy, Steps
<1> HIDE DEF s
<1> USE DEF IInv, BeginCopy, NeedsCopy, RecordingRefused, Readable
<1>1. TypeOK'
  BY <1>m DEF TypeOK, Files, Media
<1>2. CallsSound' /\ StatusSound' /\ CleanupSound'
  BY <1>m DEF CallsSound, StatusSound, CleanupSound, MediaOnDisk, Media, s
<1>3. RecordsSound' /\ MediaSound'
  <2>1. RecordsSound'
    BY <1>m DEF RecordsSound, MediaSound, s
  <2>2. MediaSound'
    BY <1>m DEF MediaSound, s
  <2> QED
    BY <2>1, <2>2
<1>4. DecisionSound'
  BY <1>m DEF DecisionSound, s
<1>5. ReceiptIsBacked' /\ RecordsAreBacked'
  BY <1>m DEF ReceiptIsBacked, RecordsAreBacked
<1>6. AnswersTheAttempt' /\ CleanupAnswersHold'
  BY <1>m DEF AnswersTheAttempt, CleanupAnswersHold, MediaOnDisk, Media
<1> QED
  BY <1>1, <1>2, <1>3, <1>4, <1>5, <1>6 DEF IInv

(* The copy is whole. *)
LEMMA EndCopyKeeps ==
  ASSUME IInv, NEW c \in Calls, EndCopy(c)
  PROVE  IInv'
<1> DEFINE s == "recording.rename"
<1>m. /\ call' \in [Calls -> [step : Steps, request : StopRequests \cup {Absent}]]
      /\ call'[c].step = s
      /\ call'[c].request = call[c].request
      /\ \A d \in Calls \ {c} : call'[d] = call[d]
  BY Moved DEF IInv, EndCopy, Steps
<1>i. "init" \in files /\ cleanupReceipt = Absent /\ cleanup.step = "idle"
  BY DEF IInv, EndCopy, StatusSound, MediaSound, CleanupSound, MediaOnDisk, Media
<1> HIDE DEF s
<1> USE DEF IInv, EndCopy
<1>1. TypeOK'
  BY <1>m, <1>i DEF TypeOK, Files, Media
<1>2. CallsSound' /\ StatusSound' /\ CleanupSound'
  BY <1>m, <1>i DEF CallsSound, StatusSound, CleanupSound, s
<1>3. RecordsSound' /\ MediaSound'
  <2>1. RecordsSound'
    BY <1>m, <1>i DEF RecordsSound, MediaSound, s
  <2>2. MediaSound'
    BY <1>m, <1>i DEF MediaSound, s
  <2> QED
    BY <2>1, <2>2
<1>4. DecisionSound'
  BY <1>m, <1>i DEF DecisionSound, s
<1>5. ReceiptIsBacked' /\ RecordsAreBacked'
  BY <1>m, <1>i DEF ReceiptIsBacked, RecordsAreBacked
<1>6. AnswersTheAttempt' /\ CleanupAnswersHold'
  BY <1>m, <1>i DEF AnswersTheAttempt, CleanupAnswersHold, TypeOK
<1> QED
  BY <1>1, <1>2, <1>3, <1>4, <1>5, <1>6 DEF IInv

(* The copy becomes the recording. *)
LEMMA RenameCopyKeeps ==
  ASSUME IInv, NEW c \in Calls, RenameCopy(c)
  PROVE  IInv'
<1> DEFINE s == "recording.json"
<1>m. /\ call' \in [Calls -> [step : Steps, request : StopRequests \cup {Absent}]]
      /\ call'[c].step = s
      /\ call'[c].request = call[c].request
      /\ \A d \in Calls \ {c} : call'[d] = call[d]
  BY Moved DEF IInv, RenameCopy, Steps
<1>i. "init" \in files /\ cleanupReceipt = Absent /\ cleanup.step = "idle"
  BY DEF IInv, RenameCopy, StatusSound, MediaSound, CleanupSound, MediaOnDisk, Media
<1> HIDE DEF s
<1> USE DEF IInv, RenameCopy
<1>1. TypeOK'
  BY <1>m, <1>i DEF TypeOK, Files, Media
<1>2. CallsSound' /\ StatusSound' /\ CleanupSound'
  BY <1>m, <1>i DEF CallsSound, StatusSound, CleanupSound, s
<1>3. RecordsSound' /\ MediaSound'
  <2>1. RecordsSound'
    BY <1>m, <1>i DEF RecordsSound, MediaSound, s
  <2>2. MediaSound'
    BY <1>m, <1>i DEF MediaSound, s
  <2> QED
    BY <2>1, <2>2
<1>4. DecisionSound'
  BY <1>m, <1>i DEF DecisionSound, s
<1>5. ReceiptIsBacked' /\ RecordsAreBacked'
  BY <1>m, <1>i DEF ReceiptIsBacked, RecordsAreBacked
<1>6. AnswersTheAttempt' /\ CleanupAnswersHold'
  BY <1>m, <1>i DEF AnswersTheAttempt, CleanupAnswersHold, TypeOK
<1> QED
  BY <1>1, <1>2, <1>3, <1>4, <1>5, <1>6 DEF IInv

(* The session counts its recording. *)
LEMMA RecordRecordingKeeps ==
  ASSUME IInv, NEW c \in Calls, RecordRecording(c), ~ torn
  PROVE  IInv'
<1> DEFINE s == AfterRecording
<1>w. session' = [session EXCEPT !.recording = TRUE]
  BY DEF RecordRecording, Transition
<1>m. /\ call' \in [Calls -> [step : Steps, request : StopRequests \cup {Absent}]]
      /\ call'[c].step = s
      /\ call'[c].request = call[c].request
      /\ \A d \in Calls \ {c} : call'[d] = call[d]
  BY Moved DEF IInv, ThenLog, RecordRecording, Steps, AfterRecording
<1> HIDE DEF s
<1> USE DEF IInv, RecordRecording, AfterRecording
<1>1. TypeOK'
  BY <1>w, <1>m DEF TypeOK, Session
<1>2. CallsSound' /\ StatusSound' /\ CleanupSound'
  BY <1>w, <1>m DEF CallsSound, StatusSound, CleanupSound, MediaOnDisk, s
<1>3. RecordsSound' /\ MediaSound'
  <2>1. RecordsSound'
    BY <1>w, <1>m DEF RecordsSound, MediaSound
  <2>2. MediaSound'
    BY <1>w, <1>m DEF MediaSound, s
  <2> QED
    BY <2>1, <2>2
<1>4. DecisionSound'
  BY <1>w, <1>m DEF DecisionSound, s
<1>5. ReceiptIsBacked' /\ RecordsAreBacked'
  BY <1>w, <1>m DEF ReceiptIsBacked, RecordsAreBacked
<1>6. AnswersTheAttempt' /\ CleanupAnswersHold'
  BY <1>w, <1>m DEF AnswersTheAttempt, CleanupAnswersHold, MediaOnDisk
<1> QED
  BY <1>1, <1>2, <1>3, <1>4, <1>5, <1>6 DEF IInv

(* The rolling map is final. *)
LEMMA RecordPendingKeeps ==
  ASSUME IInv, NEW c \in Calls, RecordPending(c), ~ torn
  PROVE  IInv'
<1> DEFINE s == IF Has("final-verification.json") THEN "session.exact" ELSE "signed-map.json"
<1>w. session' = [session EXCEPT !.final = "PENDING"]
  BY DEF RecordPending, Transition
<1>m. /\ call' \in [Calls -> [step : Steps, request : StopRequests \cup {Absent}]]
      /\ call'[c].step = s
      /\ call'[c].request = call[c].request
      /\ \A d \in Calls \ {c} : call'[d] = call[d]
  BY Moved DEF IInv, ThenLog, RecordPending, Steps
<1> HIDE DEF s
<1> USE DEF IInv, RecordPending
<1>1. TypeOK'
  BY <1>w, <1>m DEF TypeOK, Session
<1>2. CallsSound' /\ StatusSound' /\ CleanupSound'
  <2>1. CallsSound'
    BY <1>w, <1>m DEF CallsSound
  <2>2. StatusSound'
    BY <1>w, <1>m DEF StatusSound
  <2>3. CleanupSound'
    BY <1>w, <1>m DEF CleanupSound, MediaOnDisk
  <2> QED
    BY <2>1, <2>2, <2>3
<1>3. RecordsSound' /\ MediaSound'
  <2>1. RecordsSound'
    BY <1>w, <1>m DEF RecordsSound, MediaSound
  <2>2. MediaSound'
    BY <1>w, <1>m DEF MediaSound, s
  <2> QED
    BY <2>1, <2>2
<1>4. DecisionSound'
  BY <1>w, <1>m DEF DecisionSound, CallsSound, CleanupSound, s
<1>5. ReceiptIsBacked' /\ RecordsAreBacked'
  BY <1>w, <1>m DEF ReceiptIsBacked, RecordsAreBacked, StatusSound
<1>6. AnswersTheAttempt' /\ CleanupAnswersHold'
  BY <1>w, <1>m DEF AnswersTheAttempt, CleanupAnswersHold, MediaOnDisk
<1> QED
  BY <1>1, <1>2, <1>3, <1>4, <1>5, <1>6 DEF IInv

(* The signed map is written. *)
LEMMA WriteSignedMapKeeps ==
  ASSUME IInv, NEW c \in Calls, WriteSignedMap(c)
  PROVE  IInv'
<1> DEFINE s == "registry-row.json"
<1>m. /\ call' \in [Calls -> [step : Steps, request : StopRequests \cup {Absent}]]
      /\ call'[c].step = s
      /\ call'[c].request = call[c].request
      /\ \A d \in Calls \ {c} : call'[d] = call[d]
  BY Moved DEF IInv, WriteSignedMap, Steps
<1> HIDE DEF s
<1> USE DEF IInv, WriteSignedMap, Free
<1>1. TypeOK'
  BY <1>m DEF TypeOK, Files
<1>2. CallsSound' /\ StatusSound' /\ CleanupSound'
  BY <1>m DEF CallsSound, StatusSound, CleanupSound, MediaOnDisk, Media, s
<1>3. RecordsSound' /\ MediaSound'
  <2>1. RecordsSound'
    BY <1>m DEF RecordsSound, MediaSound
  <2>2. MediaSound'
    BY <1>m DEF MediaSound, s
  <2> QED
    BY <2>1, <2>2
<1>4. DecisionSound'
  BY <1>m DEF DecisionSound, s
<1>5. ReceiptIsBacked' /\ RecordsAreBacked'
  BY <1>m DEF ReceiptIsBacked, RecordsAreBacked
<1>6. AnswersTheAttempt' /\ CleanupAnswersHold'
  BY <1>m DEF AnswersTheAttempt, CleanupAnswersHold, MediaOnDisk, Media
<1> QED
  BY <1>1, <1>2, <1>3, <1>4, <1>5, <1>6 DEF IInv

(* The recording has been verified. *)
LEMMA VerifyKeeps ==
  ASSUME IInv, NEW c \in Calls, Verify(c)
  PROVE  IInv'
<1> DEFINE s == "session.exact"
<1>m. /\ call' \in [Calls -> [step : Steps, request : StopRequests \cup {Absent}]]
      /\ call'[c].step = s
      /\ call'[c].request = call[c].request
      /\ \A d \in Calls \ {c} : call'[d] = call[d]
  BY Moved DEF IInv, Verify, Steps
<1> HIDE DEF s
<1> USE DEF IInv, Verify, Free
<1>1. TypeOK'
  BY <1>m DEF TypeOK, Files
<1>2. CallsSound' /\ StatusSound' /\ CleanupSound'
  BY <1>m DEF CallsSound, StatusSound, CleanupSound, MediaOnDisk, Media, s
<1>3. RecordsSound' /\ MediaSound'
  <2>1. RecordsSound'
    BY <1>m DEF RecordsSound, MediaSound
  <2>2. MediaSound'
    BY <1>m DEF MediaSound, s
  <2> QED
    BY <2>1, <2>2
<1>4. DecisionSound'
  BY <1>m DEF DecisionSound, s
<1>5. ReceiptIsBacked' /\ RecordsAreBacked'
  BY <1>m DEF ReceiptIsBacked, RecordsAreBacked, DecisionSound
<1>6. AnswersTheAttempt' /\ CleanupAnswersHold'
  BY <1>m DEF AnswersTheAttempt, CleanupAnswersHold, MediaOnDisk, Media
<1> QED
  BY <1>1, <1>2, <1>3, <1>4, <1>5, <1>6 DEF IInv

(* The session names an exact verdict. *)
LEMMA RecordExactKeeps ==
  ASSUME IInv, NEW c \in Calls, RecordExact(c), ~ torn
  PROVE  IInv'
<1> DEFINE s == "final-performance.json"
<1>w. session' = [session EXCEPT !.final = "EXACT_VERIFIED"]
  BY DEF RecordExact, Transition
<1>m. /\ call' \in [Calls -> [step : Steps, request : StopRequests \cup {Absent}]]
      /\ call'[c].step = s
      /\ call'[c].request = call[c].request
      /\ \A d \in Calls \ {c} : call'[d] = call[d]
  BY Moved DEF IInv, ThenLog, RecordExact, Steps
<1> HIDE DEF s
<1> USE DEF IInv, RecordExact, Accepts
<1>1. TypeOK'
  BY <1>w, <1>m DEF TypeOK, Session
<1>2. CallsSound' /\ StatusSound' /\ CleanupSound'
  BY <1>w, <1>m DEF CallsSound, StatusSound, CleanupSound, MediaOnDisk
<1>3. RecordsSound' /\ MediaSound'
  <2>1. RecordsSound'
    BY <1>w, <1>m DEF RecordsSound, MediaSound
  <2>2. MediaSound'
    BY <1>w, <1>m DEF MediaSound, s
  <2> QED
    BY <2>1, <2>2
<1>4. DecisionSound'
  BY <1>w, <1>m DEF DecisionSound, CleanupSound, s
<1>5. ReceiptIsBacked' /\ RecordsAreBacked'
  BY <1>w, <1>m DEF ReceiptIsBacked, RecordsAreBacked
<1>6. AnswersTheAttempt' /\ CleanupAnswersHold'
  BY <1>w, <1>m DEF AnswersTheAttempt, CleanupAnswersHold, MediaOnDisk
<1> QED
  BY <1>1, <1>2, <1>3, <1>4, <1>5, <1>6 DEF IInv

(* The unprotected source is removed. *)
LEMMA RemovePrivateIngestKeeps ==
  ASSUME IInv, NEW c \in Calls, RemovePrivateIngest(c)
  PROVE  IInv'
<1> DEFINE s == "evidence.json"
<1>m. /\ call' \in [Calls -> [step : Steps, request : StopRequests \cup {Absent}]]
      /\ call'[c].step = s
      /\ call'[c].request = call[c].request
      /\ \A d \in Calls \ {c} : call'[d] = call[d]
  BY Moved DEF IInv, RemovePrivateIngest, Steps
<1> HIDE DEF s
<1> USE DEF IInv, RemovePrivateIngest
<1>1. TypeOK'
  BY <1>m DEF TypeOK
<1>2. CallsSound' /\ StatusSound' /\ CleanupSound'
  BY <1>m DEF CallsSound, StatusSound, CleanupSound, MediaOnDisk
<1>3. RecordsSound' /\ MediaSound'
  <2>1. RecordsSound'
    BY <1>m DEF RecordsSound, MediaSound
  <2>2. MediaSound'
    BY <1>m DEF MediaSound, s
  <2> QED
    BY <2>1, <2>2
<1>4. DecisionSound'
  BY <1>m DEF DecisionSound, s
<1>5. ReceiptIsBacked' /\ RecordsAreBacked'
  BY <1>m DEF ReceiptIsBacked, RecordsAreBacked
<1>6. AnswersTheAttempt' /\ CleanupAnswersHold'
  BY <1>m DEF AnswersTheAttempt, CleanupAnswersHold, MediaOnDisk
<1> QED
  BY <1>1, <1>2, <1>3, <1>4, <1>5, <1>6 DEF IInv

(* The stop ends with its receipt. *)
LEMMA RecordStoppedKeeps ==
  ASSUME IInv, NEW c \in Calls, RecordStopped(c), ~ torn
  PROVE  IInv'
<1>w. session' = [session EXCEPT !.status = "STOPPED", !.stopReceipt = call[c].request]
  BY DEF RecordStopped, Transition
<1>m. /\ call' \in [Calls -> [step : Steps, request : StopRequests \cup {Absent}]]
      /\ call'[c].step = "idle"
      /\ \A d \in Calls \ {c} : call'[d] = call[d]
  BY DEF TypeOK, IInv, RecordStopped, Steps, Idle
<1>r. call[c].request \in StopRequests
  BY DEF IInv, TypeOK, CallsSound, RecordStopped
<1>s. session' \in Session /\ stopped' \subseteq StopRequests
  <2>1. session' \in Session
    BY <1>w, <1>r DEF IInv, TypeOK, Session, Status
  <2>2. stopped' \subseteq StopRequests
    BY <1>r DEF IInv, TypeOK, RecordStopped
  <2> QED
    BY <2>1, <2>2
<1>b. /\ Artifacts \subseteq files
      /\ session.cleanupAttempt = Absent => Playable \subseteq files
      /\ Protected => /\ verdict = "exact" /\ Decision \subseteq files
                      /\ session.final = "EXACT_VERIFIED"
                      /\ ~ Has("private-ingest")
  BY DEF IInv, RecordStopped, StatusSound, RecordsSound, MediaSound, DecisionSound
<1> USE DEF IInv, RecordStopped, Idle
<1>1. TypeOK'
  BY <1>w, <1>m, <1>s, <1>b DEF TypeOK
<1>2. CallsSound' /\ StatusSound' /\ CleanupSound'
  BY <1>w, <1>m, <1>s, <1>b DEF CallsSound, StatusSound, CleanupSound, MediaOnDisk
<1>3. RecordsSound' /\ MediaSound'
  <2>1. RecordsSound'
    BY <1>w, <1>m, <1>s, <1>b DEF RecordsSound, MediaSound
  <2>2. MediaSound'
    BY <1>w, <1>m, <1>s, <1>b DEF MediaSound, StatusSound
  <2> QED
    BY <2>1, <2>2
<1>4. DecisionSound'
  BY <1>w, <1>m, <1>s, <1>b DEF DecisionSound
<1>5. ReceiptIsBacked' /\ RecordsAreBacked'
  BY <1>w, <1>m, <1>s, <1>b DEF ReceiptIsBacked, RecordsAreBacked
<1>6. AnswersTheAttempt' /\ CleanupAnswersHold'
  BY <1>w, <1>m, <1>s, <1>b DEF AnswersTheAttempt, CleanupAnswersHold, CallsSound, MediaOnDisk
<1> QED
  BY <1>1, <1>2, <1>3, <1>4, <1>5, <1>6 DEF IInv

(* A cleanup is planned. *)
LEMMA PlanCleanupKeeps ==
  ASSUME IInv, PlanCleanup
  PROVE  IInv'
<1> USE DEF IInv, PlanCleanup, Free
<1>1. TypeOK'
  BY DEF TypeOK, Plan
<1>2. CallsSound' /\ StatusSound' /\ CleanupSound'
  BY DEF CallsSound, StatusSound, CleanupSound, MediaOnDisk
<1>3. RecordsSound' /\ MediaSound'
  <2>1. RecordsSound'
    BY DEF RecordsSound, MediaSound
  <2>2. MediaSound'
    BY DEF MediaSound
  <2> QED
    BY <2>1, <2>2
<1>4. DecisionSound'
  BY DEF DecisionSound
<1>5. ReceiptIsBacked' /\ RecordsAreBacked'
  BY DEF ReceiptIsBacked, RecordsAreBacked
<1>6. AnswersTheAttempt' /\ CleanupAnswersHold'
  BY DEF AnswersTheAttempt, CleanupAnswersHold, MediaOnDisk
<1> QED
  BY <1>1, <1>2, <1>3, <1>4, <1>5, <1>6 DEF IInv

(* A plan expires. *)
LEMMA PlanExpiresKeeps ==
  ASSUME IInv, PlanExpires
  PROVE  IInv'
<1>p. plan' \in Plan
  BY DEF IInv, TypeOK, Plan, PlanExpires
<1> USE DEF IInv, PlanExpires
<1>1. TypeOK'
  BY <1>p DEF TypeOK
<1>2. CallsSound' /\ StatusSound' /\ CleanupSound'
  BY <1>p DEF CallsSound, StatusSound, CleanupSound, MediaOnDisk
<1>3. RecordsSound' /\ MediaSound'
  <2>1. RecordsSound'
    BY <1>p DEF RecordsSound, MediaSound
  <2>2. MediaSound'
    BY <1>p DEF MediaSound
  <2> QED
    BY <2>1, <2>2
<1>4. DecisionSound'
  BY <1>p DEF DecisionSound
<1>5. ReceiptIsBacked' /\ RecordsAreBacked'
  BY <1>p DEF ReceiptIsBacked, RecordsAreBacked
<1>6. AnswersTheAttempt' /\ CleanupAnswersHold'
  BY <1>p DEF AnswersTheAttempt, CleanupAnswersHold, MediaOnDisk
<1> QED
  BY <1>1, <1>2, <1>3, <1>4, <1>5, <1>6 DEF IInv

(* A cleanup answered from its receipt. *)
LEMMA CleanupReplayedKeeps ==
  ASSUME IInv, NEW k \in CleanupRequests, CleanupReplayed(k)
  PROVE  IInv'
<1> USE DEF IInv, CleanupReplayed, Free
<1>1. TypeOK'
  BY DEF TypeOK
<1>2. CallsSound' /\ StatusSound' /\ CleanupSound'
  BY DEF CallsSound, StatusSound, CleanupSound, MediaOnDisk
<1>3. RecordsSound' /\ MediaSound'
  <2>1. RecordsSound'
    BY DEF RecordsSound, MediaSound
  <2>2. MediaSound'
    BY DEF MediaSound
  <2> QED
    BY <2>1, <2>2
<1>4. DecisionSound'
  BY DEF DecisionSound
<1>5. ReceiptIsBacked' /\ RecordsAreBacked'
  BY DEF ReceiptIsBacked, RecordsAreBacked
<1>6. AnswersTheAttempt' /\ CleanupAnswersHold'
  BY DEF AnswersTheAttempt, CleanupAnswersHold, CleanupSound, MediaOnDisk
<1> QED
  BY <1>1, <1>2, <1>3, <1>4, <1>5, <1>6 DEF IInv

(* A cleanup is accepted, and goes on or not. *)
LEMMA CleanupBeginsKeeps ==
  ASSUME IInv, NEW k \in CleanupRequests, CleanupBegins(k),
         cleanup' \in {cleanup, Idle, [step |-> "purge", request |-> k]},
         torn' \in BOOLEAN, full' \in 0 .. MaxFull
  PROVE  IInv'
<1>p. plan' \in Plan
  BY DEF IInv, TypeOK, Plan, CleanupBegins
<1>w. session' = [session EXCEPT !.status = "CLEANUP_PENDING", !.cleanupAttempt = k]
  BY DEF CleanupBegins
<1>s. /\ session' \in Session
      /\ session'.protectionMode = session.protectionMode
      /\ session'.stopAttempt = session.stopAttempt
      /\ session'.stopReceipt = session.stopReceipt
      /\ session'.final = session.final
      /\ session'.status = "CLEANUP_PENDING" /\ session'.cleanupAttempt = k
      /\ session.status \in {"STOPPED", "FAILED"}
  BY <1>w DEF IInv, TypeOK, Session, Status, CleanupBegins, Plannable
<1>c. /\ cleanup.step = "idle" /\ cleanup'.step \in {"idle", "purge"}
      /\ cleanup'.step = "purge" => cleanup'.request = k
      /\ cleanup' \in [step : {"idle", "purge", "receipt", "session.purged"},
                       request : CleanupRequests \cup {Absent}]
  BY DEF IInv, TypeOK, CleanupBegins, Free, Idle
<1>f. /\ Free /\ cleanupReceipt = Absent
      /\ UNCHANGED <<files, verdict, cleanupReceipt, call, crashes, history>>
  BY DEF CleanupBegins
<1> USE DEF IInv
<1>1. TypeOK'
  BY <1>p, <1>s, <1>c, <1>f DEF TypeOK
<1>2. CallsSound' /\ StatusSound' /\ CleanupSound'
  <2>1. CallsSound'
    BY <1>s, <1>c, <1>f DEF CallsSound, Free
  <2>2. StatusSound'
    BY <1>s, <1>c, <1>f DEF StatusSound, Free
  <2>3. CleanupSound'
    BY <1>p, <1>s, <1>c, <1>f DEF CleanupSound
  <2> QED
    BY <2>1, <2>2, <2>3
<1>3. RecordsSound' /\ MediaSound'
  <2>1. RecordsSound'
    BY <1>s, <1>c, <1>f DEF RecordsSound, MediaSound
  <2>2. MediaSound'
    BY <1>s, <1>c, <1>f DEF MediaSound
  <2> QED
    BY <2>1, <2>2
<1>4. DecisionSound'
  BY <1>s, <1>c, <1>f DEF DecisionSound
<1>5. ReceiptIsBacked' /\ RecordsAreBacked'
  BY <1>s, <1>c, <1>f DEF ReceiptIsBacked, RecordsAreBacked
<1>6. AnswersTheAttempt' /\ CleanupAnswersHold'
  BY <1>s, <1>c, <1>f DEF AnswersTheAttempt, CleanupAnswersHold, TypeOK
<1> QED
  BY <1>1, <1>2, <1>3, <1>4, <1>5, <1>6 DEF IInv

LEMMA CleanupAcceptedKeeps ==
  ASSUME IInv, NEW k \in CleanupRequests, CleanupAccepted(k)
  PROVE  IInv'
<1>1. CleanupBegins(k) /\ cleanup' \in {cleanup, Idle, [step |-> "purge", request |-> k]}
  BY DEF CleanupAccepted
<1>2. torn' \in BOOLEAN /\ full' \in 0 .. MaxFull
  BY DEF IInv, TypeOK, CleanupAccepted
<1> QED
  BY <1>1, <1>2, CleanupBeginsKeeps

(* A cleanup goes on. *)
LEMMA CleanupResumedKeeps ==
  ASSUME IInv, NEW k \in CleanupRequests, CleanupResumed(k)
  PROVE  IInv'
<1> USE DEF IInv, CleanupResumed, Free, Resumes
<1>1. TypeOK'
  BY DEF TypeOK
<1>2. CallsSound' /\ StatusSound' /\ CleanupSound'
  BY DEF CallsSound, StatusSound, CleanupSound
<1>3. RecordsSound' /\ MediaSound'
  <2>1. RecordsSound'
    BY DEF RecordsSound, MediaSound
  <2>2. MediaSound'
    BY DEF MediaSound
  <2> QED
    BY <2>1, <2>2
<1>4. DecisionSound'
  BY DEF DecisionSound
<1>5. ReceiptIsBacked' /\ RecordsAreBacked'
  BY DEF ReceiptIsBacked, RecordsAreBacked
<1>6. AnswersTheAttempt' /\ CleanupAnswersHold'
  BY DEF AnswersTheAttempt, CleanupAnswersHold
<1> QED
  BY <1>1, <1>2, <1>3, <1>4, <1>5, <1>6 DEF IInv

(* One media file is removed. *)
LEMMA PurgeOneKeeps ==
  ASSUME IInv, PurgeOne
  PROVE  IInv'
<1>f. /\ files' \subseteq files
      /\ \A x : x \notin Media => (x \in files' <=> x \in files)
      /\ UNCHANGED <<session, verdict, plan, cleanupReceipt, torn, call, cleanup, bounds, history>>
      /\ cleanup.step = "purge"
  BY DEF PurgeOne, MediaOnDisk
<1> USE DEF IInv
<1>1. TypeOK'
  BY <1>f DEF TypeOK
<1>2. CallsSound' /\ StatusSound' /\ CleanupSound'
  BY <1>f DEF CallsSound, StatusSound, CleanupSound
<1>3. RecordsSound' /\ MediaSound'
  <2>1. RecordsSound'
    BY <1>f DEF RecordsSound, Media
  <2>2. MediaSound'
    BY <1>f DEF MediaSound, CleanupSound
  <2> QED
    BY <2>1, <2>2
<1>4. DecisionSound'
  BY <1>f DEF DecisionSound, Media
<1>5. ReceiptIsBacked' /\ RecordsAreBacked'
  BY <1>f DEF ReceiptIsBacked, RecordsAreBacked, CleanupSound, Media, CleanupSound
<1>6. AnswersTheAttempt' /\ CleanupAnswersHold'
  BY <1>f DEF AnswersTheAttempt, CleanupAnswersHold, CleanupSound
<1> QED
  BY <1>1, <1>2, <1>3, <1>4, <1>5, <1>6 DEF IInv

(* No media is left. *)
LEMMA PurgeEndsKeeps ==
  ASSUME IInv, PurgeEnds
  PROVE  IInv'
<1> USE DEF IInv, PurgeEnds
<1>1. TypeOK'
  BY DEF TypeOK
<1>2. CallsSound' /\ StatusSound' /\ CleanupSound'
  BY DEF CallsSound, StatusSound, CleanupSound, MediaOnDisk
<1>3. RecordsSound' /\ MediaSound'
  <2>1. RecordsSound'
    BY DEF RecordsSound, MediaSound
  <2>2. MediaSound'
    BY DEF MediaSound
  <2> QED
    BY <2>1, <2>2
<1>4. DecisionSound'
  BY DEF DecisionSound
<1>5. ReceiptIsBacked' /\ RecordsAreBacked'
  BY DEF ReceiptIsBacked, RecordsAreBacked
<1>6. AnswersTheAttempt' /\ CleanupAnswersHold'
  BY DEF AnswersTheAttempt, CleanupAnswersHold, CleanupSound
<1> QED
  BY <1>1, <1>2, <1>3, <1>4, <1>5, <1>6 DEF IInv

(* The cleanup has its receipt. *)
LEMMA WriteCleanupReceiptKeeps ==
  ASSUME IInv, WriteCleanupReceipt
  PROVE  IInv'
<1> USE DEF IInv, WriteCleanupReceipt
<1>1. TypeOK'
  BY DEF TypeOK
<1>2. CallsSound' /\ StatusSound' /\ CleanupSound'
  BY DEF CallsSound, StatusSound, CleanupSound, MediaOnDisk
<1>3. RecordsSound' /\ MediaSound'
  <2>1. RecordsSound'
    BY DEF RecordsSound, MediaSound
  <2>2. MediaSound'
    BY DEF MediaSound
  <2> QED
    BY <2>1, <2>2
<1>4. DecisionSound'
  BY DEF DecisionSound
<1>5. ReceiptIsBacked' /\ RecordsAreBacked'
  BY DEF ReceiptIsBacked, RecordsAreBacked
<1>6. AnswersTheAttempt' /\ CleanupAnswersHold'
  BY DEF AnswersTheAttempt, CleanupAnswersHold, CleanupSound
<1> QED
  BY <1>1, <1>2, <1>3, <1>4, <1>5, <1>6 DEF IInv

(* The session is purged; the answer may not be given. *)
LEMMA PurgedKeeps ==
  ASSUME IInv, cleanup.step = "session.purged", session' = Purged, cleanup' = Idle,
         purged' \in {purged, purged \cup {cleanup.request}},
         torn' \in BOOLEAN, full' \in 0 .. MaxFull,
         UNCHANGED <<files, verdict, plan, cleanupReceipt, call, crashes, stopped>>
  PROVE  IInv'
<1>r. cleanup.request \in CleanupRequests
  BY DEF IInv, TypeOK, CleanupSound
<1>s. session' \in Session /\ purged' \subseteq CleanupRequests
      /\ cleanup' \in [step : {"idle", "purge", "receipt", "session.purged"},
                  request : CleanupRequests \cup {Absent}]
  BY <1>r DEF IInv, TypeOK, Session, Status, Purged, Idle
<1> USE DEF IInv, Purged, Idle
<1>1. TypeOK'
  BY <1>s DEF TypeOK
<1>2. CallsSound' /\ StatusSound' /\ CleanupSound'
  BY <1>s DEF CallsSound, StatusSound, CleanupSound, MediaOnDisk
<1>3. RecordsSound' /\ MediaSound'
  <2>1. RecordsSound'
    BY <1>s DEF RecordsSound, MediaSound
  <2>2. MediaSound'
    BY <1>s DEF MediaSound
  <2> QED
    BY <2>1, <2>2
<1>4. DecisionSound'
  BY <1>s DEF DecisionSound
<1>5. ReceiptIsBacked' /\ RecordsAreBacked'
  BY <1>s DEF ReceiptIsBacked, RecordsAreBacked
<1>6. AnswersTheAttempt' /\ CleanupAnswersHold'
  BY <1>s DEF AnswersTheAttempt, CleanupAnswersHold, CleanupSound, MediaOnDisk
<1> QED
  BY <1>1, <1>2, <1>3, <1>4, <1>5, <1>6 DEF IInv

LEMMA RecordPurgedKeeps ==
  ASSUME IInv, RecordPurged
  PROVE  IInv'
<1>1. torn' \in BOOLEAN /\ full' \in 0 .. MaxFull
  BY DEF IInv, TypeOK, RecordPurged
<1> QED
  BY <1>1, PurgedKeeps DEF RecordPurged

(* A step that changes no more than the bound and the events, or lets go of a
   cleanup. *)
LEMMA LetGoKeeps ==
  ASSUME IInv, cleanup' \in {cleanup, Idle},
         torn' \in BOOLEAN, full' \in 0 .. MaxFull,
         UNCHANGED <<session, files, verdict, plan, cleanupReceipt, call, crashes, history>>
  PROVE  IInv'
<1>c. /\ cleanup'.step \in {cleanup.step, "idle"}
      /\ cleanup'.step # "idle" => cleanup' = cleanup
      /\ cleanup' \in [step : {"idle", "purge", "receipt", "session.purged"},
                       request : CleanupRequests \cup {Absent}]
  BY DEF IInv, TypeOK, Idle
<1> USE DEF IInv
<1>1. TypeOK'
  BY <1>c DEF TypeOK
<1>2. CallsSound' /\ StatusSound' /\ CleanupSound'
  BY <1>c DEF CallsSound, StatusSound, CleanupSound, MediaOnDisk
<1>3. RecordsSound' /\ MediaSound'
  <2>1. RecordsSound'
    BY <1>c DEF RecordsSound, MediaSound
  <2>2. MediaSound'
    BY <1>c DEF MediaSound
  <2> QED
    BY <2>1, <2>2
<1>4. DecisionSound'
  BY <1>c DEF DecisionSound
<1>5. ReceiptIsBacked' /\ RecordsAreBacked'
  BY <1>c DEF ReceiptIsBacked, RecordsAreBacked
<1>6. AnswersTheAttempt' /\ CleanupAnswersHold'
  BY <1>c DEF AnswersTheAttempt, CleanupAnswersHold, MediaOnDisk
<1> QED
  BY <1>1, <1>2, <1>3, <1>4, <1>5, <1>6 DEF IInv

(* A cleanup fails on a full disk, or a line of the events is cut short. *)
LEMMA CleanupFailsKeeps ==
  ASSUME IInv, CleanupFails \/ EventCutShort
  PROVE  IInv'
<1>t. torn \in BOOLEAN /\ full \in 0 .. MaxFull
  BY DEF IInv, TypeOK
<1>1. torn' \in BOOLEAN /\ full' \in 0 .. MaxFull
  <2>1. torn' \in BOOLEAN
    BY <1>t DEF CleanupFails, EventCutShort
  <2>2. full < MaxFull /\ full' = full + 1
    BY DEF CleanupFails, EventCutShort
  <2>3. full' \in 0 .. MaxFull
    BY <1>t, <2>2
  <2> QED
    BY <2>1, <2>3
<1>2. CASE EventCutShort
  BY <1>1, <1>2, LetGoKeeps DEF EventCutShort
<1>3. CASE CleanupFails
  <2>1. cleanup' = Idle
        /\ UNCHANGED <<files, verdict, cleanupReceipt, call, crashes, history>>
    BY <1>3 DEF CleanupFails
  <2>2. CASE UNCHANGED <<session, plan>>
    BY <1>1, <2>1, <2>2, LetGoKeeps
  <2>3. CASE cleanup.step = "session.purged" /\ session' = Purged /\ UNCHANGED plan
    BY <1>1, <2>1, <2>3, PurgedKeeps
  <2>4. ASSUME NEW k \in CleanupRequests, CleanupBegins(k) PROVE IInv'
    BY <1>1, <2>1, <2>4, CleanupBeginsKeeps
  <2> QED
    BY <1>3, <2>2, <2>3, <2>4 DEF CleanupFails
<1> QED
  BY <1>2, <1>3

(* An append fails the session. *)
LEMMA AppendFailsKeeps ==
  ASSUME IInv, AppendFails
  PROVE  IInv'
<1> USE DEF IInv, AppendFails, Free
<1>1. TypeOK'
  BY DEF TypeOK, Session, Status
<1>2. CallsSound' /\ StatusSound' /\ CleanupSound'
  BY DEF CallsSound, StatusSound, CleanupSound
<1>3. RecordsSound' /\ MediaSound'
  <2>1. RecordsSound'
    BY DEF RecordsSound, MediaSound, CallsSound, StatusSound
  <2>2. MediaSound'
    BY DEF MediaSound, CallsSound, StatusSound
  <2> QED
    BY <2>1, <2>2
<1>4. DecisionSound'
  BY DEF DecisionSound
<1>5. ReceiptIsBacked' /\ RecordsAreBacked'
  BY DEF ReceiptIsBacked, RecordsAreBacked
<1>6. AnswersTheAttempt' /\ CleanupAnswersHold'
  BY DEF AnswersTheAttempt, CleanupAnswersHold, StatusSound, TypeOK
<1> QED
  BY <1>1, <1>2, <1>3, <1>4, <1>5, <1>6 DEF IInv

(* The revision moves on. *)
LEMMA RevokePlaybackKeeps ==
  ASSUME IInv, RevokePlayback
  PROVE  IInv'
<1>p. plan' \in Plan
  BY DEF IInv, TypeOK, Plan, RevokePlayback
<1> USE DEF IInv, RevokePlayback, Free
<1>1. TypeOK'
  BY <1>p DEF TypeOK
<1>2. CallsSound' /\ StatusSound' /\ CleanupSound'
  BY <1>p DEF CallsSound, StatusSound, CleanupSound, MediaOnDisk
<1>3. RecordsSound' /\ MediaSound'
  <2>1. RecordsSound'
    BY <1>p DEF RecordsSound, MediaSound
  <2>2. MediaSound'
    BY <1>p DEF MediaSound
  <2> QED
    BY <2>1, <2>2
<1>4. DecisionSound'
  BY <1>p DEF DecisionSound
<1>5. ReceiptIsBacked' /\ RecordsAreBacked'
  BY <1>p DEF ReceiptIsBacked, RecordsAreBacked
<1>6. AnswersTheAttempt' /\ CleanupAnswersHold'
  BY <1>p DEF AnswersTheAttempt, CleanupAnswersHold, MediaOnDisk
<1> QED
  BY <1>1, <1>2, <1>3, <1>4, <1>5, <1>6 DEF IInv

(* The process dies. *)
LEMMA CrashKeeps ==
  ASSUME IInv, Crash
  PROVE  IInv'
<1>s. crashes' \in 0 .. MaxCrashes /\ cleanup' \in [step : {"idle", "purge", "receipt", "session.purged"},
                  request : CleanupRequests \cup {Absent}]
      /\ call' \in [Calls -> [step : Steps, request : StopRequests \cup {Absent}]]
  BY DEF IInv, TypeOK, Crash, Idle, Steps
<1> USE DEF IInv, Crash, Idle
<1>1. TypeOK'
  BY <1>s DEF TypeOK
<1>2. CallsSound' /\ StatusSound' /\ CleanupSound'
  BY <1>s DEF CallsSound, StatusSound, CleanupSound, MediaOnDisk
<1>3. RecordsSound' /\ MediaSound'
  <2>1. RecordsSound'
    BY <1>s DEF RecordsSound, MediaSound
  <2>2. MediaSound'
    BY <1>s DEF MediaSound
  <2> QED
    BY <2>1, <2>2
<1>4. DecisionSound'
  BY <1>s DEF DecisionSound
<1>5. ReceiptIsBacked' /\ RecordsAreBacked'
  BY <1>s DEF ReceiptIsBacked, RecordsAreBacked
<1>6. AnswersTheAttempt' /\ CleanupAnswersHold'
  BY <1>s DEF AnswersTheAttempt, CleanupAnswersHold, MediaOnDisk
<1> QED
  BY <1>1, <1>2, <1>3, <1>4, <1>5, <1>6 DEF IInv

(* Every failure of a stop leads to its catch, and from there to the answer. *)
LEMMA FailuresAreCaught ==
  ASSUME IInv, NEW c \in Calls,
         \/ RefuseManifest(c) \/ RefuseRecording(c) \/ SignedMapExists(c)
         \/ VerificationBreaks(c) \/ RefuseVerdict(c) \/ NoRoomForCopy(c)
         \/ WriteFails(c) \/ Catch(c)
         \/ torn /\ \/ RecordManifest(c) \/ RecordRecording(c) \/ RecordPending(c)
                    \/ RecordExact(c) \/ RecordStopped(c)
  PROVE  \/ Abandoned(c)
         \/ Failed(c) /\ cleanup.step = "idle" /\ \A d \in Calls \ {c} : ~ Running(d)
<1>1. (Free /\ call[c].step # "idle") \/ Running(c)
  BY DEF RefuseManifest, RefuseRecording, SignedMapExists, VerificationBreaks,
         RefuseVerdict, NoRoomForCopy, WriteFails, Catch, Writes, Transits, Following,
         RecordManifest, RecordRecording, RecordPending, RecordExact, RecordStopped
<1>2. cleanup.step = "idle" /\ \A d \in Calls \ {c} : ~ Running(d)
  BY <1>1 DEF IInv, CallsSound, Free
<1>3. full \in 0 .. MaxFull /\ torn \in BOOLEAN
  BY DEF IInv, TypeOK
<1>4. CASE \/ RefuseManifest(c) \/ RefuseRecording(c) \/ SignedMapExists(c)
           \/ VerificationBreaks(c) \/ RefuseVerdict(c) \/ NoRoomForCopy(c)
  BY <1>2, <1>3, <1>4 DEF RefuseManifest, RefuseRecording, SignedMapExists,
     VerificationBreaks, RefuseVerdict, NoRoomForCopy, Failed
<1>5. CASE torn /\ \/ RecordManifest(c) \/ RecordRecording(c) \/ RecordPending(c)
                   \/ RecordExact(c) \/ RecordStopped(c)
  BY <1>2, <1>3, <1>5 DEF RecordManifest, RecordRecording, RecordPending, RecordExact,
     RecordStopped, ThenLog, Transits, Failed
<1>6. CASE Catch(c)
  BY <1>3, <1>6 DEF Catch, Abandoned
<1>7. CASE WriteFails(c)
  <2>1. /\ torn' \in BOOLEAN /\ full' \in 0 .. MaxFull
        /\ UNCHANGED <<files, verdict, plan, cleanupReceipt, cleanup, crashes, history>>
        /\ session' = session \/ (Transits(c) /\ session' = Transition(c))
    <3>1. torn' \in BOOLEAN
      BY <1>3, <1>7 DEF WriteFails
    <3>2. full' \in 0 .. MaxFull
      BY <1>3, <1>7 DEF WriteFails
    <3> QED
      BY <1>7, <3>1, <3>2 DEF WriteFails
  <2>2. CASE At(c, "catch")
    <3>1. call' = [call EXCEPT ![c] = Idle]
      BY <1>7, <2>2 DEF WriteFails
    <3>2. Transition(c) = SessionAfterError
      BY <2>2 DEF Transition
    <3> QED
      BY <2>1, <2>2, <3>1, <3>2 DEF Abandoned
  <2>3. CASE ~ At(c, "catch")
    <3>1. call' = [call EXCEPT ![c] = [call[c] EXCEPT !.step = "catch"]]
      BY <1>7, <2>3 DEF WriteFails
    <3>2. Then(c, "catch") /\ call[c].step # "idle"
      BY <1>1, <3>1 DEF Then, IInv, TypeOK
    <3> QED
      BY <1>2, <2>1, <2>3, <3>2 DEF Failed
  <2> QED
    BY <2>2, <2>3
<1> QED
  BY <1>4, <1>5, <1>6, <1>7

LEMMA FailuresKeep ==
  ASSUME IInv, NEW c \in Calls,
         \/ RefuseManifest(c) \/ RefuseRecording(c) \/ SignedMapExists(c)
         \/ VerificationBreaks(c) \/ RefuseVerdict(c) \/ NoRoomForCopy(c)
         \/ WriteFails(c) \/ Catch(c)
         \/ torn /\ \/ RecordManifest(c) \/ RecordRecording(c) \/ RecordPending(c)
                    \/ RecordExact(c) \/ RecordStopped(c)
  PROVE  IInv'
BY FailuresAreCaught, FailedKeeps, AbandonedKeeps

(* A session that is running and was not asked to stop. *)
LEMMA InitIInv == Init => IInv
<1> SUFFICES ASSUME Init PROVE IInv
  OBVIOUS
<1> USE DEF Init, Idle
<1>1. TypeOK
  <2>1. session \in Session
    BY DEF Session, Status
  <2>2. torn \in BOOLEAN /\ verdict = Absent
    OBVIOUS
  <2>3. crashes \in 0 .. MaxCrashes /\ full \in 0 .. MaxFull
    OBVIOUS
  <2>4. files \subseteq Files
    BY DEF Files, Media
  <2>5. call \in [Calls -> [step : Steps, request : StopRequests \cup {Absent}]]
    BY DEF Steps
  <2> QED
    BY <2>1, <2>2, <2>3, <2>4, <2>5 DEF TypeOK
<1>2. CallsSound /\ StatusSound
  BY DEF CallsSound, StatusSound
<1>3. RecordsSound /\ MediaSound /\ DecisionSound
  BY DEF RecordsSound, MediaSound, DecisionSound
<1>4. CleanupSound /\ CleanupAnswersHold /\ AnswersTheAttempt
  BY DEF CleanupSound, CleanupAnswersHold, AnswersTheAttempt
<1>5. ReceiptIsBacked /\ RecordsAreBacked
  BY DEF ReceiptIsBacked, RecordsAreBacked
<1> QED
  BY <1>1, <1>2, <1>3, <1>4, <1>5 DEF IInv

(* The steps of a stop. *)
LEMMA StopStepKeeps ==
  ASSUME IInv, NEW c \in Calls, StopStep(c)
  PROVE  IInv'
<1>1. CASE \/ RefuseManifest(c) \/ RefuseRecording(c) \/ SignedMapExists(c)
           \/ VerificationBreaks(c) \/ RefuseVerdict(c) \/ NoRoomForCopy(c) \/ Catch(c)
  BY <1>1, FailuresKeep
<1>2. CASE WriteFile(c) \/ WorkerStopped(c) \/ FinalizeManifest(c) \/ WriteSignedMap(c)
           \/ Verify(c) \/ RemovePrivateIngest(c)
  BY <1>2, WriteFileKeeps, WorkerStoppedKeeps, FinalizeManifestKeeps, WriteSignedMapKeeps,
     VerifyKeeps, RemovePrivateIngestKeeps
<1>3. CASE \/ ReuseRecording(c) \/ ReusePartial(c) \/ BeginCopy(c) \/ EndCopy(c)
           \/ RenameCopy(c)
  BY <1>3, ReuseRecordingKeeps, ReusePartialKeeps, BeginCopyKeeps, EndCopyKeeps,
     RenameCopyKeeps
<1>4. CASE \/ RecordManifest(c) \/ RecordRecording(c) \/ RecordPending(c) \/ RecordExact(c)
           \/ RecordStopped(c)
  BY <1>4, RecordManifestKeeps, RecordRecordingKeeps, RecordPendingKeeps, RecordExactKeeps,
     RecordStoppedKeeps, FailuresKeep
<1> QED
  BY <1>1, <1>2, <1>3, <1>4 DEF StopStep

(* Every step. *)
LEMMA NextKeeps == IInv /\ [Next]_vars => IInv'
<1> SUFFICES ASSUME IInv, [Next]_vars PROVE IInv'
  OBVIOUS
<1>1. CASE \E k \in StopRequests : StopReplayed(k)
  BY <1>1, StopReplayedKeeps
<1>2. CASE \E c \in Calls, k \in StopRequests : StopAccepted(c, k) \/ StopAcceptFails(c, k)
  BY <1>2, StopAcceptedKeeps
<1>3. CASE \E c \in Calls : StopStep(c) \/ WriteFails(c)
  BY <1>3, StopStepKeeps, FailuresKeep
<1>4. CASE PlanCleanup \/ PlanExpires
  BY <1>4, PlanCleanupKeeps, PlanExpiresKeeps
<1>5. CASE \E k \in CleanupRequests :
             CleanupReplayed(k) \/ CleanupAccepted(k) \/ CleanupResumed(k)
  BY <1>5, CleanupReplayedKeeps, CleanupAcceptedKeeps, CleanupResumedKeeps
<1>6. CASE CleanupStep
  BY <1>6, PurgeOneKeeps, PurgeEndsKeeps, WriteCleanupReceiptKeeps, RecordPurgedKeeps
     DEF CleanupStep
<1>7. CASE AppendFails \/ RevokePlayback \/ Crash \/ CleanupFails \/ EventCutShort
  BY <1>7, AppendFailsKeeps, RevokePlaybackKeeps, CrashKeeps, CleanupFailsKeeps
<1>8. CASE UNCHANGED vars
  <2> USE <1>8 DEF vars
  <2>1. TypeOK' /\ CallsSound' /\ StatusSound'
    BY DEF IInv, TypeOK, CallsSound, StatusSound
  <2>2. RecordsSound' /\ MediaSound' /\ DecisionSound'
    BY DEF IInv, RecordsSound, MediaSound, DecisionSound
  <2>3. CleanupSound' /\ CleanupAnswersHold' /\ AnswersTheAttempt'
    BY DEF IInv, CleanupSound, CleanupAnswersHold, AnswersTheAttempt, MediaOnDisk
  <2>4. ReceiptIsBacked' /\ RecordsAreBacked'
    BY DEF IInv, ReceiptIsBacked, RecordsAreBacked
  <2> QED
    BY <2>1, <2>2, <2>3, <2>4 DEF IInv
<1> QED
  BY <1>1, <1>2, <1>3, <1>4, <1>5, <1>6, <1>7, <1>8 DEF Next

-----------------------------------------------------------------------------
(***************************************************************************)
(* Part 2: safety                                                          *)
(***************************************************************************)

(* The session, its files and the calls under way agree at every write of
   a stop or a cleanup, whatever dies or finds the disk full. *)
THEOREM EndInvariant == Spec => []IInv
<1>1. Init => IInv
  BY InitIInv
<1>2. IInv /\ [Next]_vars => IInv'
  BY NextKeeps
<1> QED
  BY <1>1, <1>2, PTL DEF Spec

(* The variables keep their types. *)
THEOREM EndTyped == Spec => []TypeOK
<1>1. IInv => TypeOK
  BY DEF IInv
<1> QED
  BY <1>1, EndInvariant, PTL

(* A stop receipt speaks for files that are on disk and for an exact verdict
   (the receipt of stopSession). *)
THEOREM ReceiptsAreBacked == Spec => []ReceiptIsBacked
<1>1. IInv => ReceiptIsBacked
  BY DEF IInv
<1> QED
  BY <1>1, EndInvariant, PTL

(* Only the recorded attempt is answered (the replay rules of stopSession). *)
THEOREM OnlyTheAttemptIsAnswered == Spec => []AnswersTheAttempt
<1>1. IInv => AnswersTheAttempt
  BY DEF IInv
<1> QED
  BY <1>1, EndInvariant, PTL

(* manifest.json and recording.json are backed by the files they describe
   until a cleanup is accepted (finalizeManifest, finalizeRecording). *)
THEOREM RecordsStayBacked == Spec => []RecordsAreBacked
<1>1. IInv => RecordsAreBacked
  BY DEF IInv
<1> QED
  BY <1>1, EndInvariant, PTL

(* An answered cleanup leaves no media, for ever (executeCleanup). *)
THEOREM CleanupsHold == Spec => []CleanupAnswersHold
<1>1. IInv => CleanupAnswersHold
  BY DEF IInv
<1> QED
  BY <1>1, EndInvariant, PTL

(* The verdict on a recording is written once (the exclusive writes of
   createAndVerifyLiveFinalExact). *)
THEOREM DecisionIsFinal == Spec => OneDecision
<1>1. IInv /\ [Next]_vars => [verdict # Absent => verdict' = verdict]_vars
  <2> SUFFICES ASSUME IInv, Next, verdict # Absent PROVE verdict' = verdict
    OBVIOUS
  <2>1. ASSUME NEW c \in Calls, Verify(c) PROVE FALSE
    BY <2>1 DEF Verify, IInv, DecisionSound
  <2>2. ASSUME NEW c \in Calls, StopStep(c), ~ Verify(c) PROVE verdict' = verdict
    BY <2>2 DEF StopStep, WriteFile, WorkerStopped, RefuseManifest, FinalizeManifest,
      RecordManifest, RefuseRecording, ReuseRecording, ReusePartial, BeginCopy, EndCopy,
      RenameCopy, RecordRecording, RecordPending, WriteSignedMap, SignedMapExists,
      VerificationBreaks, RecordExact, RefuseVerdict, RemovePrivateIngest, RecordStopped,
      NoRoomForCopy, Catch
  <2>3. CASE \E c \in Calls : WriteFails(c)
    BY <2>3 DEF WriteFails
  <2>4. CASE \/ \E k \in StopRequests : StopReplayed(k)
             \/ \E c \in Calls, k \in StopRequests : StopAccepted(c, k) \/ StopAcceptFails(c, k)
    BY <2>4 DEF StopReplayed, StopAccepted, StopAcceptFails, StopBegins
  <2>5. CASE \/ PlanCleanup \/ PlanExpires \/ CleanupStep \/ CleanupFails
             \/ \E k \in CleanupRequests :
                  CleanupReplayed(k) \/ CleanupAccepted(k) \/ CleanupResumed(k)
    BY <2>5 DEF PlanCleanup, PlanExpires, CleanupStep, CleanupReplayed, CleanupAccepted,
      CleanupBegins, CleanupFails, CleanupResumed, PurgeOne, PurgeEnds, WriteCleanupReceipt, RecordPurged
  <2>6. CASE AppendFails \/ RevokePlayback \/ Crash \/ EventCutShort
    BY <2>6 DEF AppendFails, RevokePlayback, Crash, EventCutShort
  <2> QED
    BY <2>1, <2>2, <2>3, <2>4, <2>5, <2>6 DEF Next
<1> QED
  BY <1>1, EndInvariant, PTL DEF Spec, OneDecision

-----------------------------------------------------------------------------
(***************************************************************************)
(* Part 3: LiveSessionEnd implements SessionOutcome                        *)
(***************************************************************************)

(* A step that leaves the session's end where it was. *)
LEMMA StaysInPhase ==
  ASSUME session'.status = session.status,
         session'.cleanupAttempt = session.cleanupAttempt,
         session'.stopReceipt = session.stopReceipt,
         \/ Watchable' = Watchable
         \/ Phase \in {"ending", "overtaken"}
         \/ Phase = "cleaning" /\ ~ Watchable'
  PROVE  [Outcome!Next]_Outcome!outcome
<1>1. Phase' = Phase
  BY DEF Phase
<1>2. Watchable' \in BOOLEAN
  BY DEF Watchable
<1>3. CASE Watchable' = Watchable
  BY <1>1, <1>3 DEF Outcome!outcome
<1>4. CASE Watchable' # Watchable
  BY <1>1, <1>2, <1>4 DEF Outcome!Next, Outcome!Working
<1> QED
  BY <1>3, <1>4

(* A step that leaves the files and, of the session, the end where it was. *)
LEMMA StaysPut ==
  ASSUME session'.status = session.status,
         session'.cleanupAttempt = session.cleanupAttempt,
         session'.stopReceipt = session.stopReceipt,
         Recorded \cap files' = Recorded \cap files
  PROVE  [Outcome!Next]_Outcome!outcome
<1>1. Watchable' = Watchable
  BY DEF Watchable
<1> QED
  BY <1>1, StaysInPhase

(* An error is answered: the session fails, or the stop can be repeated. *)
LEMMA AbandonedImplements ==
  ASSUME IInv, NEW c \in Calls, Abandoned(c)
  PROVE  [Outcome!Next]_Outcome!outcome
<1>f. session' \in {session, SessionAfterError} /\ UNCHANGED files
  BY DEF Abandoned
<1>s. /\ session'.protectionMode = session.protectionMode
      /\ session'.cleanupAttempt = session.cleanupAttempt
      /\ session'.stopReceipt = session.stopReceipt
      /\ \/ session'.status = session.status
         \/ /\ session.status = "STOPPING"
            /\ session'.status = IF Protected THEN "FAILED" ELSE "CLEANUP_PENDING"
  BY <1>f, AfterError DEF IInv
<1>1. CASE session'.status = session.status
  BY <1>1, <1>f, <1>s, StaysPut
<1>2. CASE session'.status # session.status
  <2>1. Watchable' = Watchable
    BY <1>f DEF Watchable
  <2>2. Phase \in {"ending", "overtaken"} /\ session'.stopReceipt = session.stopReceipt
    BY <1>2, <1>s DEF Phase
  <2>3. CASE Protected
    <3>1. Phase' = "failed"
      BY <1>2, <1>s, <2>3 DEF Phase
    <3> QED
      BY <2>1, <2>2, <3>1 DEF Outcome!Next, Outcome!Failing, Outcome!Move
  <2>4. CASE ~ Protected
    <3>1. session.cleanupAttempt = Absent
      BY <1>2, <1>s, <2>4 DEF IInv, StatusSound
    <3>2. Phase = "ending" /\ Phase' = "ending"
      BY <1>2, <1>s, <2>4, <3>1 DEF Phase
    <3> QED
      BY <2>1, <2>2, <3>2 DEF Outcome!outcome
  <2> QED
    BY <2>3, <2>4
<1> QED
  BY <1>1, <1>2

(* The session is stopped: everything a viewer needs is there, unless the stop
   has overtaken a cleanup. *)
LEMMA StoppedImplements ==
  ASSUME IInv, session.status = "STOPPING", session'.status = "STOPPED",
         session'.cleanupAttempt = session.cleanupAttempt,
         NEW k \in StopRequests, session'.stopReceipt = k,
         session.cleanupAttempt = Absent => Recorded \subseteq files,
         Recorded \cap files' = Recorded \cap files
  PROVE  [Outcome!Next]_Outcome!outcome
<1>1. session.stopReceipt = Absent
  BY DEF IInv, StatusSound
<1>2. Phase = (IF session.cleanupAttempt = Absent THEN "ending" ELSE "overtaken")
      /\ Phase' = "stopped"
  BY DEF Phase
<1>3. Watchable' = Watchable /\ (session.cleanupAttempt = Absent => Watchable)
  BY DEF Watchable
<1>4. Outcome!Stopping(k)
  BY <1>1, <1>2, <1>3 DEF Outcome!Stopping
<1> QED
  BY <1>4 DEF Outcome!Next

(* A step fails: its transition may have been written. *)
LEMMA FailedImplements ==
  ASSUME IInv, NEW c \in Calls, Failed(c)
  PROVE  [Outcome!Next]_Outcome!outcome
<1>1. Recorded \cap files' = Recorded \cap files
  BY DEF Failed
<1>2. CASE session'.status = session.status /\ session'.stopReceipt = session.stopReceipt
  BY <1>1, <1>2, FailedSession, StaysPut
<1>3. CASE ~ (session'.status = session.status /\ session'.stopReceipt = session.stopReceipt)
  <2>1. /\ session.status = "STOPPING" /\ session'.status = "STOPPED"
        /\ session'.stopReceipt = session.stopAttempt
        /\ session.stopAttempt \in StopRequests
        /\ session'.cleanupAttempt = session.cleanupAttempt
        /\ session.cleanupAttempt = Absent => Recorded \subseteq files
    BY <1>3, FailedSession
  <2> QED
    BY <1>1, <2>1, StoppedImplements
<1> QED
  BY <1>2, <1>3

LEMMA FailuresImplement ==
  ASSUME IInv, NEW c \in Calls,
         \/ RefuseManifest(c) \/ RefuseRecording(c) \/ SignedMapExists(c)
         \/ VerificationBreaks(c) \/ RefuseVerdict(c) \/ NoRoomForCopy(c)
         \/ WriteFails(c) \/ Catch(c)
         \/ torn /\ \/ RecordManifest(c) \/ RecordRecording(c) \/ RecordPending(c)
                    \/ RecordExact(c) \/ RecordStopped(c)
  PROVE  [Outcome!Next]_Outcome!outcome
BY FailuresAreCaught, FailedImplements, AbandonedImplements

(* The steps of a stop that write: the artifacts come about while it is
   under way. *)
LEMMA StopStepImplements ==
  ASSUME IInv, NEW c \in Calls, StopStep(c), ~ RecordStopped(c)
  PROVE  [Outcome!Next]_Outcome!outcome
<1>1. CASE \/ RefuseManifest(c) \/ RefuseRecording(c) \/ SignedMapExists(c)
           \/ VerificationBreaks(c) \/ RefuseVerdict(c) \/ NoRoomForCopy(c) \/ Catch(c)
  BY <1>1, FailuresImplement
<1>2. CASE \/ WriteFile(c) \/ BeginCopy(c) \/ EndCopy(c) \/ RenameCopy(c) \/ ReusePartial(c)
  <2>1. UNCHANGED session
    BY <1>2 DEF WriteFile, BeginCopy, EndCopy, RenameCopy, ReusePartial
  <2>2. CASE call[c].step = "registry-row.json"
    <3>1. files' = files \cup {"registry-row.json"}
      BY <1>2, <2>2 DEF WriteFile, BeginCopy, EndCopy, RenameCopy, ReusePartial
    <3>2. Recorded \cap files' = Recorded \cap files
      BY <3>1
    <3> QED
      BY <2>1, <3>2, StaysPut
  <2>3. CASE call[c].step # "registry-row.json"
    <3>1. Running(c) /\ call[c].step \notin {"manifest", "registry-row.json",
                                            "session.exact", "catch"}
      BY <1>2, <2>3 DEF WriteFile, Following, BeginCopy, EndCopy, RenameCopy, ReusePartial
    <3>2. Phase \in {"ending", "overtaken"}
      BY <3>1 DEF IInv, StatusSound, Phase
    <3> QED
      BY <2>1, <3>2, StaysInPhase
  <2> QED
    BY <2>2, <2>3
<1>3. CASE \/ WorkerStopped(c) \/ FinalizeManifest(c) \/ ReuseRecording(c)
           \/ WriteSignedMap(c) \/ Verify(c) \/ RemovePrivateIngest(c)
  <2>1. /\ UNCHANGED session
        /\ files' \in {files, files \cup {"signed-map.json"},
                       files \cup {"final-verification.json"}, files \ {"private-ingest"}}
    BY <1>3 DEF WorkerStopped, FinalizeManifest, ReuseRecording, WriteSignedMap, Verify,
                RemovePrivateIngest
  <2>2. Recorded \cap files' = Recorded \cap files
    BY <2>1
  <2> QED
    BY <2>1, <2>2, StaysPut
<1>4. CASE RecordManifest(c) \/ RecordRecording(c) \/ RecordPending(c) \/ RecordExact(c)
  <2>1. /\ UNCHANGED files
        /\ session' = Transition(c)
        /\ call[c].step \in {"session.manifest", "session.recording", "session.pending",
                             "session.exact"}
    BY <1>4 DEF RecordManifest, RecordRecording, RecordPending, RecordExact
  <2>2. session' \in {[session EXCEPT !.manifest = TRUE], [session EXCEPT !.recording = TRUE],
                     [session EXCEPT !.final = "PENDING"],
                     [session EXCEPT !.final = "EXACT_VERIFIED"]}
    BY <2>1 DEF Transition
  <2>3. /\ session'.status = session.status
        /\ session'.cleanupAttempt = session.cleanupAttempt
        /\ session'.stopReceipt = session.stopReceipt
    BY <2>2 DEF IInv, TypeOK, Session
  <2> QED
    BY <2>1, <2>3, StaysPut
<1> QED
  BY <1>1, <1>2, <1>3, <1>4 DEF StopStep

(* The end of a stop. *)
LEMMA RecordStoppedImplements ==
  ASSUME IInv, NEW c \in Calls, RecordStopped(c)
  PROVE  [Outcome!Next]_Outcome!outcome
<1>1. session.status = "STOPPING" /\ (session.cleanupAttempt = Absent => Recorded \subseteq files)
  BY DEF IInv, RecordStopped, StatusSound, RecordsSound, MediaSound
<1>2. call[c].request \in StopRequests
  BY DEF IInv, TypeOK, CallsSound, RecordStopped
<1>3. session' = [session EXCEPT !.status = "STOPPED", !.stopReceipt = call[c].request]
  BY DEF RecordStopped, Transition
<1>4. session'.status = "STOPPED" /\ session'.stopReceipt = call[c].request
      /\ session'.cleanupAttempt = session.cleanupAttempt
  BY <1>3 DEF IInv, TypeOK, Session
<1>5. UNCHANGED files
  BY DEF RecordStopped
<1> QED
  BY <1>1, <1>2, <1>4, <1>5, StoppedImplements

(* A stop begins, begins again, or overtakes a cleanup. *)
LEMMA StopBeginsImplements ==
  ASSUME IInv, NEW c \in Calls, NEW k \in StopRequests, StopBegins(c, k)
  PROVE  [Outcome!Next]_Outcome!outcome
<1>1. /\ session.stopReceipt = Absent /\ UNCHANGED files
      /\ session.status \in {"RUNNING", "STOPPING", "CLEANUP_PENDING"}
  BY DEF StopBegins, Retries
<1>2. /\ session'.status = "STOPPING"
      /\ session'.cleanupAttempt = session.cleanupAttempt
      /\ session'.stopReceipt = session.stopReceipt
  <2>1. CASE session.status = "STOPPING"
    BY <2>1 DEF StopBegins
  <2>2. CASE session.status # "STOPPING"
    <3>1. session' = [session EXCEPT !.status = "STOPPING", !.stopAttempt = k]
      BY <2>2 DEF StopBegins
    <3> QED
      BY <3>1 DEF IInv, TypeOK, Session
  <2> QED
    BY <2>1, <2>2
<1>3. Watchable' = Watchable
      /\ Phase' = (IF session.cleanupAttempt = Absent THEN "ending" ELSE "overtaken")
  BY <1>1, <1>2 DEF Phase, Watchable
<1>4. CASE session.status = "RUNNING"
  <2>1. Phase = "live" /\ session.cleanupAttempt = Absent
    BY <1>4 DEF Phase, IInv, StatusSound
  <2> QED
    BY <1>2, <1>3, <2>1 DEF Outcome!Next, Outcome!Ending, Outcome!Move
<1>5. CASE session.status = "CLEANUP_PENDING" /\ session.cleanupAttempt # Absent
  <2>1. Phase = "cleaning"
    BY <1>5 DEF Phase
  <2> QED
    BY <1>1, <1>2, <1>3, <1>5, <2>1 DEF Outcome!Next, Outcome!Overtaken, Outcome!Move
<1>6. CASE \/ session.status = "STOPPING"
           \/ session.status = "CLEANUP_PENDING" /\ session.cleanupAttempt = Absent
  <2>1. Phase' = Phase
    BY <1>3, <1>6 DEF Phase
  <2> QED
    BY <1>2, <1>3, <2>1 DEF Outcome!outcome
<1> QED
  BY <1>1, <1>4, <1>5, <1>6

(* The steps of a cleanup. *)
LEMMA CleanupImplements ==
  ASSUME IInv, CleanupStep \/ CleanupFails \/ \E k \in CleanupRequests : CleanupAccepted(k)
  PROVE  [Outcome!Next]_Outcome!outcome
<1>1. CASE PurgeOne
  <2>1. UNCHANGED session /\ Phase = "cleaning"
    BY <1>1 DEF PurgeOne, IInv, CleanupSound, Phase
  <2>2. PICK f \in MediaOnDisk : files' = files \ {f}
    BY <1>1 DEF PurgeOne
  <2>3. CASE f \in Recorded
    <3>1. ~ Watchable'
      BY <2>2, <2>3 DEF Watchable
    <3> QED
      BY <2>1, <3>1, StaysInPhase
  <2>4. CASE f \notin Recorded
    <3>1. Recorded \cap files' = Recorded \cap files
      BY <2>2, <2>4
    <3> QED
      BY <2>1, <3>1, StaysPut
  <2> QED
    BY <2>3, <2>4
<1>2. CASE PurgeEnds \/ WriteCleanupReceipt
  <2>1. UNCHANGED <<session, files>>
    BY <1>2 DEF PurgeEnds, WriteCleanupReceipt
  <2> QED
    BY <2>1, StaysPut
<1>3. CASE cleanup.step = "session.purged" /\ session' = Purged /\ UNCHANGED files
  <2>1. session.status = "CLEANUP_PENDING" /\ session.cleanupAttempt # Absent
        /\ MediaOnDisk = {} /\ UNCHANGED files
    BY <1>3 DEF IInv, CleanupSound
  <2>2. session'.status = "PURGED" /\ session'.stopReceipt = session.stopReceipt
    BY <1>3 DEF Purged, IInv, TypeOK, Session
  <2>3. Phase = "cleaning" /\ Phase' = "purged"
    BY <2>1, <2>2 DEF Phase
  <2>4. ~ Watchable /\ ~ Watchable'
    BY <2>1 DEF Watchable, MediaOnDisk, Media
  <2>5. Watchable' = Watchable
    BY <2>1 DEF Watchable
  <2> QED
    BY <2>2, <2>3, <2>4, <2>5 DEF Outcome!Next, Outcome!Purging, Outcome!Move
<1>4. ASSUME NEW k \in CleanupRequests, CleanupBegins(k)
      PROVE  [Outcome!Next]_Outcome!outcome
  <2>1. session.status \in {"STOPPED", "FAILED"} /\ UNCHANGED files
    BY <1>4 DEF CleanupBegins, Plannable
  <2>2. /\ session'.status = "CLEANUP_PENDING" /\ session'.cleanupAttempt = k
        /\ session'.stopReceipt = session.stopReceipt
    BY <1>4 DEF CleanupBegins, IInv, TypeOK, Session
  <2>3. Phase \in {"stopped", "failed"} /\ Phase' = "cleaning"
    BY <2>1, <2>2 DEF Phase
  <2>4. Watchable' = Watchable
    BY <2>1 DEF Watchable
  <2> QED
    BY <2>2, <2>3, <2>4 DEF Outcome!Next, Outcome!Cleaning, Outcome!Move
<1>5. CASE CleanupFails /\ UNCHANGED session
  <2>1. UNCHANGED files
    BY <1>5 DEF CleanupFails
  <2> QED
    BY <1>5, <2>1, StaysPut
<1> QED
  BY <1>1, <1>2, <1>3, <1>4, <1>5
     DEF CleanupStep, CleanupFails, CleanupAccepted, RecordPurged

(* A stopped session has one receipt, stays watchable until a cleanup
   starts, and then only moves on to purged: the stop pipeline, the cleanup
   and their crashes implement SessionOutcome. *)
THEOREM EndImplementsOutcome == Spec => ImplementsOutcome
<1>1. Init => Outcome!Init
  <2> SUFFICES ASSUME Init PROVE Outcome!Init
    OBVIOUS
  <2>1. session.status = "RUNNING" /\ session.stopReceipt = Absent /\ "recording.mp4" \notin files
    BY DEF Init
  <2> QED
    BY <2>1 DEF Outcome!Init, Phase, Watchable
<1>2. IInv /\ [Next]_vars => [Outcome!Next]_Outcome!outcome
  <2> SUFFICES ASSUME IInv, [Next]_vars PROVE [Outcome!Next]_Outcome!outcome
    OBVIOUS
  <2>1. CASE UNCHANGED <<session, files>>
    BY <2>1, StaysPut
  <2>2. CASE \E c \in Calls, k \in StopRequests : StopAccepted(c, k) \/ StopAcceptFails(c, k)
    BY <2>2, StopBeginsImplements DEF StopAccepted, StopAcceptFails
  <2>3. CASE \E c \in Calls : StopStep(c)
    BY <2>3, StopStepImplements, RecordStoppedImplements
  <2>4. CASE \E c \in Calls : WriteFails(c)
    BY <2>4, FailuresImplement
  <2>5. CASE CleanupStep \/ CleanupFails \/ \E k \in CleanupRequests : CleanupAccepted(k)
    BY <2>5, CleanupImplements
  <2>6. CASE AppendFails
    <3>1. session.status = "RUNNING" /\ UNCHANGED files
      BY <2>6 DEF AppendFails
    <3>2. session'.status = "FAILED" /\ session'.stopReceipt = session.stopReceipt
      BY <2>6 DEF AppendFails, IInv, TypeOK, Session
    <3>3. Phase = "live" /\ Phase' = "failed" /\ Watchable' = Watchable
      BY <3>1, <3>2 DEF Phase, Watchable
    <3> QED
      BY <3>2, <3>3 DEF Outcome!Next, Outcome!Failing, Outcome!Move
  <2>7. CASE \/ \E k \in StopRequests : StopReplayed(k)
             \/ \E k \in CleanupRequests : CleanupReplayed(k) \/ CleanupResumed(k)
             \/ PlanCleanup \/ PlanExpires \/ RevokePlayback \/ Crash \/ EventCutShort
             \/ UNCHANGED vars
    <3>1. UNCHANGED <<session, files>>
      BY <2>7 DEF StopReplayed, CleanupReplayed, CleanupResumed, PlanCleanup, PlanExpires,
                  RevokePlayback, Crash, EventCutShort, vars
    <3> QED
      BY <3>1, <2>1
  <2> QED
    BY <2>2, <2>3, <2>4, <2>5, <2>6, <2>7 DEF Next
<1> QED
  BY <1>1, <1>2, EndInvariant, PTL DEF Spec, ImplementsOutcome, Outcome!Spec
=============================================================================
