----------------------------- MODULE DemoServer -----------------------------
(***************************************************************************)
(* The demo server (tancmark-demo/src/server.ts) with its gate for heavy   *)
(* operations, its browser sessions and the one live demo that runs beside *)
(* them (liveDemoController.ts).                                           *)
(*                                                                         *)
(* A handler runs to its next await: a POST is checked against its session *)
(* and its body is awaited (Read), and what the route does with it is one  *)
(* action. What a promise settles runs on in the same drain of the event   *)
(* loop. The stops that wait for a pipeline follow its end directly, in    *)
(* one action; a stop that awaits a promise settled long ago goes on only  *)
(* after whatever else the drain holds, such as the body of a request that *)
(* was sent down the same socket behind it.                                *)
(*                                                                         *)
(* Abstractions: text and image runs, which no gate holds, the media proxy *)
(* and the rate limit are left out, and so are request tokens; a session   *)
(* or a demo that nothing refers to any more stands for a fresh one; a row *)
(* of the registry is forgotten with the operation it was made for, since  *)
(* nobody else reads it. Removing a directory succeeds.                    *)
(***************************************************************************)
EXTENDS Naturals, Sequences, FiniteSets

CONSTANTS
  Browsers,     \* session ids
  Requests,     \* POST requests under way at a time
  Concurrency,  \* HeavyGate.concurrency
  QueueLimit,   \* HeavyGate.queueLimit
  MaxSessions,  \* MAX_SESSIONS
  Demos,        \* live demos, one for each start that is not forgotten yet
  None

ASSUME DemoAssumption ==
  /\ IsFiniteSet(Requests)
  /\ Concurrency \in Nat \ {0} /\ QueueLimit \in Nat /\ MaxSessions \in Nat \ {0}
  /\ Requests \cap Demos = {} /\ None \notin Demos

VARIABLES
  sessions,  \* the Map of sessions, the oldest first
  calls,     \* how far each request is
  active,    \* HeavyGate.#active
  queued,    \* HeavyGate.#queued
  live,      \* LiveDemoController.#state
  pipes,     \* demos whose pipeline has not settled
  previews,  \* demos whose playbackPromise is pending
  files,     \* operations whose registry row or work directory exists
  abandoned, \* whether one threw before the try that removes its directory
  process,   \* the server itself
  awaited    \* the demo shutdown waits for

vars == <<sessions, calls, active, queued, live, pipes, previews, files, abandoned, process, awaited>>

gateVars == <<active, queued>>

demoVars == <<live, pipes, previews>>

diskVars == <<files, abandoned>>

processVars == <<process, awaited>>

(***************************************************************************)
(* Values                                                                  *)
(***************************************************************************)

\* Audio and video runs give up after a time (timed), C2PA runs do not.
Heavy == {"timed", "c2pa"}

Kinds == Heavy \cup {"start", "stop", "reset"}

\* A call that gave up is answered; its operation runs on, "loose". A stop
\* waits for a pipeline ("stopping") or for its turn in the drain ("returning").
Places == {"reading", "waiting", "working", "loose", "stopping", "returning"}

Call == [at : Places, kind : Kinds, of : Browsers, demo : Demos \cup {None}]

Nothing == [at |-> "idle"]

Idle == [status |-> "IDLE"]

LiveStates ==
  {Idle} \cup [status : {"RUNNING", "COMPLETED", "FAILED"}, owner : Browsers, demo : Demos]

Running == live.status = "RUNNING"

Owns(b) == live # Idle /\ live.owner = b

At(place) == {r \in Requests : calls[r].at = place}

\* Mutant of Busy: a waiter does not count.
BusyActive == active > 0

Busy == active > 0 \/ queued > 0

TypeOK ==
  /\ sessions \in Seq(Browsers) /\ Len(sessions) <= MaxSessions
  /\ calls \in [Requests -> Call \cup {Nothing}]
  /\ active \in 0 .. Concurrency
  /\ queued \in 0 .. QueueLimit
  /\ live \in LiveStates
  /\ pipes \subseteq Demos /\ previews \subseteq Demos
  /\ files \subseteq Requests \cup Demos /\ abandoned \in BOOLEAN
  /\ process \in {"up", "closing", "down", "killed", "died"}
  /\ awaited \in Demos \cup {None}

Init ==
  /\ sessions = <<>>
  /\ calls = [r \in Requests |-> Nothing]
  /\ active = 0 /\ queued = 0
  /\ live = Idle /\ pipes = {} /\ previews = {}
  /\ files = {} /\ abandoned = FALSE
  /\ process = "up" /\ awaited = None

Alive == process \in {"up", "closing"}

\* A timer, a signal and a rejection nobody handles come after the drain.
Drained == Alive /\ At("returning") = {}

Open(b) == \E i \in 1 .. Len(sessions) : sessions[i] = b

Without(b) ==
  IF Open(b)
  THEN LET i == CHOOSE i \in 1 .. Len(sessions) : sessions[i] = b
       IN  SubSeq(sessions, 1, i - 1) \o SubSeq(sessions, i + 1, Len(sessions))
  ELSE sessions

Answer(r) == calls' = [calls EXCEPT ![r] = Nothing]

Moves(r, place) == calls' = [calls EXCEPT ![r].at = place]

(***************************************************************************)
(* Sessions                                                                *)
(***************************************************************************)

Fresh(b) ==
  /\ ~Open(b)
  /\ \A r \in Requests : calls[r] # Nothing => calls[r].of # b
  /\ ~Owns(b)

\* GET /demo opens a session, at the limit in place of the oldest.
OpenSession(b) ==
  /\ process = "up"
  /\ Fresh(b)
  /\ sessions' = Append(IF Len(sessions) >= MaxSessions THEN Tail(sessions) ELSE sessions, b)
  /\ UNCHANGED <<calls, gateVars, demoVars, diskVars, processVars>>

\* Sessions live equally long: the oldest expires first.
Expire ==
  /\ Alive
  /\ sessions # <<>>
  /\ sessions' = Tail(sessions)
  /\ UNCHANGED <<calls, gateVars, demoVars, diskVars, processVars>>

\* A POST of a session: the session is looked up here and never again.
Read(r, b, k) ==
  /\ process = "up"
  /\ calls[r] = Nothing
  /\ Open(b)
  /\ calls' = [calls EXCEPT ![r] = [at |-> "reading", kind |-> k, of |-> b, demo |-> None]]
  /\ UNCHANGED <<sessions, gateVars, demoVars, diskVars, processVars>>

Arrives(r, kinds) == Alive /\ calls[r].at = "reading" /\ calls[r].kind \in kinds

\* The body is not acceptable, or the route refuses it.
Refuse(r) ==
  /\ Arrives(r, Kinds)
  /\ Answer(r)
  /\ UNCHANGED <<sessions, gateVars, demoVars, diskVars, processVars>>

(***************************************************************************)
(* The gate                                                                *)
(***************************************************************************)

\* runAudio and runVideo make their row and directory when they begin;
\* the row of a C2PA run is there before the gate.
Enter(r) ==
  /\ Arrives(r, Heavy)
  /\ ~Running
  /\ active < Concurrency
  /\ active' = active + 1
  /\ Moves(r, "working")
  /\ files' = files \cup {r}
  /\ UNCHANGED <<sessions, queued, demoVars, abandoned, processVars>>

Wait(r) ==
  /\ Arrives(r, Heavy)
  /\ ~Running
  /\ active >= Concurrency /\ queued < QueueLimit
  /\ queued' = queued + 1
  /\ Moves(r, "waiting")
  /\ files' = IF calls[r].kind = "c2pa" THEN files \cup {r} ELSE files
  /\ UNCHANGED <<sessions, active, demoVars, abandoned, processVars>>

\* A waiter looks again every 50 ms; a newcomer may be faster.
Poll(r) ==
  /\ Drained
  /\ calls[r].at = "waiting"
  /\ active < Concurrency
  /\ queued' = queued - 1
  /\ active' = active + 1
  /\ Moves(r, "working")
  /\ files' = IF calls[r].kind = "timed" THEN files \cup {r} ELSE files
  /\ UNCHANGED <<sessions, demoVars, abandoned, processVars>>

\* Mutant of Finish: no finally around the work directory.
FinishLeaves(r) ==
  /\ Alive
  /\ calls[r].at = "working"
  /\ active' = active - 1
  /\ Answer(r)
  /\ files' \in {files, files \ {r}}
  /\ UNCHANGED <<sessions, queued, demoVars, abandoned, processVars>>

\* The operation returns, or throws inside its try: its finally removes what
\* it left. One that throws before it has a directory ends the same way.
Finish(r) ==
  /\ Alive
  /\ calls[r].at = "working"
  /\ active' = active - 1
  /\ Answer(r)
  /\ files' = files \ {r}
  /\ UNCHANGED <<sessions, queued, demoVars, abandoned, processVars>>

\* It throws after it made its directory and before its try, while it takes
\* the fixture's hash and copies it: the directory stays.
FinishUnprepared(r) ==
  /\ Alive
  /\ calls[r].at = "working" /\ calls[r].kind = "c2pa"
  /\ active' = active - 1
  /\ Answer(r)
  /\ files' = files \ {r}
  /\ abandoned' = TRUE
  /\ UNCHANGED <<sessions, queued, demoVars, processVars>>

\* Mutant of GiveUp: the timeout skips the gate's finally.
GiveUpKeepsGate(r) ==
  /\ Drained
  /\ calls[r].at = "working" /\ calls[r].kind = "timed"
  /\ Moves(r, "loose")
  /\ UNCHANGED <<sessions, gateVars, demoVars, diskVars, processVars>>

\* withTimeout rejects: the gate reopens, the operation goes on.
GiveUp(r) ==
  /\ Drained
  /\ calls[r].at = "working" /\ calls[r].kind = "timed"
  /\ active' = active - 1
  /\ Moves(r, "loose")
  /\ UNCHANGED <<sessions, queued, demoVars, diskVars, processVars>>

LooseEnds(r) ==
  /\ Alive
  /\ calls[r].at = "loose"
  /\ Answer(r)
  /\ files' = files \ {r}
  /\ UNCHANGED <<sessions, gateVars, demoVars, abandoned, processVars>>

(***************************************************************************)
(* The live demo                                                           *)
(***************************************************************************)

FreshDemo(d) ==
  /\ d \notin pipes \cup previews \cup {awaited}
  /\ live # Idle => live.demo # d
  /\ \A r \in Requests : calls[r] # Nothing => calls[r].demo # d

Start(r, d) ==
  /\ Arrives(r, {"start"})
  /\ ~Busy
  /\ ~Running
  /\ FreshDemo(d)
  /\ live' = [status |-> "RUNNING", owner |-> calls[r].of, demo |-> d]
  /\ pipes' = pipes \cup {d} /\ previews' = previews \cup {d}
  /\ files' = files \cup {d}
  /\ Answer(r)
  /\ UNCHANGED <<sessions, gateVars, abandoned, processVars>>

\* The stream can be played and the browser was observed.
Preview(d) ==
  /\ Alive
  /\ d \in previews
  /\ previews' = previews \ {d}
  /\ UNCHANGED <<sessions, calls, gateVars, live, pipes, diskVars, processVars>>

\* stop awaits the promise of the state it finds, settled or not.
Stop(r) ==
  /\ Arrives(r, {"stop"})
  /\ Owns(calls[r].of)
  /\ calls' = [calls EXCEPT ![r].at = IF Running THEN "stopping" ELSE "returning",
                            ![r].demo = live.demo]
  /\ UNCHANGED <<sessions, gateVars, demoVars, diskVars, processVars>>

\* The promise was settled before: the finally of stop clears whatever state
\* the controller has by now.
StopReturns(r) ==
  /\ Alive
  /\ calls[r].at = "returning"
  /\ live' = Idle
  /\ Answer(r)
  /\ UNCHANGED <<sessions, gateVars, pipes, previews, diskVars, processVars>>

\* What the registry and the temporary directory hold is gone.
Erased == files' = {} /\ abandoned' = FALSE

Gone(exit) ==
  /\ process' = exit /\ awaited' = None
  /\ sessions' = <<>>
  /\ calls' = [r \in Requests |-> Nothing]
  /\ active' = 0 /\ queued' = 0
  /\ live' = Idle /\ pipes' = {} /\ previews' = {}

Waiting(d) == {r \in At("stopping") : calls[r].demo = d}

\* The pipeline of d settles with a status: the finally of the pipeline has
\* removed its directory, the state of d, if it still is the controller's, gets
\* the status, and the stops that wait for d return and clear the state. The
\* playback promise exists as soon as the publisher runs, and a pipeline that
\* completes has awaited it.
Settles(d, status) ==
  /\ d \in pipes
  /\ pipes' = pipes \ {d}
  /\ status = "COMPLETED" => d \notin previews
  /\ previews' \in {previews, previews \ {d}}
  /\ live' = IF Waiting(d) # {} THEN Idle
             ELSE IF live # Idle /\ live.demo = d THEN [live EXCEPT !.status = status]
             ELSE live
  /\ calls' = [r \in Requests |-> IF r \in Waiting(d) THEN Nothing ELSE calls[r]]
  /\ UNCHANGED <<sessions, gateVars, processVars>>

Settle(d, status) ==
  /\ Alive
  /\ awaited # d
  /\ Settles(d, status)
  /\ files' = files \ {d}
  /\ UNCHANGED abandoned

\* The pipeline throws after it made its directory and before its try.
SettleUnprepared(d) ==
  /\ Alive
  /\ awaited # d
  /\ Settles(d, "FAILED")
  /\ files' = files \ {d}
  /\ abandoned' = TRUE

Reset(r) ==
  /\ Arrives(r, {"reset"})
  /\ ~Running
  /\ Erased
  /\ sessions' = Without(calls[r].of)
  /\ Answer(r)
  /\ UNCHANGED <<gateVars, demoVars, processVars>>

(***************************************************************************)
(* The end of the process                                                  *)
(***************************************************************************)

\* A signal aborts the demo of the controller and waits for its pipeline.
Signal ==
  /\ Drained
  /\ process = "up"
  /\ IF Running
     THEN /\ process' = "closing" /\ awaited' = live.demo
          /\ UNCHANGED <<sessions, calls, gateVars, demoVars, diskVars>>
     ELSE Gone("down") /\ Erased

\* The pipeline that shutdown waits for has settled.
Shutdown ==
  /\ process = "closing"
  /\ awaited \in pipes
  /\ Gone("down")
  /\ Erased

\* Fifteen seconds after the signal, or removing the directories has failed.
HardStop ==
  /\ Drained
  /\ process = "closing"
  /\ Gone("killed")
  /\ UNCHANGED diskVars

\* A preview was not ready in time, or was aborted, while its pipeline did not
\* await it: nobody handles the rejection, and the process ends.
Die ==
  /\ Drained
  /\ previews # {}
  /\ Gone("died")
  /\ UNCHANGED diskVars

Next ==
  \/ \E b \in Browsers : OpenSession(b)
  \/ Expire
  \/ \E r \in Requests :
       \/ \E b \in Browsers, k \in Kinds : Read(r, b, k)
       \/ Refuse(r)
       \/ Enter(r) \/ Wait(r) \/ Poll(r) \/ Finish(r) \/ FinishUnprepared(r)
       \/ GiveUp(r) \/ LooseEnds(r)
       \/ \E d \in Demos : Start(r, d)
       \/ Stop(r) \/ StopReturns(r) \/ Reset(r)
  \/ \E d \in Demos :
       \/ Preview(d) \/ SettleUnprepared(d)
       \/ \E status \in {"COMPLETED", "FAILED"} : Settle(d, status)
  \/ Signal \/ Shutdown \/ HardStop \/ Die

Spec == Init /\ [][Next]_vars

(***************************************************************************)
(* Properties                                                              *)
(***************************************************************************)

\* The gate's two counters agree with the calls that hold or await it,
\* whichever of its exits they took: a counter that stays up after a timeout
\* would close the gate, and the live demo, for good. It speaks of calls: the
\* operation of a call that gave up goes on behind the gate.
GateAgrees ==
  /\ active = Cardinality(At("working"))
  /\ queued = Cardinality(At("waiting"))

\* While the controller says that a live demo runs, no call holds or awaits
\* the gate, although a waiter passes it without looking at the live demo
\* again, and nobody takes the row of the demo away, without which it would
\* verify its own recording as not found. An operation whose call gave up may
\* still go on beside it, and a demo whose state a stop has cleared is not
\* protected any more.
LiveUndisturbed ==
  Running => /\ At("working") = {} /\ At("waiting") = {}
             /\ live.demo \in pipes /\ live.demo \in files

\* Whatever ended after its preparation leaves no directory behind, also when
\* its call gave up before, a reset came in between or its demo's state was
\* cleared, unless the process was killed or died; and an exit with status 0
\* leaves nothing at all.
FilesAreInUse ==
  /\ process \notin {"killed", "died"} =>
       files \subseteq pipes \cup At("waiting") \cup At("working") \cup At("loose")
  /\ process = "down" => files = {} /\ ~abandoned

IInv ==
  /\ TypeOK
  /\ GateAgrees
  /\ LiveUndisturbed
  /\ FilesAreInUse

=============================================================================
