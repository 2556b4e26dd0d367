-------------------------- MODULE DemoServerProofs --------------------------
(***************************************************************************)
(* The invariants of DemoServer hold for any number of browsers, requests, *)
(* demos and sessions and for any limits of the gate.                      *)
(***************************************************************************)
EXTENDS DemoServer, FiniteSetTheorems, TLAPS

(***************************************************************************)
(* Calls and the sets they make up                                         *)
(***************************************************************************)

LEMMA AtIsFinite ==
  ASSUME NEW place
  PROVE  IsFiniteSet(At(place)) /\ Cardinality(At(place)) \in Nat
<1>1. At(place) \subseteq Requests
  BY DEF At
<1>2. IsFiniteSet(At(place))
  BY <1>1, FS_Subset, DemoAssumption DEF DemoAssumption
<1> QED
  BY <1>2, FS_CardinalityType

\* A call that moves changes the two sets it leaves and enters.
LEMMA MoveCounts ==
  ASSUME NEW r \in Requests, NEW place \in Places, NEW from \in Places,
         calls \in [Requests -> Call \cup {Nothing}], calls[r].at = from, from # place, Moves(r, place)
  PROVE  /\ At(place)' = At(place) \cup {r}
         /\ At(from)' = At(from) \ {r}
         /\ \A p : p # place /\ p # from => At(p)' = At(p)
         /\ Cardinality(At(place)') = Cardinality(At(place)) + 1
         /\ Cardinality(At(from)') = Cardinality(At(from)) - 1
         /\ Cardinality(At(from)) \in Nat \ {0}
         /\ calls' \in [Requests -> Call \cup {Nothing}]
         /\ calls'[r].at = place /\ calls'[r].of = calls[r].of
         /\ \A q \in Requests : q # r => calls'[q] = calls[q]
<1>1. calls[r] \in Call
  BY DEF Nothing, Places
<1>2. calls' = [calls EXCEPT ![r].at = place]
  BY DEF Moves
<1>3. /\ calls'[r].at = place /\ calls'[r].of = calls[r].of
      /\ \A q \in Requests : q # r => calls'[q] = calls[q]
  BY <1>1, <1>2 DEF Call
<1>4. calls' \in [Requests -> Call \cup {Nothing}]
  BY <1>1, <1>2 DEF Call
<1>5. At(place)' = At(place) \cup {r}
  BY <1>3 DEF At
<1>6. At(from)' = At(from) \ {r}
  BY <1>3 DEF At
<1>7. \A p : p # place /\ p # from => At(p)' = At(p)
  BY <1>3 DEF At
<1>8. r \notin At(place) /\ r \in At(from)
  BY DEF At
<1>9. Cardinality(At(place)') = Cardinality(At(place)) + 1
  BY <1>5, <1>8, AtIsFinite, FS_AddElement
<1>10. /\ Cardinality(At(from)') = Cardinality(At(from)) - 1
      /\ Cardinality(At(from)') \in Nat
  BY <1>6, <1>8, AtIsFinite, FS_RemoveElement, FS_CardinalityType
<1> QED
  BY <1>3, <1>4, <1>5, <1>6, <1>7, <1>9, <1>10, AtIsFinite

\* A call that is answered leaves its set only.
LEMMA AnswerCounts ==
  ASSUME NEW r \in Requests, NEW from \in Places,
         calls \in [Requests -> Call \cup {Nothing}],
         calls[r].at = from, Answer(r)
  PROVE  /\ At(from)' = At(from) \ {r}
         /\ \A p \in Places : p # from => At(p)' = At(p)
         /\ Cardinality(At(from)') = Cardinality(At(from)) - 1
         /\ Cardinality(At(from)) \in Nat \ {0}
         /\ calls' \in [Requests -> Call \cup {Nothing}]
         /\ \A q \in Requests : q # r => calls'[q] = calls[q]
<1>1. calls[r] \in Call
  BY DEF Nothing, Places
<1>2. calls' = [calls EXCEPT ![r] = Nothing]
  BY DEF Answer
<1>3. /\ calls'[r].at = "idle"
      /\ \A q \in Requests : q # r => calls'[q] = calls[q]
  BY <1>2 DEF Nothing
<1>4. calls' \in [Requests -> Call \cup {Nothing}]
  BY <1>2
<1>5. "idle" \notin Places
  BY DEF Places
<1>6. At(from)' = At(from) \ {r}
  BY <1>3, <1>5 DEF At
<1>7. \A p \in Places : p # from => At(p)' = At(p)
  BY <1>3, <1>5 DEF At
<1>8. r \in At(from)
  BY DEF At
<1>9. /\ Cardinality(At(from)') = Cardinality(At(from)) - 1
      /\ Cardinality(At(from)') \in Nat
  BY <1>6, <1>8, AtIsFinite, FS_RemoveElement, FS_CardinalityType
<1> QED
  BY <1>3, <1>4, <1>6, <1>7, <1>9, AtIsFinite

LEMMA WithoutTyped ==
  ASSUME sessions \in Seq(Browsers), NEW b
  PROVE  Without(b) \in Seq(Browsers) /\ Len(Without(b)) <= Len(sessions)
<1>1. CASE ~Open(b)
  BY <1>1 DEF Without
<1>2. CASE Open(b)
  <2> DEFINE i == CHOOSE i \in 1 .. Len(sessions) : sessions[i] = b
  <2>1. i \in 1 .. Len(sessions)
    BY <1>2 DEF Open
  <2>2. Without(b) = SubSeq(sessions, 1, i - 1) \o SubSeq(sessions, i + 1, Len(sessions))
    BY <1>2 DEF Without
  <2> HIDE DEF i
  <2>3. /\ SubSeq(sessions, 1, i - 1) \in Seq(Browsers)
        /\ Len(SubSeq(sessions, 1, i - 1)) = i - 1
    BY <2>1
  <2>4. /\ SubSeq(sessions, i + 1, Len(sessions)) \in Seq(Browsers)
        /\ Len(SubSeq(sessions, i + 1, Len(sessions))) = Len(sessions) - i
    BY <2>1
  <2>5. Len(Without(b)) = (i - 1) + (Len(sessions) - i)
    BY <2>2, <2>3, <2>4
  <2>6. Without(b) \in Seq(Browsers)
    BY <2>2, <2>3, <2>4
  <2> QED
    BY <2>1, <2>5, <2>6
<1> QED
  BY <1>1, <1>2

(***************************************************************************)
(* The invariant                                                           *)
(***************************************************************************)

LEMMA InitHolds == Init => IInv
<1> SUFFICES ASSUME Init PROVE IInv
  OBVIOUS
<1> USE DEF Init
<1>1. \A p \in Places : At(p) = {}
  BY DEF At, Nothing, Places
<1>2. TypeOK
  <2>1. /\ sessions \in Seq(Browsers) /\ Len(sessions) <= MaxSessions
        /\ active \in 0 .. Concurrency /\ queued \in 0 .. QueueLimit
    BY DemoAssumption DEF DemoAssumption
  <2>2. abandoned \in BOOLEAN /\ process \in {"up", "closing", "down", "killed", "died"}
    OBVIOUS
  <2>3. /\ calls \in [Requests -> Call \cup {Nothing}] /\ live \in LiveStates
        /\ awaited \in Demos \cup {None}
    BY DEF LiveStates
  <2>4. pipes \subseteq Demos /\ previews \subseteq Demos /\ files \subseteq Requests \cup Demos
    OBVIOUS
  <2> QED
    BY <2>1, <2>2, <2>3, <2>4 DEF TypeOK
<1>3. GateAgrees
  BY <1>1, FS_EmptySet DEF GateAgrees, Places
<1>4. LiveUndisturbed
  BY DEF LiveUndisturbed, Running, Idle
<1>5. FilesAreInUse
  BY DEF FilesAreInUse
<1> QED
  BY <1>2, <1>3, <1>4, <1>5 DEF IInv

\* What leaves the gate, the live demo and the calls that have files alone
\* needs its type only; it may take files away while no demo runs.
LEMMA BesidesHolds ==
  ASSUME IInv, TypeOK', \A p \in {"working", "waiting", "loose"} : At(p)' = At(p),
         UNCHANGED <<active, queued, live, pipes>>, files' = files \/ (files' = {} /\ ~Running),
         process' = process \/ (process = "up" /\ process' = "closing"),
         process = "down" => abandoned' = abandoned
  PROVE  IInv'
<1>1. GateAgrees'
  BY DEF IInv, GateAgrees
<1>2. LiveUndisturbed'
  BY DEF IInv, LiveUndisturbed, Running
<1>3. FilesAreInUse'
  BY DEF IInv, FilesAreInUse
<1> QED
  BY <1>1, <1>2, <1>3 DEF IInv

\* Nothing is left of a process that has gone, whatever it was at.
LEMMA GoneHolds ==
  ASSUME IInv, NEW exit \in {"down", "killed", "died"}, Gone(exit),
         files' \subseteq files, abandoned' \in BOOLEAN,
         exit = "down" => Erased
  PROVE  IInv'
<1> USE DEF Gone
<1>1. \A p \in Places : At(p)' = {}
  BY DEF At, Nothing, Places
<1>2. TypeOK'
  BY DemoAssumption DEF IInv, TypeOK, DemoAssumption, LiveStates
<1>3. GateAgrees'
  BY <1>1, FS_EmptySet DEF GateAgrees, Places
<1>4. LiveUndisturbed'
  BY DEF LiveUndisturbed, Running, Idle
<1>5. FilesAreInUse'
  BY DEF FilesAreInUse, Erased
<1> QED
  BY <1>2, <1>3, <1>4, <1>5 DEF IInv

(***************************************************************************)
(* Sessions and requests                                                   *)
(***************************************************************************)

LEMMA OpenSessionHolds ==
  ASSUME IInv, NEW b \in Browsers, OpenSession(b)
  PROVE  IInv'
<1>1. sessions \in Seq(Browsers) /\ Len(sessions) <= MaxSessions
  BY DEF IInv, TypeOK
<1>2. sessions' \in Seq(Browsers) /\ Len(sessions') <= MaxSessions
  <2>1. CASE Len(sessions) >= MaxSessions
    <3>1. Tail(sessions) \in Seq(Browsers) /\ Len(Tail(sessions)) = Len(sessions) - 1
      BY <1>1, <2>1, DemoAssumption DEF DemoAssumption
    <3>2. sessions' = Append(Tail(sessions), b)
      BY <2>1 DEF OpenSession
    <3> QED
      BY <1>1, <3>1, <3>2, DemoAssumption DEF DemoAssumption
  <2>2. CASE ~(Len(sessions) >= MaxSessions)
    BY <1>1, <2>2, DemoAssumption DEF OpenSession, DemoAssumption
  <2> QED
    BY <2>1, <2>2
<1>3. UNCHANGED <<calls, gateVars, demoVars, diskVars, processVars>>
  BY DEF OpenSession
<1>4. TypeOK'
  BY <1>2, <1>3 DEF IInv, TypeOK, gateVars, demoVars, diskVars, processVars
<1> QED
  BY <1>3, <1>4, BesidesHolds DEF At, gateVars, demoVars, diskVars, processVars

LEMMA ExpireHolds ==
  ASSUME IInv, Expire
  PROVE  IInv'
<1>1. sessions' \in Seq(Browsers) /\ Len(sessions') <= MaxSessions
  BY DemoAssumption DEF IInv, TypeOK, Expire, DemoAssumption
<1>2. UNCHANGED <<calls, gateVars, demoVars, diskVars, processVars>>
  BY DEF Expire
<1>3. TypeOK'
  BY <1>1, <1>2 DEF IInv, TypeOK, gateVars, demoVars, diskVars, processVars
<1> QED
  BY <1>2, <1>3, BesidesHolds DEF At, gateVars, demoVars, diskVars, processVars

LEMMA ReadHolds ==
  ASSUME IInv, NEW r \in Requests, NEW b \in Browsers, NEW k \in Kinds, Read(r, b, k)
  PROVE  IInv'
<1>1. /\ calls' \in [Requests -> Call \cup {Nothing}]
      /\ calls[r].at = "idle" /\ calls'[r].at = "reading"
      /\ \A q \in Requests : q # r => calls'[q] = calls[q]
  BY DEF Read, IInv, TypeOK, Call, Places, Nothing
<1>2. \A p \in {"working", "waiting", "loose"} : At(p)' = At(p)
  BY <1>1 DEF At
<1>3. UNCHANGED <<sessions, gateVars, demoVars, diskVars, processVars>>
  BY DEF Read
<1>4. TypeOK'
  BY <1>1, <1>3 DEF IInv, TypeOK, gateVars, demoVars, diskVars, processVars
<1> QED
  BY <1>2, <1>3, <1>4, BesidesHolds DEF gateVars, demoVars, diskVars, processVars

LEMMA RefuseHolds ==
  ASSUME IInv, NEW r \in Requests, Refuse(r)
  PROVE  IInv'
<1>1. calls[r].at = "reading" /\ Answer(r)
  BY DEF Refuse, Arrives
<1>2. /\ \A p \in Places \ {"reading"} : At(p)' = At(p)
      /\ calls' \in [Requests -> Call \cup {Nothing}]
  BY <1>1, AnswerCounts DEF IInv, TypeOK, Places
<1>3. UNCHANGED <<sessions, gateVars, demoVars, diskVars, processVars>>
  BY DEF Refuse
<1>4. TypeOK'
  BY <1>2, <1>3 DEF IInv, TypeOK, gateVars, demoVars, diskVars, processVars
<1> QED
  BY <1>2, <1>3, <1>4, BesidesHolds DEF gateVars, demoVars, diskVars, processVars, Places

(***************************************************************************)
(* The gate                                                                *)
(***************************************************************************)

LEMMA EnterHolds ==
  ASSUME IInv, NEW r \in Requests, Enter(r)
  PROVE  IInv'
<1> USE DEF Enter, Arrives
<1>1. calls[r].at = "reading" /\ Moves(r, "working") /\ ~Running
  OBVIOUS
<1>2. /\ Cardinality(At("working")') = Cardinality(At("working")) + 1
      /\ At("working")' = At("working") \cup {r}
      /\ At("waiting")' = At("waiting") /\ At("loose")' = At("loose")
      /\ calls' \in [Requests -> Call \cup {Nothing}]
  BY <1>1, MoveCounts DEF IInv, TypeOK, Places
<1>3. UNCHANGED <<sessions, queued, live, pipes, previews, abandoned, process, awaited>>
  BY DEF demoVars, processVars
<1>4. TypeOK'
  BY <1>2, <1>3, DemoAssumption DEF IInv, TypeOK, DemoAssumption
<1>5. GateAgrees'
  BY <1>2, <1>3 DEF IInv, GateAgrees
<1>6. LiveUndisturbed'
  BY <1>1, <1>3 DEF LiveUndisturbed, Running
<1>7. FilesAreInUse'
  BY <1>2, <1>3 DEF IInv, FilesAreInUse, Alive
<1> QED
  BY <1>4, <1>5, <1>6, <1>7 DEF IInv

LEMMA WaitHolds ==
  ASSUME IInv, NEW r \in Requests, Wait(r)
  PROVE  IInv'
<1> USE DEF Wait, Arrives
<1>1. calls[r].at = "reading" /\ Moves(r, "waiting") /\ ~Running
  OBVIOUS
<1>2. /\ Cardinality(At("waiting")') = Cardinality(At("waiting")) + 1
      /\ At("waiting")' = At("waiting") \cup {r}
      /\ At("working")' = At("working") /\ At("loose")' = At("loose")
      /\ calls' \in [Requests -> Call \cup {Nothing}]
  BY <1>1, MoveCounts DEF IInv, TypeOK, Places
<1>3. /\ UNCHANGED <<sessions, active, live, pipes, previews, abandoned, process, awaited>>
      /\ files' \subseteq files \cup {r}
  BY DEF demoVars, processVars
<1>4. TypeOK'
  BY <1>2, <1>3, DemoAssumption DEF IInv, TypeOK, DemoAssumption
<1>5. GateAgrees'
  BY <1>2, <1>3 DEF IInv, GateAgrees
<1>6. LiveUndisturbed'
  BY <1>1, <1>3 DEF LiveUndisturbed, Running
<1>7. FilesAreInUse'
  BY <1>2, <1>3 DEF IInv, FilesAreInUse, Alive
<1> QED
  BY <1>4, <1>5, <1>6, <1>7 DEF IInv

LEMMA PollHolds ==
  ASSUME IInv, NEW r \in Requests, Poll(r)
  PROVE  IInv'
<1> USE DEF Poll
<1>1. calls[r].at = "waiting" /\ Moves(r, "working")
  OBVIOUS
<1>2. ~Running
  <2>1. r \in At("waiting")
    BY <1>1 DEF At
  <2> QED
    BY <2>1 DEF IInv, LiveUndisturbed
<1>3. /\ Cardinality(At("working")') = Cardinality(At("working")) + 1
      /\ Cardinality(At("waiting")') = Cardinality(At("waiting")) - 1
      /\ Cardinality(At("waiting")) \in Nat \ {0}
      /\ At("working")' = At("working") \cup {r}
      /\ At("waiting")' = At("waiting") \ {r} /\ At("loose")' = At("loose")
      /\ calls' \in [Requests -> Call \cup {Nothing}]
  BY <1>1, MoveCounts DEF IInv, TypeOK, Places
<1>4. /\ UNCHANGED <<sessions, live, pipes, previews, abandoned, process, awaited>>
      /\ files' \subseteq files \cup {r}
  BY DEF demoVars, processVars
<1>5. TypeOK'
  BY <1>3, <1>4, DemoAssumption DEF IInv, TypeOK, GateAgrees, DemoAssumption
<1>6. GateAgrees'
  BY <1>3, <1>4 DEF IInv, GateAgrees
<1>7. LiveUndisturbed'
  BY <1>2, <1>4 DEF LiveUndisturbed, Running
<1>8. FilesAreInUse'
  BY <1>3, <1>4 DEF IInv, FilesAreInUse, Drained, Alive
<1> QED
  BY <1>5, <1>6, <1>7, <1>8 DEF IInv

\* An operation that ends gives the gate back and takes what it has off the
\* disk, unless it threw while it prepared itself.
LEMMA WorkEnds ==
  ASSUME IInv, NEW r \in Requests, Finish(r) \/ FinishUnprepared(r)
  PROVE  IInv'
<1>1. /\ calls[r].at = "working" /\ Answer(r) /\ Alive
      /\ active' = active - 1 /\ files' = files \ {r}
      /\ UNCHANGED <<sessions, queued, live, pipes, previews, process, awaited>>
      /\ abandoned' \in {abandoned, TRUE}
  BY DEF Finish, FinishUnprepared, demoVars, processVars
<1>2. /\ Cardinality(At("working")') = Cardinality(At("working")) - 1
      /\ Cardinality(At("working")) \in Nat \ {0}
      /\ At("working")' = At("working") \ {r}
      /\ At("waiting")' = At("waiting") /\ At("loose")' = At("loose")
      /\ calls' \in [Requests -> Call \cup {Nothing}]
  BY <1>1, AnswerCounts DEF IInv, TypeOK, Places
<1>3. ~Running
  <2>1. r \in At("working")
    BY <1>1 DEF At
  <2> QED
    BY <2>1 DEF IInv, LiveUndisturbed
<1>4. TypeOK'
  <2>1. active' \in 0 .. Concurrency
    BY <1>1, <1>2, DemoAssumption DEF IInv, TypeOK, GateAgrees, DemoAssumption
  <2>2. abandoned' \in BOOLEAN
    BY <1>1 DEF IInv, TypeOK
  <2> QED
    BY <1>1, <1>2, <2>1, <2>2 DEF IInv, TypeOK
<1>5. GateAgrees'
  BY <1>1, <1>2 DEF IInv, GateAgrees
<1>6. LiveUndisturbed'
  BY <1>1, <1>3 DEF LiveUndisturbed, Running
<1>7. FilesAreInUse'
  BY <1>1, <1>2 DEF IInv, FilesAreInUse, Alive
<1> QED
  BY <1>4, <1>5, <1>6, <1>7 DEF IInv

LEMMA GiveUpHolds ==
  ASSUME IInv, NEW r \in Requests, GiveUp(r)
  PROVE  IInv'
<1> USE DEF GiveUp
<1>1. calls[r].at = "working" /\ Moves(r, "loose")
  OBVIOUS
<1>2. ~Running
  <2>1. r \in At("working")
    BY <1>1 DEF At
  <2> QED
    BY <2>1 DEF IInv, LiveUndisturbed
<1>3. /\ Cardinality(At("working")') = Cardinality(At("working")) - 1
      /\ Cardinality(At("working")) \in Nat \ {0}
      /\ At("working")' = At("working") \ {r} /\ At("loose")' = At("loose") \cup {r}
      /\ At("waiting")' = At("waiting")
      /\ calls' \in [Requests -> Call \cup {Nothing}]
  BY <1>1, MoveCounts DEF IInv, TypeOK, Places
<1>4. UNCHANGED <<sessions, queued, live, pipes, previews, files, abandoned, process, awaited>>
  BY DEF demoVars, diskVars, processVars
<1>5. TypeOK'
  BY <1>3, <1>4, DemoAssumption DEF IInv, TypeOK, GateAgrees, DemoAssumption
<1>6. GateAgrees'
  BY <1>3, <1>4 DEF IInv, GateAgrees
<1>7. LiveUndisturbed'
  BY <1>2, <1>4 DEF LiveUndisturbed, Running
<1>8. FilesAreInUse'
  BY <1>3, <1>4 DEF IInv, FilesAreInUse, Drained, Alive
<1> QED
  BY <1>5, <1>6, <1>7, <1>8 DEF IInv

LEMMA LooseEndsHolds ==
  ASSUME IInv, NEW r \in Requests, LooseEnds(r)
  PROVE  IInv'
<1> USE DEF LooseEnds
<1>1. calls[r].at = "loose" /\ Answer(r)
  OBVIOUS
<1>2. /\ At("loose")' = At("loose") \ {r}
      /\ At("working")' = At("working") /\ At("waiting")' = At("waiting")
      /\ calls' \in [Requests -> Call \cup {Nothing}]
  BY <1>1, AnswerCounts DEF IInv, TypeOK, Places
<1>3. UNCHANGED <<sessions, active, queued, live, pipes, previews, abandoned, process, awaited>>
  BY DEF gateVars, demoVars, processVars
<1>4. TypeOK'
  BY <1>2, <1>3 DEF IInv, TypeOK
<1>5. GateAgrees'
  BY <1>2, <1>3 DEF IInv, GateAgrees
<1>6. LiveUndisturbed'
  <2>1. Running => live.demo \in Demos
    BY DEF IInv, TypeOK, Running, Idle, LiveStates
  <2>2. Running => live.demo # r
    BY <2>1, DemoAssumption DEF DemoAssumption
  <2> QED
    BY <1>2, <1>3, <2>2 DEF IInv, LiveUndisturbed, Running
<1>7. FilesAreInUse'
  BY <1>2, <1>3 DEF IInv, FilesAreInUse, Alive
<1> QED
  BY <1>4, <1>5, <1>6, <1>7 DEF IInv

(***************************************************************************)
(* The live demo                                                           *)
(***************************************************************************)

LEMMA StartHolds ==
  ASSUME IInv, NEW r \in Requests, NEW d \in Demos, Start(r, d)
  PROVE  IInv'
<1> USE DEF Start, Arrives
<1>1. calls[r].at = "reading" /\ Answer(r) /\ Alive
  OBVIOUS
<1>2. /\ At("working")' = At("working") /\ At("waiting")' = At("waiting")
      /\ At("loose")' = At("loose")
      /\ calls' \in [Requests -> Call \cup {Nothing}]
  BY <1>1, AnswerCounts DEF IInv, TypeOK, Places
<1>3. UNCHANGED <<sessions, active, queued, abandoned, process, awaited>>
  BY DEF gateVars, processVars
<1>4. live' \in LiveStates /\ live'.demo = d
  <2>1. calls[r] \in Call
    BY <1>1 DEF IInv, TypeOK, Nothing
  <2> QED
    BY <2>1 DEF Call, LiveStates
<1>5. TypeOK'
  BY <1>2, <1>3, <1>4 DEF IInv, TypeOK
<1>6. GateAgrees'
  BY <1>2, <1>3 DEF IInv, GateAgrees
<1>7. LiveUndisturbed'
  <2>1. active = 0 /\ queued = 0
    BY DEF Busy, IInv, TypeOK
  <2>2. At("working") = {} /\ At("waiting") = {}
    BY <2>1, AtIsFinite, FS_EmptySet DEF IInv, GateAgrees
  <2> QED
    BY <1>2, <1>4, <2>2 DEF LiveUndisturbed
<1>8. FilesAreInUse'
  BY <1>1, <1>2, <1>3 DEF IInv, FilesAreInUse, Alive
<1> QED
  BY <1>5, <1>6, <1>7, <1>8 DEF IInv

LEMMA PreviewHolds ==
  ASSUME IInv, NEW d \in Demos, Preview(d)
  PROVE  IInv'
<1>1. UNCHANGED <<sessions, calls, gateVars, live, pipes, diskVars, processVars>>
  BY DEF Preview
<1>2. TypeOK'
  BY <1>1 DEF Preview, IInv, TypeOK, gateVars, diskVars, processVars
<1> QED
  BY <1>1, <1>2, BesidesHolds DEF At, gateVars, diskVars, processVars

LEMMA StopHolds ==
  ASSUME IInv, NEW r \in Requests, Stop(r)
  PROVE  IInv'
<1>1. calls[r].at = "reading" /\ calls[r] \in Call
  BY DEF Stop, Arrives, IInv, TypeOK, Nothing
<1>2. live.demo \in Demos
  BY DEF Stop, Owns, IInv, TypeOK, LiveStates
<1>3. /\ calls' \in [Requests -> Call \cup {Nothing}]
      /\ calls'[r].at \in {"stopping", "returning"}
      /\ \A q \in Requests : q # r => calls'[q] = calls[q]
  BY <1>1, <1>2 DEF Stop, IInv, TypeOK, Call, Places
<1>4. \A p \in {"working", "waiting", "loose"} : At(p)' = At(p)
  BY <1>1, <1>3 DEF At
<1>5. UNCHANGED <<sessions, gateVars, demoVars, diskVars, processVars>>
  BY DEF Stop
<1>6. TypeOK'
  BY <1>3, <1>5 DEF IInv, TypeOK, gateVars, demoVars, diskVars, processVars
<1> QED
  BY <1>4, <1>5, <1>6, BesidesHolds DEF gateVars, demoVars, diskVars, processVars

LEMMA StopReturnsHolds ==
  ASSUME IInv, NEW r \in Requests, StopReturns(r)
  PROVE  IInv'
<1> USE DEF StopReturns
<1>1. calls[r].at = "returning" /\ Answer(r) /\ Alive
  OBVIOUS
<1>2. /\ At("working")' = At("working") /\ At("waiting")' = At("waiting")
      /\ At("loose")' = At("loose")
      /\ calls' \in [Requests -> Call \cup {Nothing}]
  BY <1>1, AnswerCounts DEF IInv, TypeOK, Places
<1>3. UNCHANGED <<sessions, active, queued, pipes, previews, files, abandoned, process, awaited>>
  BY DEF gateVars, diskVars, processVars
<1>4. TypeOK'
  BY <1>2, <1>3 DEF IInv, TypeOK, LiveStates
<1>5. GateAgrees'
  BY <1>2, <1>3 DEF IInv, GateAgrees
<1>6. LiveUndisturbed'
  BY DEF LiveUndisturbed, Running, Idle
<1>7. FilesAreInUse'
  BY <1>1, <1>2, <1>3 DEF IInv, FilesAreInUse, Alive
<1> QED
  BY <1>4, <1>5, <1>6, <1>7 DEF IInv

LEMMA SettlesHolds ==
  ASSUME IInv, NEW d \in Demos, NEW status \in {"COMPLETED", "FAILED"}, Settles(d, status),
         Alive, files' = files \ {d}, abandoned' \in {abandoned, TRUE}
  PROVE  IInv'
<1>1. /\ UNCHANGED <<sessions, active, queued, process, awaited>>
      /\ pipes' = pipes \ {d} /\ previews' \in {previews, previews \ {d}}
      /\ calls' = [r \in Requests |-> IF r \in Waiting(d) THEN Nothing ELSE calls[r]]
      /\ live' = IF Waiting(d) # {} THEN Idle
                 ELSE IF live # Idle /\ live.demo = d THEN [live EXCEPT !.status = status]
                 ELSE live
  BY DEF Settles, gateVars, processVars
<1>2. \A r \in Requests : r \in Waiting(d) => calls[r].at = "stopping"
  BY DEF Waiting, At
<1>3. /\ At("working")' = At("working") /\ At("waiting")' = At("waiting")
      /\ At("loose")' = At("loose")
  BY <1>1, <1>2 DEF At, Nothing
<1>4. live' \in LiveStates /\ (Running' => live' = live /\ Running /\ live.demo # d)
  <2>1. CASE Waiting(d) # {}
    BY <1>1, <2>1 DEF LiveStates, Running, Idle
  <2>2. CASE Waiting(d) = {} /\ live # Idle /\ live.demo = d
    BY <1>1, <2>2 DEF IInv, TypeOK, LiveStates, Running, Idle
  <2>3. CASE Waiting(d) = {} /\ ~(live # Idle /\ live.demo = d)
    BY <1>1, <2>3 DEF IInv, TypeOK, LiveStates, Running, Idle
  <2> QED
    BY <2>1, <2>2, <2>3
<1>5. calls' \in [Requests -> Call \cup {Nothing}]
  BY <1>1 DEF IInv, TypeOK
<1>6. TypeOK'
  BY <1>1, <1>4, <1>5 DEF IInv, TypeOK
<1>7. GateAgrees'
  BY <1>1, <1>3 DEF IInv, GateAgrees
<1>8. LiveUndisturbed'
  BY <1>1, <1>3, <1>4 DEF IInv, LiveUndisturbed
<1>9. FilesAreInUse'
  BY <1>1, <1>3 DEF IInv, FilesAreInUse, Alive
<1> QED
  BY <1>6, <1>7, <1>8, <1>9 DEF IInv

LEMMA ResetHolds ==
  ASSUME IInv, NEW r \in Requests, Reset(r)
  PROVE  IInv'
<1>1. calls[r].at = "reading" /\ Answer(r) /\ ~Running /\ Erased /\ Alive
  BY DEF Reset, Arrives
<1>2. /\ \A p \in Places \ {"reading"} : At(p)' = At(p)
      /\ calls' \in [Requests -> Call \cup {Nothing}]
  BY <1>1, AnswerCounts DEF IInv, TypeOK, Places
<1>3. UNCHANGED <<active, queued, live, pipes, previews, process, awaited>>
  BY DEF Reset, gateVars, demoVars, processVars
<1>4. sessions' \in Seq(Browsers) /\ Len(sessions') <= MaxSessions
  <2>1. Without(calls[r].of) \in Seq(Browsers) /\ Len(Without(calls[r].of)) <= Len(sessions)
    BY WithoutTyped DEF IInv, TypeOK
  <2>2. Len(sessions) <= MaxSessions /\ Len(sessions) \in Nat /\ MaxSessions \in Nat
    BY DemoAssumption DEF IInv, TypeOK, DemoAssumption
  <2>3. Len(Without(calls[r].of)) \in Nat
    BY <2>1
  <2> QED
    BY <2>1, <2>2, <2>3 DEF Reset
<1>5. TypeOK'
  BY <1>1, <1>2, <1>3, <1>4 DEF IInv, TypeOK, Erased
<1> QED
  BY <1>1, <1>2, <1>3, <1>5, BesidesHolds DEF Erased, Places, Alive

(***************************************************************************)
(* The end of the process                                                  *)
(***************************************************************************)

LEMMA SignalHolds ==
  ASSUME IInv, Signal
  PROVE  IInv'
<1>1. CASE Running
  <2>1. /\ process = "up" /\ process' = "closing" /\ awaited' = live.demo
        /\ UNCHANGED <<sessions, calls, gateVars, demoVars, diskVars>>
    BY <1>1 DEF Signal
  <2>2. live.demo \in Demos
    BY <1>1 DEF IInv, TypeOK, Running, Idle, LiveStates
  <2>3. TypeOK'
    BY <2>1, <2>2 DEF IInv, TypeOK, gateVars, demoVars, diskVars
  <2> QED
    BY <2>1, <2>3, BesidesHolds DEF At, gateVars, demoVars, diskVars
<1>2. CASE ~Running
  BY <1>2, GoneHolds DEF Signal, Erased
<1> QED
  BY <1>1, <1>2

LEMMA EndHolds ==
  ASSUME IInv, Shutdown \/ HardStop \/ Die
  PROVE  IInv'
<1>1. CASE Shutdown
  BY <1>1, GoneHolds DEF Shutdown, Erased
<1>2. CASE HardStop
  BY <1>2, GoneHolds DEF HardStop, diskVars, IInv, TypeOK
<1>3. CASE Die
  BY <1>3, GoneHolds DEF Die, diskVars, IInv, TypeOK
<1> QED
  BY <1>1, <1>2, <1>3

LEMMA NextHolds == IInv /\ [Next]_vars => IInv'
<1> SUFFICES ASSUME IInv, [Next]_vars PROVE IInv'
  OBVIOUS
<1>1. CASE UNCHANGED vars
  <2>1. TypeOK'
    BY <1>1 DEF vars, IInv, TypeOK
  <2> QED
    BY <1>1, <2>1, BesidesHolds DEF vars, At
<1>2. ASSUME NEW b \in Browsers, OpenSession(b) PROVE IInv'
  BY <1>2, OpenSessionHolds
<1>3. CASE Expire
  BY <1>3, ExpireHolds
<1>4. ASSUME NEW r \in Requests, NEW b \in Browsers, NEW k \in Kinds, Read(r, b, k)
      PROVE  IInv'
  BY <1>4, ReadHolds
<1>5. ASSUME NEW r \in Requests,
             \/ Refuse(r) \/ Enter(r) \/ Wait(r) \/ Poll(r) \/ Finish(r)
             \/ FinishUnprepared(r) \/ GiveUp(r) \/ LooseEnds(r)
      PROVE  IInv'
  BY <1>5, RefuseHolds, EnterHolds, WaitHolds, PollHolds, WorkEnds, GiveUpHolds, LooseEndsHolds
<1>6. ASSUME NEW r \in Requests, NEW d \in Demos, Start(r, d) PROVE IInv'
  BY <1>6, StartHolds
<1>7. ASSUME NEW r \in Requests, Stop(r) \/ StopReturns(r) \/ Reset(r) PROVE IInv'
  BY <1>7, StopHolds, StopReturnsHolds, ResetHolds
<1>8. ASSUME NEW d \in Demos, Preview(d) PROVE IInv'
  BY <1>8, PreviewHolds
<1>9. ASSUME NEW d \in Demos, SettleUnprepared(d) PROVE IInv'
  BY <1>9, SettlesHolds DEF SettleUnprepared
<1>10. ASSUME NEW d \in Demos, NEW status \in {"COMPLETED", "FAILED"}, Settle(d, status)
       PROVE  IInv'
  BY <1>10, SettlesHolds DEF Settle
<1>11. CASE Signal \/ Shutdown \/ HardStop \/ Die
  BY <1>11, SignalHolds, EndHolds
<1> QED
  BY <1>1, <1>2, <1>3, <1>4, <1>5, <1>6, <1>7, <1>8, <1>9, <1>10, <1>11 DEF Next

(***************************************************************************)
(* The theorems                                                            *)
(***************************************************************************)

\* The gate, the live demo and the files on disk agree after every handler
\* (server.ts, liveDemoController.ts).
THEOREM DemoInvariant == Spec => []IInv
<1>1. Init => IInv
  BY InitHolds
<1>2. IInv /\ [Next]_vars => IInv'
  BY NextHolds
<1> QED
  BY <1>1, <1>2, PTL DEF Spec

\* Every value keeps its type, and the gate and the sessions their limits.
THEOREM DemoTyped == Spec => []TypeOK
<1>1. IInv => TypeOK
  BY DEF IInv
<1> QED
  BY <1>1, DemoInvariant, PTL

\* HeavyGate counts what it holds and what waits for it, after a timeout too.
THEOREM GateCounts == Spec => []GateAgrees
<1>1. IInv => GateAgrees
  BY DEF IInv
<1> QED
  BY <1>1, DemoInvariant, PTL

\* The live demo of the controller and a call of the gate exclude each other, and
\* that demo keeps its row and its directory.
THEOREM LiveIsUndisturbed == Spec => []LiveUndisturbed
<1>1. IInv => LiveUndisturbed
  BY DEF IInv
<1> QED
  BY <1>1, DemoInvariant, PTL

\* No file is left of an operation that ended after its preparation, short of
\* a hard stop or a rejection nobody handles, and none at all after a clean exit.
THEOREM NoFilesAreLeft == Spec => []FilesAreInUse
<1>1. IInv => FilesAreInUse
  BY DEF IInv
<1> QED
  BY <1>1, DemoInvariant, PTL

=============================================================================
