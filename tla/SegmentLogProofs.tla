-------------------------- MODULE SegmentLogProofs --------------------------
(***************************************************************************)
(* What an append-only log guarantees.  LiveSegmentStoreProofs and         *)
(* LiveProtectedAppendProofs instantiate this module with their refinement *)
(* mappings and so inherit the guarantees for the files of a session.      *)
(***************************************************************************)
EXTENDS SegmentLog, TLAPS

Shape == MaxSegments \in Nat /\ Absent \notin Entry

Sound == log \in [Positions -> Entry \cup {Absent}] /\ Continuous /\ AnswersHeld

(* A new log is empty. *)
LEMMA EmptyIsSound == Init => Sound
BY DEF Init, Sound, Continuous, AnswersHeld

(* An entry is committed behind the last one and changes no other. *)
LEMMA CommitKept ==
  ASSUME Shape, Sound, NEW e \in Entry, Commit(e)
  PROVE  Sound' /\ Kept
<1> DEFINE n == e.sequence
<1>1. /\ n \in Positions /\ n \in Nat /\ n < MaxSegments /\ MaxSegments \in Nat
      /\ open /\ e # Absent /\ log \in [Positions -> Entry \cup {Absent}]
      /\ log[n] = Absent
      /\ \A s \in Positions : s < n => log[s] # Absent
      /\ n > 0 => Mfhd[e.fragment] = Mfhd[log[n - 1].fragment] + 1
      /\ log' = [log EXCEPT ![n] = e]
      /\ answered' = answered
  BY DEF Shape, Sound, Commit, Entry, Positions
<1>2. /\ log' \in [Positions -> Entry \cup {Absent}] /\ log'[n] = e
      /\ \A s \in Positions \ {n} : log'[s] = log[s]
  BY <1>1
<1> HIDE DEF n
<1>3. Continuous'
  <2> SUFFICES ASSUME NEW s \in Positions, log'[s] # Absent
               PROVE  /\ log'[s] \in Entry /\ log'[s].sequence = s /\ s < MaxSegments
                      /\ s > 0 => /\ log'[s - 1] # Absent
                                  /\ Mfhd[log'[s].fragment] = Mfhd[log'[s - 1].fragment] + 1
    BY DEF Continuous
  <2>1. s > 0 => s - 1 \in Positions /\ s - 1 # s /\ s - 1 < s
    BY <1>1 DEF Positions
  <2>2. CASE s = n
    BY <1>1, <1>2, <2>1, <2>2 DEF n
  <2>3. CASE s # n
    <3>1. log'[s] = log[s] /\ log[s] # Absent
      BY <1>2, <2>3
    <3>2. /\ log[s] \in Entry /\ log[s].sequence = s /\ s < MaxSegments
          /\ s > 0 => /\ log[s - 1] # Absent
                      /\ Mfhd[log[s].fragment] = Mfhd[log[s - 1].fragment] + 1
      BY <3>1 DEF Sound, Continuous
    <3>3. s > 0 => s - 1 # n
      BY <1>1, <3>2
    <3> QED
      BY <1>2, <2>1, <3>1, <3>2, <3>3
  <2> QED
    BY <2>2, <2>3
<1>4. AnswersHeld'
  <2> SUFFICES ASSUME NEW a \in answered PROVE a \in Entry /\ log'[a.sequence] = a
    BY <1>1 DEF AnswersHeld
  <2>1. a \in Entry /\ log[a.sequence] = a /\ a.sequence \in Positions
    BY DEF Sound, AnswersHeld, Entry
  <2>2. a.sequence # n
    BY <1>1, <2>1 DEF Shape
  <2> QED
    BY <1>2, <2>1, <2>2
<1>5. Kept
  BY <1>1, <1>2 DEF Kept
<1> QED
  BY <1>2, <1>3, <1>4, <1>5 DEF Sound

(* Every other step leaves the entries alone. *)
LEMMA LogStepKept == Shape /\ Sound /\ [Next]_<<log, answered, open>> => Sound' /\ Kept
<1> SUFFICES ASSUME Shape, Sound, [Next]_<<log, answered, open>> PROVE Sound' /\ Kept
  OBVIOUS
<1>1. CASE \E e \in Entry : Commit(e)
  BY <1>1, CommitKept
<1>2. CASE \E e \in Entry : Answer(e)
  BY <1>2 DEF Answer, Sound, Continuous, AnswersHeld, Kept, Entry
<1>3. CASE Close \/ UNCHANGED <<log, answered, open>>
  BY <1>3 DEF Close, Sound, Continuous, AnswersHeld, Kept
<1> QED
  BY <1>1, <1>2, <1>3 DEF Next

(* The log is filled in order, along the source timeline and within its    *)
(* capacity, and answers only what it holds.                               *)
THEOREM LogIsSound == ASSUME Shape PROVE Spec => [](Continuous /\ AnswersHeld)
<1>1. Sound => Continuous /\ AnswersHeld
  BY DEF Sound
<1>2. Sound /\ [Next]_<<log, answered, open>> => Sound'
  BY LogStepKept
<1> QED
  BY <1>1, <1>2, EmptyIsSound, PTL DEF Spec

(* Entries are never changed or removed, and a closed log stays closed and *)
(* as it is.                                                               *)
THEOREM LogIsFinal == ASSUME Shape PROVE Spec => EntriesAreFinal
<1>1. Sound /\ [Next]_<<log, answered, open>> => Sound' /\ [Kept]_<<log, answered, open>>
  BY LogStepKept
<1> QED
  BY <1>1, EmptyIsSound, PTL DEF Spec, EntriesAreFinal
=============================================================================
