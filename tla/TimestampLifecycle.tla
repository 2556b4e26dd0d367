------------------------- MODULE TimestampLifecycle -------------------------
(***************************************************************************)
(* What the timestamp records promise: a reference gets one record, of one *)
(* digest; the record becomes anchored at most once and stays so; and the  *)
(* audit trail is told of it at most once, never before it happened.       *)
(***************************************************************************)
EXTENDS Naturals

CONSTANTS Refs, Digests, None

VARIABLES
  digest,    \* what each record is about, None while there is no record
  anchored,
  told       \* audit events of each anchoring

vars == <<digest, anchored, told>>

Init == /\ digest = [r \in Refs |-> None]
        /\ anchored = [r \in Refs |-> FALSE]
        /\ told = [r \in Refs |-> 0]

Submit(r) == /\ digest[r] = None
             /\ \E d \in Digests : digest' = [digest EXCEPT ![r] = d]
             /\ UNCHANGED <<anchored, told>>

Anchor(r) == /\ digest[r] # None /\ ~anchored[r]
             /\ anchored' = [anchored EXCEPT ![r] = TRUE]
             /\ UNCHANGED <<digest, told>>

Tell(r) == /\ anchored[r] /\ told[r] = 0
           /\ told' = [told EXCEPT ![r] = 1]
           /\ UNCHANGED <<digest, anchored>>

Next == \E r \in Refs : Submit(r) \/ Anchor(r) \/ Tell(r)

Spec == Init /\ [][Next]_vars
=============================================================================
