---------------------- MODULE TimestampAnchoringProofs ----------------------
(***************************************************************************)
(* TimestampAnchoring, for any number of tenants, references, digests,     *)
(* calendars, instances, operators and faults: IInv is inductive (a lemma  *)
(* for each action), and the properties follow from it.  The invariant is  *)
(* split in two: what holds of the records, and what holds of the lock.    *)
(***************************************************************************)
EXTENDS TimestampAnchoring, TLAPS

USE AnchoringAssumption

Records == /\ TypeOK /\ AnchoredOnce /\ FlagCoversReceipts /\ VaultIsBacked
           /\ OneAnnounces /\ CallsKnow /\ MirrorsHaveReason /\ CallsHaveRow

Locking == LockFollowsSweep /\ SweepsHaveClient

LEMMA TwoHalves == IInv <=> Records /\ Locking
BY DEF IInv, Records, Locking

(***************************************************************************)
(* Values                                                                  *)
(***************************************************************************)

LEMMA NoReceiptsTyped == NoReceipts \in Receipts /\ ~IsBtcAnchored(NoReceipts)
BY DEF NoReceipts, Receipts, Lengths, IsBtcAnchored

LEMMA RestingTyped ==
  /\ Resting \in Calls /\ Resting.pc = "idle" /\ Resting.client = "none"
  /\ Resting.page = {} /\ Resting.was = FALSE
BY NoReceiptsTyped DEF Resting, Calls

LEMMA RestedTyped ==
  ASSUME NEW c \in Calls
  PROVE  /\ Rested(c) \in Calls /\ Rested(c).client = c.client /\ Rested(c).page = c.page
         /\ Rested(c).was = FALSE
         /\ Rested(c).pc = IF c.client = "none" THEN "idle" ELSE "next"
<1> DEFINE pc == IF c.client = "none" THEN "idle" ELSE "next"
<1>1. Rested(c) = [c EXCEPT !.pc = pc, !.ref = None, !.was = FALSE, !.got = NoReceipts]
  BY DEF Rested
<1>2. pc \in {"idle", "next"}
  OBVIOUS
<1> HIDE DEF pc
<1>3. /\ Rested(c) \in Calls /\ Rested(c).client = c.client /\ Rested(c).page = c.page
      /\ Rested(c).was = FALSE /\ Rested(c).pc = pc
  BY <1>1, <1>2, NoReceiptsTyped DEF Calls
<1> QED
  BY <1>3 DEF pc

LEMMA UpgradedTyped ==
  ASSUME NEW receipts \in Receipts, NEW answers \in [Calendars -> Answers]
  PROVE  [c \in Calendars |-> Upgraded(receipts[c], answers[c])] \in Receipts
<1>1. ASSUME NEW c \in Calendars
      PROVE  Upgraded(receipts[c], answers[c]) \in [status : {"open", "btc"}, length : Lengths]
  <2>1. receipts[c] \in [status : {"open", "btc"}, length : Lengths] /\ answers[c] \in Answers
    BY DEF Receipts
  <2> QED
    BY <2>1 DEF Upgraded, Answers
<1> QED
  BY <1>1 DEF Receipts

LEMMA SubmittedTyped ==
  ASSUME NEW given \in SUBSET Calendars
  PROVE  Submitted(given) \in Receipts /\ ~IsBtcAnchored(Submitted(given))
BY DEF Submitted, Receipts, NoReceipts, Lengths, IsBtcAnchored

(***************************************************************************)
(* What steps have in common                                               *)
(***************************************************************************)

\* A row keeps its digest and stays anchored.
Forward ==
  \A r \in Refs : /\ row'[r].digest = row[r].digest
                  /\ row[r].anchored => row'[r].anchored
                  /\ ~Exists(r) => row'[r] = row[r]

\* A call takes a step and nothing else does, or a call that sees no
\* transition writes its receipts.
LEMMA CallMoves ==
  ASSUME Records, NEW p \in Callers, NEW new \in Calls,
         call' = [call EXCEPT ![p] = new],
         row' \in [Refs -> Rows], Forward, FlagCoversReceipts',
         UNCHANGED <<anchor, submit, mirroring, audits>>,
         lock' \in Instances \cup {None}, leaked' \in BOOLEAN, faults' \in 0 .. MaxFaults,
         new.pc = "announce" => /\ new.ref \in Refs /\ row'[new.ref].anchored /\ audits[new.ref] = 0
                                /\ \A q \in Callers : Announces(q) => call[q].ref # new.ref,
         new.was \/ new.pc = "refresh" => row[new.ref].anchored,
         new.pc \in {"write", "refresh", "announce"} => new.ref \in Refs /\ Exists(new.ref),
         new.pc \notin {"write", "refresh", "announce"} => ~new.was,
         \A copy \in new.page : Exists(copy.ref)
  PROVE  Records'
<1> USE DEF Records
<1>1. call'[p] = new /\ \A q \in Callers : q # p => call'[q] = call[q]
  BY DEF TypeOK
<1>2. TypeOK'
  BY DEF TypeOK
<1>3. \A r \in Refs : Exists(r) => Exists(r)'
  BY DEF Exists, Forward
<1>4. \A q \in Callers : \A copy \in call[q].page : copy.ref \in Refs
  BY DEF TypeOK, Calls, Copies
<1>5. \A copy \in new.page : copy.ref \in Refs
  BY DEF Calls, Copies
<1>6. AnchoredOnce' /\ VaultIsBacked' /\ MirrorsHaveReason'
  <2>1. AnchoredOnce'
    BY DEF AnchoredOnce, Forward
  <2>2. VaultIsBacked'
    BY DEF VaultIsBacked, Forward, Exists
  <2>3. MirrorsHaveReason'
    BY DEF MirrorsHaveReason, CallsHaveRow, Forward, TypeOK
  <2> QED
    BY <2>1, <2>2, <2>3
<1>7. CallsKnow'
  <2>1. ASSUME NEW q \in Callers, call'[q].was \/ call'[q].pc = "refresh"
        PROVE  row'[call'[q].ref].anchored
    <3>1. CASE q = p
      BY <1>1, <2>1, <3>1 DEF Forward
    <3>2. CASE q # p
      <4>1. row[call[q].ref].anchored /\ call[q].ref \in Refs
        BY <1>1, <2>1, <3>2 DEF CallsKnow, CallsHaveRow, Upgrades
      <4> QED
        BY <1>1, <3>2, <4>1 DEF Forward
    <3> QED
      BY <3>1, <3>2
  <2> QED
    BY <2>1 DEF CallsKnow
<1>8. OneAnnounces'
  <2>1. \A q \in Callers : Announces(q) => call[q].ref \in Refs
    BY DEF CallsHaveRow, Upgrades, Announces
  <2>2. \A q \in Callers : Announces(q)' => IF q = p THEN new.pc = "announce" ELSE Announces(q)
    BY <1>1 DEF Announces
  <2>3. ASSUME NEW q \in Callers, Announces(q)'
        PROVE  row'[call'[q].ref].anchored /\ audits'[call'[q].ref] = 0
    BY <1>1, <2>1, <2>2, <2>3 DEF OneAnnounces, Forward
  <2>4. ASSUME NEW q \in Callers, NEW q2 \in Callers, Announces(q)', Announces(q2)',
               call'[q].ref = call'[q2].ref
        PROVE  q2 = q
    BY <1>1, <2>2, <2>4 DEF OneAnnounces
  <2> QED
    BY <2>3, <2>4 DEF OneAnnounces
<1>9. CallsHaveRow'
  <2>1. ASSUME NEW q \in Callers
        PROVE  /\ Upgrades(q)' => call'[q].ref \in Refs /\ row'[call'[q].ref].digest # None
               /\ ~Upgrades(q)' => ~call'[q].was
               /\ \A copy \in call'[q].page : row'[copy.ref].digest # None
    <3>1. CASE q = p
      BY <1>1, <1>3, <1>5, <3>1 DEF Upgrades, Exists
    <3>2. CASE q # p
      BY <1>1, <1>3, <1>4, <3>2 DEF Upgrades, CallsHaveRow, Exists
    <3> QED
      BY <3>1, <3>2
  <2>2. \A d \in Digests : submit'[d].pc \in {"lookup", "insert", "mirror"} => submit'[d].ref \in Refs
    BY DEF CallsHaveRow
  <2>3. \A r \in Refs : ~Exists(r)' => row'[r] = NoRow
    BY <1>3 DEF CallsHaveRow, Forward
  <2> QED
    BY <2>1, <2>2, <2>3 DEF CallsHaveRow, Exists
<1> QED
  BY <1>2, <1>6, <1>7, <1>8, <1>9

\* The lock and the clients stay.
LEMMA LockingStays ==
  ASSUME Locking, TypeOK, UNCHANGED <<lock, leaked>>,
         \A q \in Callers : /\ call'[q].client = call[q].client
                            /\ call'[q].pc = "idle" <=> call[q].pc = "idle"
                            /\ q \in Operators => call'[q].pc # "next"
  PROVE  Locking'
<1>1. Instances \subseteq Callers /\ Operators \subseteq Callers
  BY DEF Callers
<1>2. lock \in Instances \cup {None}
  BY DEF TypeOK
<1> QED
  BY <1>1, <1>2 DEF Locking, LockFollowsSweep, SweepsHaveClient

\* No call moves.
LEMMA NoCallMoves ==
  ASSUME IInv, UNCHANGED <<call, lock, leaked>>, Records'
  PROVE  IInv'
<1>1. \A q \in Callers : q \in Operators => call'[q].pc # "next"
  BY DEF IInv, SweepsHaveClient
<1>2. Locking'
  BY <1>1, LockingStays DEF IInv, Locking
<1> QED
  BY <1>2 DEF IInv, Records, Locking

LEMMA InitEstablishes == Init => IInv
<1> SUFFICES ASSUME Init PROVE IInv
  OBVIOUS
<1>1. \A p \in Callers : call[p] = Resting
  BY DEF Init
<1>2. TypeOK
  <2>1. NoRow \in Rows /\ NoAnchor \in Anchors /\ NotBorn \in Submissions
    BY NoReceiptsTyped DEF NoRow, Rows, NoAnchor, Anchors, NoOts, Ots, NotBorn, Submissions
  <2>2. call \in [Callers -> Calls]
    BY RestingTyped DEF Init
  <2>3. audits \in [Refs -> Nat] /\ faults \in 0 .. MaxFaults
    BY DEF Init
  <2>4. leaked \in BOOLEAN
    BY DEF Init
  <2> QED
    BY <2>1, <2>2, <2>3, <2>4 DEF Init, TypeOK
<1>3. AnchoredOnce /\ FlagCoversReceipts /\ VaultIsBacked
  BY NoReceiptsTyped DEF Init, AnchoredOnce, FlagCoversReceipts, VaultIsBacked, NoAnchor, NoRow
<1>4. OneAnnounces /\ CallsKnow /\ CallsHaveRow
  BY <1>1, RestingTyped
     DEF Init, OneAnnounces, Announces, CallsKnow, CallsHaveRow, Upgrades, NotBorn
<1>5. MirrorsHaveReason
  BY DEF Init, MirrorsHaveReason, NotBorn
<1>6. LockFollowsSweep /\ SweepsHaveClient
  BY <1>1, RestingTyped DEF Init, LockFollowsSweep, SweepsHaveClient, Callers
<1> QED
  BY <1>2, <1>3, <1>4, <1>5, <1>6 DEF IInv

(***************************************************************************)
(* Cloaking and submission                                                 *)
(***************************************************************************)

LEMMA CloakKeeps == ASSUME NEW t \in Tenants, NEW r \in Refs, IInv, Cloak(t, r) PROVE IInv'
<1> USE DEF IInv, Cloak
<1> DEFINE new == CHOOSE d \in Digests : submit[d].pc = "unborn"
<1>1. new \in Digests
  OBVIOUS
<1>2. TypeOK'
  <2>1. Home[t] \in Instances
    OBVIOUS
  <2>2. anchor' \in [Tenants -> Anchors]
    <3>1. anchor[t] \in Anchors
      BY DEF TypeOK
    <3>2. [anchor[t] EXCEPT !.digest = new, !.ref = r] \in Anchors
      BY <1>1, <3>1 DEF Anchors
    <3> QED
      BY <3>2 DEF TypeOK
  <2>3. submit' \in [Digests -> Submissions]
    BY <1>1, <2>1 DEF TypeOK, Submissions
  <2> QED
    BY <2>2, <2>3 DEF TypeOK
<1>3. AnchoredOnce' /\ FlagCoversReceipts' /\ OneAnnounces' /\ CallsKnow'
  BY DEF AnchoredOnce, FlagCoversReceipts, OneAnnounces, Announces, CallsKnow
<1>4. VaultIsBacked'
  <2>1. \A u \in Tenants : anchor'[u].ots = anchor[u].ots
    BY DEF TypeOK, Anchors
  <2> QED
    BY <2>1 DEF VaultIsBacked, Exists
<1>5. \A d \in Digests : submit'[d] = [pc |-> "lookup", at |-> Home[t], ref |-> r] \/ submit'[d] = submit[d]
  BY <1>1 DEF TypeOK
<1>6. MirrorsHaveReason'
  BY <1>5 DEF MirrorsHaveReason
<1>7. CallsHaveRow'
  BY <1>5 DEF CallsHaveRow, Exists, Upgrades
<1> QED
  BY <1>2, <1>3, <1>4, <1>6, <1>7, NoCallMoves DEF Records

\* A submission ends or goes on, and nothing else changes.
LEMMA SubmissionMoves ==
  ASSUME IInv, UNCHANGED <<anchor, row, call, mirroring, lock, leaked, audits>>,
         faults' \in 0 .. MaxFaults, submit' \in [Digests -> Submissions],
         \A d \in Digests : \/ submit'[d] = submit[d]
                            \/ submit'[d].pc = "done"
                            \/ /\ submit[d].pc = "lookup" /\ submit'[d].pc = "insert"
                               /\ submit'[d].ref = submit[d].ref
  PROVE  IInv'
<1> USE DEF IInv
<1>1. TypeOK'
  BY DEF TypeOK
<1>2. AnchoredOnce' /\ FlagCoversReceipts' /\ VaultIsBacked' /\ OneAnnounces' /\ CallsKnow'
  BY DEF AnchoredOnce, FlagCoversReceipts, VaultIsBacked, Exists, OneAnnounces, Announces, CallsKnow
<1>3. MirrorsHaveReason' /\ CallsHaveRow'
  BY DEF MirrorsHaveReason, CallsHaveRow, Exists, Upgrades
<1> QED
  BY <1>1, <1>2, <1>3, NoCallMoves DEF Records

LEMMA OverTyped == Over \in Submissions /\ Over.pc = "done"
BY DEF Over, Submissions

LEMMA LookupKeeps == ASSUME NEW d \in Digests, IInv, Lookup(d) PROVE IInv'
<1>1. faults' \in 0 .. MaxFaults /\ submit \in [Digests -> Submissions]
  BY DEF IInv, TypeOK, Lookup
<1>2. CASE Exists(submit[d].ref)
  BY <1>1, <1>2, OverTyped, SubmissionMoves DEF Lookup, SubmitAt
<1>3. CASE ~Exists(submit[d].ref)
  <2>1. submit[d].pc = "lookup" /\ submit' = [submit EXCEPT ![d] = [@ EXCEPT !.pc = "insert"]]
    BY <1>3 DEF Lookup, SubmitAt
  <2>2. /\ submit' \in [Digests -> Submissions]
        /\ submit'[d].pc = "insert" /\ submit'[d].ref = submit[d].ref
        /\ \A e \in Digests : e # d => submit'[e] = submit[e]
    BY <1>1, <2>1 DEF Submissions
  <2> QED
    BY <1>1, <2>1, <2>2, SubmissionMoves DEF Lookup
<1> QED
  BY <1>2, <1>3

LEMMA LoseInsertKeeps == ASSUME NEW d \in Digests, IInv, LoseInsert(d) PROVE IInv'
<1>1. faults' \in 0 .. MaxFaults /\ submit \in [Digests -> Submissions]
  BY DEF IInv, TypeOK, LoseInsert
<1> QED
  BY <1>1, OverTyped, SubmissionMoves DEF LoseInsert, SubmitAt

LEMMA InsertKeeps == ASSUME NEW d \in Digests, IInv, Insert(d) PROVE IInv'
<1> USE DEF IInv
<1> DEFINE r == submit[d].ref
<1>1. PICK given \in SUBSET Calendars :
        row' = [row EXCEPT ![r] = [digest |-> d, receipts |-> Submitted(given), anchored |-> FALSE]]
  BY DEF Insert
<1>2. /\ submit[d].pc = "insert" /\ submit' = [submit EXCEPT ![d] = [@ EXCEPT !.pc = "mirror"]]
      /\ ~Exists(r) /\ UNCHANGED <<anchor, call, mirroring, lock, leaked, audits, faults>>
  BY DEF Insert, SubmitAt
<1>3. r \in Refs
  BY <1>2 DEF CallsHaveRow
<1> DEFINE new == [digest |-> d, receipts |-> Submitted(given), anchored |-> FALSE]
<1>4. new \in Rows /\ ~IsBtcAnchored(new.receipts) /\ ~new.anchored /\ new.digest = d
  BY SubmittedTyped DEF Rows
<1> HIDE DEF new
<1>5. /\ row'[r] = new /\ row' \in [Refs -> Rows]
      /\ \A q \in Refs : q # r => row'[q] = row[q]
  BY <1>1, <1>3, <1>4 DEF TypeOK, new
<1>6. row[r] = NoRow /\ row[r].anchored = FALSE /\ row[r].digest = None
  <2>1. row[r] = NoRow
    BY <1>2, <1>3 DEF CallsHaveRow
  <2> QED
    BY <2>1 DEF NoRow
<1>7. /\ submit' \in [Digests -> Submissions]
      /\ submit'[d].pc = "mirror" /\ submit'[d].ref = r
      /\ \A e \in Digests : e # d => submit'[e] = submit[e]
  BY <1>2 DEF TypeOK, Submissions
<1>8. \A q \in Refs : (row[q].anchored => row'[q] = row[q]) /\ (Exists(q) => row'[q] = row[q])
  BY <1>2, <1>5, <1>6
<1>9. TypeOK'
  BY <1>2, <1>5, <1>7 DEF TypeOK
<1>10. AnchoredOnce' /\ FlagCoversReceipts'
  <2>1. AnchoredOnce'
    BY <1>2, <1>8 DEF AnchoredOnce
  <2>2. FlagCoversReceipts'
    BY <1>4, <1>5 DEF FlagCoversReceipts
  <2> QED
    BY <2>1, <2>2
<1>11. VaultIsBacked'
  <2>1. ASSUME NEW t \in Tenants, anchor[t].ots # NoOts
        PROVE  \E q \in Refs : /\ row'[q].digest # None /\ row'[q].digest = anchor[t].ots.digest
                               /\ anchor[t].ots.status = "btc" => row'[q].anchored
    <3>1. PICK q \in Refs : /\ Exists(q) /\ row[q].digest = anchor[t].ots.digest
                            /\ anchor[t].ots.status = "btc" => row[q].anchored
      BY <2>1 DEF VaultIsBacked
    <3> QED
      BY <1>8, <3>1 DEF Exists
  <2> QED
    BY <1>2, <2>1 DEF VaultIsBacked, Exists
<1>12. OneAnnounces' /\ CallsKnow'
  <2>1. \A p \in Callers : (Announces(p) \/ call[p].was \/ call[p].pc = "refresh")
                             => call[p].ref \in Refs /\ row[call[p].ref].anchored
    BY DEF OneAnnounces, CallsKnow, CallsHaveRow, Announces, Upgrades
  <2>2. \A p \in Callers : (Announces(p) \/ call[p].was \/ call[p].pc = "refresh")
                             => row'[call[p].ref].anchored
    BY <1>8, <2>1
  <2> QED
    BY <1>2, <2>1, <2>2 DEF OneAnnounces, CallsKnow, Announces
<1>13. MirrorsHaveReason'
  <2>1. ASSUME NEW e \in Digests, submit'[e].pc = "mirror"
        PROVE  row'[submit'[e].ref].digest = e
    <3>1. CASE e = d
      BY <1>4, <1>5, <1>7, <3>1
    <3>2. CASE e # d
      <4>1. submit[e].pc = "mirror" /\ submit[e].ref \in Refs /\ row[submit[e].ref].digest = e
        BY <1>7, <2>1, <3>2 DEF MirrorsHaveReason, CallsHaveRow
      <4> QED
        BY <1>7, <1>8, <3>2, <4>1 DEF Exists
    <3> QED
      BY <3>1, <3>2
  <2> QED
    BY <1>2, <1>8, <2>1 DEF MirrorsHaveReason
<1>14. CallsHaveRow'
  <2>1. \A q \in Refs : Exists(q) => row'[q].digest # None
    BY <1>8 DEF Exists
  <2>2. \A p \in Callers : \A copy \in call[p].page : copy.ref \in Refs
    BY DEF TypeOK, Calls, Copies
  <2>3. \A e \in Digests : submit'[e].pc \in {"lookup", "insert", "mirror"} => submit'[e].ref \in Refs
    BY <1>3, <1>7 DEF CallsHaveRow
  <2>4. \A q \in Refs : row'[q].digest = None => row'[q] = NoRow
    BY <1>4, <1>5 DEF CallsHaveRow, Exists
  <2> QED
    BY <1>2, <2>1, <2>2, <2>3, <2>4 DEF CallsHaveRow, Upgrades, Exists
<1> QED
  BY <1>2, <1>9, <1>10, <1>11, <1>12, <1>13, <1>14, NoCallMoves DEF Records

(***************************************************************************)
(* Mirrors                                                                 *)
(***************************************************************************)

\* A proof is brought beside its digest, and one mirror less is to be made.
LEMMA MirrorsKeep ==
  ASSUME IInv, NEW r \in Refs, NEW status \in {"pending", "btc"},
         Exists(r), status = "btc" => row[r].anchored,
         Mirror(r, row[r].digest, status),
         submit' \in [Digests -> Submissions],
         \A d \in Digests : submit'[d] = submit[d] \/ submit'[d].pc = "done",
         mirroring' \in [Refs -> Instances \cup {None}],
         \A q \in Refs : mirroring'[q] = mirroring[q] \/ mirroring'[q] = None,
         UNCHANGED <<row, call, lock, leaked, audits, faults>>
  PROVE  IInv'
<1> USE DEF IInv
<1> DEFINE ots == [digest |-> row[r].digest, status |-> status]
<1>1. ots \in Ots
  BY DEF TypeOK, Rows, Ots
<1>2. ASSUME NEW t \in Tenants
      PROVE  anchor'[t] \in Anchors /\ (anchor'[t].ots = ots \/ anchor'[t].ots = anchor[t].ots)
  <2>1. anchor[t] \in Anchors
    BY DEF TypeOK
  <2>2. \/ anchor'[t] = [anchor[t] EXCEPT !.ots = ots]
        \/ anchor'[t] = anchor[t]
    BY DEF Mirror
  <2> QED
    BY <1>1, <2>1, <2>2 DEF Anchors
<1>3. TypeOK'
  <2>1. anchor' \in [Tenants -> Anchors]
    BY <1>2 DEF Mirror
  <2> QED
    BY <2>1 DEF TypeOK
<1>4. VaultIsBacked'
  <2>1. ots.digest = row[r].digest /\ ots.status = status
    OBVIOUS
  <2> HIDE DEF ots
  <2> QED
    BY <1>2, <2>1 DEF VaultIsBacked, Exists
<1>5. AnchoredOnce' /\ FlagCoversReceipts' /\ OneAnnounces' /\ CallsKnow'
  BY DEF AnchoredOnce, FlagCoversReceipts, OneAnnounces, Announces, CallsKnow
<1>6. MirrorsHaveReason' /\ CallsHaveRow'
  BY DEF MirrorsHaveReason, CallsHaveRow, Exists, Upgrades
<1> QED
  BY <1>3, <1>4, <1>5, <1>6, NoCallMoves DEF Records

LEMMA MirrorPendingKeeps == ASSUME NEW d \in Digests, IInv, MirrorPending(d) PROVE IInv'
<1>1. /\ submit[d].ref \in Refs /\ row[submit[d].ref].digest = d /\ Exists(submit[d].ref)
  BY DEF IInv, MirrorPending, SubmitAt, MirrorsHaveReason, CallsHaveRow, Exists
<1>2. /\ submit' \in [Digests -> Submissions]
      /\ \A e \in Digests : submit'[e] = submit[e] \/ submit'[e].pc = "done"
  BY OverTyped DEF IInv, TypeOK, MirrorPending, SubmitAt
<1>3. mirroring' \in [Refs -> Instances \cup {None}]
  BY DEF IInv, TypeOK, MirrorPending
<1> QED
  BY <1>1, <1>2, <1>3, MirrorsKeep DEF MirrorPending

LEMMA MirrorAnchoredKeeps == ASSUME NEW r \in Refs, IInv, MirrorAnchored(r) PROVE IInv'
<1>1. row[r].anchored /\ Exists(r)
  BY DEF IInv, MirrorsHaveReason, MirrorAnchored, CallsHaveRow, NoRow
<1>2. /\ mirroring' \in [Refs -> Instances \cup {None}]
      /\ \A q \in Refs : mirroring'[q] = mirroring[q] \/ mirroring'[q] = None
  BY DEF IInv, TypeOK, MirrorAnchored
<1>3. submit' \in [Digests -> Submissions]
  BY DEF IInv, TypeOK, MirrorAnchored
<1> QED
  BY <1>1, <1>2, <1>3, MirrorsKeep DEF MirrorAnchored

(***************************************************************************)
(* Upgrading                                                               *)
(***************************************************************************)

\* The call that takes a step, and what it says of the lock.
LEMMA LockingOf ==
  ASSUME IInv, NEW p \in Callers, NEW new \in Calls, call' = [call EXCEPT ![p] = new],
         UNCHANGED <<lock, leaked>>, new.client = call[p].client,
         p \in Instances => (new.pc = "idle" <=> new.client = "none"),
         p \in Operators => new.pc # "next"
  PROVE  Locking'
<1>1. call'[p] = new /\ \A q \in Callers : q # p => call'[q] = call[q]
  BY DEF IInv, TypeOK
<1>2. Instances \subseteq Callers /\ Operators \subseteq Callers /\ lock \in Instances \cup {None}
  BY DEF Callers, IInv, TypeOK
<1> QED
  BY <1>1, <1>2 DEF IInv, Locking, LockFollowsSweep, SweepsHaveClient

\* Nothing of the rows changes.
LEMMA RowsStay == ASSUME IInv, row' = row PROVE row' \in [Refs -> Rows] /\ Forward /\ FlagCoversReceipts'
BY DEF IInv, TypeOK, Forward, FlagCoversReceipts

\* What a call that asks the calendars holds afterwards.
LEMMA AskTyped ==
  ASSUME NEW p \in Callers, NEW r \in Refs, NEW was \in BOOLEAN, NEW receipts \in Receipts,
         NEW rest \in SUBSET Copies, TypeOK, Ask(p, r, was, receipts, rest)
  PROVE  \E new \in Calls : /\ call' = [call EXCEPT ![p] = new]
                            /\ new.pc = "write" /\ new.ref = r /\ new.was = was /\ new.page = rest
                            /\ new.client = call[p].client
<1>1. PICK answers \in [Calendars -> Answers] :
        call' = [call EXCEPT ![p] = [@ EXCEPT !.pc = "write", !.ref = r, !.was = was, !.page = rest,
                   !.got = [c \in Calendars |-> Upgraded(receipts[c], answers[c])]]]
  BY DEF Ask
<1> DEFINE got == [c \in Calendars |-> Upgraded(receipts[c], answers[c])]
<1>2. got \in Receipts
  BY UpgradedTyped
<1> HIDE DEF got
<1> DEFINE new == [call[p] EXCEPT !.pc = "write", !.ref = r, !.was = was, !.page = rest, !.got = got]
<1>3. call[p] \in Calls
  BY DEF TypeOK
<1>4. /\ new \in Calls /\ new.pc = "write" /\ new.ref = r /\ new.was = was /\ new.page = rest
      /\ new.client = call[p].client
  BY <1>2, <1>3 DEF Calls
<1>5. call' = [call EXCEPT ![p] = new]
  BY <1>1 DEF got
<1> QED
  BY <1>4, <1>5

LEMMA OperatorStartsKeeps == ASSUME NEW p \in Operators, IInv, OperatorStarts(p) PROVE IInv'
<1> DEFINE r == About[p]
<1>1. p \in Callers /\ r \in Refs /\ TypeOK
  BY DEF Callers, IInv
<1>2. row[r].receipts \in Receipts /\ row[r].anchored \in BOOLEAN
  BY <1>1 DEF TypeOK, Rows
<1>3. PICK new \in Calls : /\ call' = [call EXCEPT ![p] = new]
                           /\ new.pc = "write" /\ new.ref = r /\ new.was = row[r].anchored
                           /\ new.page = {} /\ new.client = call[p].client
  BY <1>1, <1>2, AskTyped DEF OperatorStarts
<1>4. Exists(r) /\ UNCHANGED <<anchor, row, submit, mirroring, lock, leaked, audits, faults>>
  BY DEF OperatorStarts
<1>5. Records'
  BY <1>1, <1>3, <1>4, CallMoves, RowsStay, TwoHalves DEF TypeOK
<1>6. Locking'
  BY <1>1, <1>3, <1>4, LockingOf
<1> QED
  BY <1>5, <1>6, <1>4 DEF IInv, Records, Locking

LEMMA NextRowKeeps == ASSUME NEW i \in Instances, IInv, NextRow(i) PROVE IInv'
<1>1. i \in Callers /\ TypeOK /\ call[i].page \in SUBSET Copies
  BY DEF Callers, IInv, TypeOK, Calls
<1>2. PICK copy \in call[i].page : Ask(i, copy.ref, FALSE, copy.receipts, call[i].page \ {copy})
  BY DEF NextRow
<1>3. /\ copy.ref \in Refs /\ copy.receipts \in Receipts
      /\ \A c \in call[i].page : Exists(c.ref)
  BY <1>1 DEF Copies, IInv, CallsHaveRow
<1>4. PICK new \in Calls : /\ call' = [call EXCEPT ![i] = new]
                           /\ new.pc = "write" /\ new.ref = copy.ref /\ new.was = FALSE
                           /\ new.page = call[i].page \ {copy} /\ new.client = call[i].client
  <2> DEFINE rest == call[i].page \ {copy}
             was  == FALSE
  <2>1. rest \in SUBSET Copies /\ was \in BOOLEAN /\ Ask(i, copy.ref, was, copy.receipts, rest)
    BY <1>1, <1>2
  <2> HIDE DEF rest, was
  <2>2. \E new \in Calls : /\ call' = [call EXCEPT ![i] = new]
                           /\ new.pc = "write" /\ new.ref = copy.ref /\ new.was = was
                           /\ new.page = rest /\ new.client = call[i].client
    BY <1>1, <1>3, <2>1, AskTyped
  <2> QED
    BY <2>2 DEF rest, was
<1>5. /\ call[i].pc = "next" /\ UNCHANGED <<anchor, row, submit, mirroring, lock, leaked, audits, faults>>
  BY DEF NextRow
<1>6. Records'
  BY <1>1, <1>3, <1>4, <1>5, CallMoves, RowsStay, TwoHalves DEF TypeOK
<1>7. Locking'
  <2>1. call[i].client # "none" /\ i \notin Operators
    BY <1>5 DEF IInv, SweepsHaveClient
  <2> QED
    BY <1>1, <1>4, <1>5, <2>1, LockingOf
<1> QED
  BY <1>6, <1>7, <1>5 DEF IInv, Records, Locking

\* A call that writes: what it knows, and what writing does to its row.
LEMMA Written ==
  ASSUME IInv, NEW p \in Callers, call[p].pc \in {"write", "refresh"}, NEW anchored \in BOOLEAN,
         Write(p, anchored), row[call[p].ref].anchored => anchored,
         IsBtcAnchored(call[p].got) => anchored
  PROVE  /\ row' \in [Refs -> Rows] /\ Forward /\ FlagCoversReceipts'
         /\ call[p].ref \in Refs /\ Exists(call[p].ref) /\ row'[call[p].ref].anchored = anchored
<1> DEFINE r == call[p].ref
           new == [row[r] EXCEPT !.receipts = call[p].got, !.anchored = anchored]
<1>1. r \in Refs /\ Exists(r)
  BY DEF IInv, CallsHaveRow, Upgrades
<1>2. row[r] \in Rows /\ call[p].got \in Receipts /\ row \in [Refs -> Rows]
  BY <1>1 DEF IInv, TypeOK, Calls
<1>3. /\ new \in Rows /\ new.digest = row[r].digest /\ new.receipts = call[p].got
      /\ new.anchored = anchored
  BY <1>2 DEF Rows
<1>4. row' = [row EXCEPT ![r] = new]
  BY DEF Write
<1> HIDE DEF new
<1>5. row' \in [Refs -> Rows] /\ row'[r] = new /\ \A q \in Refs : q # r => row'[q] = row[q]
  BY <1>1, <1>2, <1>3, <1>4
<1>6. Forward
  BY <1>1, <1>3, <1>5 DEF Forward
<1>7. FlagCoversReceipts'
  BY <1>3, <1>5 DEF FlagCoversReceipts, IInv
<1> QED
  BY <1>1, <1>3, <1>5, <1>6, <1>7

LEMMA FlipKeeps == ASSUME NEW p \in Callers, IInv, Flip(p) PROVE IInv'
<1> DEFINE r   == call[p].ref
           new == [call[p] EXCEPT !.pc = "announce", !.was = FALSE, !.got = NoReceipts]
<1>1. /\ call[p].pc = "write" /\ ~row[r].anchored /\ Write(p, TRUE) /\ call' = [call EXCEPT ![p] = new]
      /\ UNCHANGED <<anchor, submit, mirroring, lock, leaked, audits, faults>>
  BY DEF Flip
<1>2. call[p] \in Calls /\ \A c \in call[p].page : Exists(c.ref)
  BY DEF IInv, TypeOK, CallsHaveRow
<1>3. /\ new \in Calls /\ new.pc = "announce" /\ new.ref = r /\ new.was = FALSE
      /\ new.page = call[p].page /\ new.client = call[p].client
  BY <1>2, NoReceiptsTyped DEF Calls
<1> HIDE DEF new
<1>4. /\ row' \in [Refs -> Rows] /\ Forward /\ FlagCoversReceipts'
      /\ r \in Refs /\ Exists(r) /\ row'[r].anchored
  BY <1>1, Written
<1>5. audits[r] = 0 /\ \A q \in Callers : Announces(q) => call[q].ref # r
  <2>1. audits[r] \in Nat /\ audits[r] <= 1 /\ audits[r] # 1
    BY <1>1, <1>4 DEF IInv, TypeOK, AnchoredOnce
  <2>2. audits[r] = 0
    BY <2>1
  <2> QED
    BY <1>1, <2>2 DEF IInv, OneAnnounces
<1>6. /\ lock' \in Instances \cup {None} /\ leaked' \in BOOLEAN /\ faults' \in 0 .. MaxFaults
  BY <1>1 DEF IInv, TypeOK
<1>7. Records'
  BY <1>1, <1>2, <1>3, <1>4, <1>5, <1>6, CallMoves, TwoHalves
<1>8. Locking'
  <2>1. p \in Instances => call[p].client # "none"
    BY <1>1 DEF IInv, SweepsHaveClient
  <2> QED
    BY <1>1, <1>3, <2>1, LockingOf
<1> QED
  BY <1>7, <1>8 DEF IInv, Records, Locking

LEMMA LoseFlipKeeps == ASSUME NEW p \in Callers, IInv, LoseFlip(p) PROVE IInv'
<1> DEFINE new == [call[p] EXCEPT !.pc = "refresh"]
<1>1. /\ call[p].pc = "write" /\ row[call[p].ref].anchored /\ call' = [call EXCEPT ![p] = new]
      /\ ~call[p].was
      /\ UNCHANGED <<anchor, row, submit, mirroring, lock, leaked, audits, faults>>
  BY DEF LoseFlip, Transition
<1>2. /\ call[p] \in Calls /\ \A c \in call[p].page : Exists(c.ref)
      /\ call[p].ref \in Refs /\ Exists(call[p].ref)
  BY <1>1 DEF IInv, TypeOK, CallsHaveRow, Upgrades
<1>3. /\ new \in Calls /\ new.pc = "refresh" /\ new.ref = call[p].ref /\ new.was = FALSE
      /\ new.page = call[p].page /\ new.client = call[p].client
  BY <1>1, <1>2 DEF Calls
<1> HIDE DEF new
<1>4. /\ lock' \in Instances \cup {None} /\ leaked' \in BOOLEAN /\ faults' \in 0 .. MaxFaults
  BY <1>1 DEF IInv, TypeOK
<1>5. Records'
  BY <1>1, <1>2, <1>3, <1>4, CallMoves, RowsStay, TwoHalves
<1>6. Locking'
  <2>1. p \in Instances => call[p].client # "none"
    BY <1>1 DEF IInv, SweepsHaveClient
  <2> QED
    BY <1>1, <1>3, <2>1, LockingOf
<1> QED
  BY <1>5, <1>6 DEF IInv, Records, Locking

\* The end of a call: what it is then.
LEMMA RestedCall ==
  ASSUME IInv, NEW p \in Callers, call[p].pc \in {"write", "refresh", "announce"}
  PROVE  /\ Rested(call[p]) \in Calls /\ Rested(call[p]).client = call[p].client
         /\ Rested(call[p]).pc \in {"idle", "next"} /\ Rested(call[p]).was = FALSE
         /\ p \in Instances => Rested(call[p]).pc = "next" /\ call[p].client # "none"
         /\ p \in Operators => Rested(call[p]).pc = "idle"
         /\ \A c \in Rested(call[p]).page : Exists(c.ref)
<1>1. call[p] \in Calls /\ \A c \in call[p].page : Exists(c.ref)
  BY DEF IInv, TypeOK, CallsHaveRow
<1>2. /\ p \in Instances => call[p].client # "none"
      /\ p \in Operators => call[p].client = "none"
  BY DEF IInv, SweepsHaveClient
<1> QED
  BY <1>1, <1>2, RestedTyped

\* A call ends, having written at most what Written says.
LEMMA CallEnds ==
  ASSUME IInv, NEW p \in Callers, call[p].pc \in {"write", "refresh"},
         call' = [call EXCEPT ![p] = Rested(@)],
         row' \in [Refs -> Rows], Forward, FlagCoversReceipts',
         UNCHANGED <<anchor, submit, mirroring, lock, leaked, audits>>, faults' \in 0 .. MaxFaults
  PROVE  IInv'
<1> DEFINE new == Rested(call[p])
<1>1. call' = [call EXCEPT ![p] = new]
  OBVIOUS
<1>2. /\ new \in Calls /\ new.client = call[p].client /\ new.pc \in {"idle", "next"} /\ new.was = FALSE
      /\ p \in Instances => new.pc = "next" /\ call[p].client # "none"
      /\ p \in Operators => new.pc = "idle"
      /\ \A c \in new.page : Exists(c.ref)
  BY RestedCall
<1> HIDE DEF new
<1>3. lock' \in Instances \cup {None} /\ leaked' \in BOOLEAN
  BY DEF IInv, TypeOK
<1>4. Records'
  BY <1>1, <1>2, <1>3, CallMoves, TwoHalves
<1>5. Locking'
  BY <1>1, <1>2, LockingOf
<1> QED
  BY <1>4, <1>5 DEF IInv, Records, Locking

LEMMA RefreshKeeps == ASSUME NEW p \in Callers, IInv, Refresh(p) PROVE IInv'
<1> DEFINE r == call[p].ref
<1>1. /\ call[p].pc = "refresh" \/ (call[p].pc = "write" /\ ~Transition(p))
      /\ Write(p, row[r].anchored) /\ call' = [call EXCEPT ![p] = Rested(@)]
      /\ UNCHANGED <<anchor, submit, mirroring, lock, leaked, audits, faults>>
  BY DEF Refresh
<1>2. row[r].anchored \in BOOLEAN
  BY <1>1 DEF IInv, TypeOK, CallsHaveRow, Upgrades, Rows
<1>3. IsBtcAnchored(call[p].got) => row[r].anchored
  BY <1>1 DEF IInv, CallsKnow, Transition
<1>4. row' \in [Refs -> Rows] /\ Forward /\ FlagCoversReceipts'
  BY <1>1, <1>2, <1>3, Written
<1>5. faults' \in 0 .. MaxFaults
  BY <1>1 DEF IInv, TypeOK
<1> QED
  BY <1>1, <1>4, <1>5, CallEnds

LEMMA AnnounceKeeps == ASSUME NEW p \in Callers, IInv, Announce(p) PROVE IInv'
<1> DEFINE r   == call[p].ref
           new == Rested(call[p])
<1>1. /\ call[p].pc = "announce" /\ call' = [call EXCEPT ![p] = new]
      /\ mirroring' = [mirroring EXCEPT ![r] = At(p)] /\ audits' = [audits EXCEPT ![r] = @ + 1]
      /\ UNCHANGED <<anchor, row, submit, lock, leaked, faults>>
  BY DEF Announce
<1>2. /\ new \in Calls /\ new.client = call[p].client /\ new.pc \in {"idle", "next"} /\ new.was = FALSE
      /\ p \in Instances => new.pc = "next" /\ call[p].client # "none"
      /\ p \in Operators => new.pc = "idle"
      /\ \A c \in new.page : Exists(c.ref)
  BY <1>1, RestedCall
<1>3. \A c \in new.page : c.ref \in Refs
  BY <1>2 DEF Calls, Copies
<1> HIDE DEF new
<1>4. /\ call'[p] = new /\ \A q \in Callers : q # p => call'[q] = call[q]
      /\ call' \in [Callers -> Calls]
  BY <1>1, <1>2 DEF IInv, TypeOK
<1>5. /\ r \in Refs /\ row[r].anchored /\ audits[r] = 0
      /\ \A q \in Callers : Announces(q) /\ call[q].ref = r => q = p
  BY <1>1 DEF IInv, CallsHaveRow, Upgrades, OneAnnounces, Announces
<1>6. At(p) \in Instances
  BY DEF At, Callers
<1>7. /\ mirroring' \in [Refs -> Instances \cup {None}] /\ audits' \in [Refs -> Nat]
      /\ audits'[r] = 1 /\ \A q \in Refs : q # r => audits'[q] = audits[q]
      /\ \A q \in Refs : q # r => mirroring'[q] = mirroring[q]
  <2>1. mirroring' \in [Refs -> Instances \cup {None}] /\ \A q \in Refs : q # r => mirroring'[q] = mirroring[q]
    BY <1>1, <1>5, <1>6 DEF IInv, TypeOK
  <2>2. audits \in [Refs -> Nat] /\ audits' = [audits EXCEPT ![r] = audits[r] + 1]
    BY <1>1 DEF IInv, TypeOK
  <2>3. audits' \in [Refs -> Nat] /\ audits'[r] = 1 /\ \A q \in Refs : q # r => audits'[q] = audits[q]
    BY <1>5, <2>2
  <2> QED
    BY <2>1, <2>3
<1>8. TypeOK'
  BY <1>1, <1>4, <1>7 DEF IInv, TypeOK
<1>9. AnchoredOnce' /\ FlagCoversReceipts' /\ VaultIsBacked' /\ MirrorsHaveReason'
  <2>1. AnchoredOnce'
    BY <1>1, <1>5, <1>7 DEF IInv, AnchoredOnce
  <2>2. FlagCoversReceipts' /\ VaultIsBacked'
    BY <1>1 DEF IInv, FlagCoversReceipts, VaultIsBacked, Exists
  <2>3. MirrorsHaveReason'
    BY <1>1, <1>5, <1>7 DEF IInv, MirrorsHaveReason
  <2> QED
    BY <2>1, <2>2, <2>3
<1>10. OneAnnounces'
  <2>1. \A q \in Callers : Announces(q)' => /\ q # p /\ call'[q] = call[q] /\ Announces(q)
                                            /\ call[q].ref \in Refs /\ call[q].ref # r
    BY <1>2, <1>4, <1>5 DEF Announces, IInv, CallsHaveRow, Upgrades
  <2>2. \A q \in Callers : Announces(q)' => row'[call'[q].ref].anchored /\ audits'[call'[q].ref] = 0
    BY <1>1, <1>7, <2>1 DEF IInv, OneAnnounces
  <2>3. \A q \in Callers, q2 \in Callers : Announces(q)' /\ Announces(q2)' /\ call'[q2].ref = call'[q].ref => q2 = q
    BY <2>1 DEF IInv, OneAnnounces
  <2> QED
    BY <2>2, <2>3 DEF OneAnnounces
<1>11. CallsKnow' /\ CallsHaveRow'
  <2>1. CallsKnow'
    BY <1>1, <1>2, <1>4 DEF IInv, CallsKnow
  <2>2. \A q \in Callers : Upgrades(q)' => call'[q] = call[q] /\ Upgrades(q)
    BY <1>2, <1>4 DEF Upgrades
  <2>3. CallsHaveRow'
    BY <1>1, <1>2, <1>4, <2>2 DEF IInv, CallsHaveRow, Exists, Upgrades
  <2> QED
    BY <2>1, <2>3
<1>12. Locking'
  BY <1>1, <1>2, LockingOf
<1> QED
  BY <1>8, <1>9, <1>10, <1>11, <1>12 DEF IInv, Locking

(***************************************************************************)
(* The lock, and faults                                                    *)
(***************************************************************************)

LEMMA FaultCounts == ASSUME IInv, Fault PROVE faults' \in 0 .. MaxFaults
BY DEF IInv, TypeOK, Fault

LEMMA SweepStartsKeeps == ASSUME NEW i \in Instances, IInv, SweepStarts(i) PROVE IInv'
<1>1. PICK refs \in SUBSET {r \in Refs : Exists(r) /\ ~row[r].anchored} :
        call' = [call EXCEPT ![i] = [@ EXCEPT !.pc = "next", !.client = "held",
                   !.page = {[ref |-> r, receipts |-> row[r].receipts] : r \in refs}]]
  BY DEF SweepStarts
<1> DEFINE page == {[ref |-> r, receipts |-> row[r].receipts] : r \in refs}
           new  == [call[i] EXCEPT !.pc = "next", !.client = "held", !.page = page]
<1>2. /\ call[i].pc = "idle" /\ (lock = None \/ (lock = i /\ leaked)) /\ lock' = i
      /\ UNCHANGED <<anchor, row, submit, mirroring, leaked, audits, faults>>
  BY DEF SweepStarts
<1>3. i \in Callers /\ call[i] \in Calls /\ ~call[i].was /\ row \in [Refs -> Rows]
  BY <1>2 DEF Callers, IInv, TypeOK, CallsHaveRow, Upgrades
<1>4. page \in SUBSET Copies /\ \A c \in page : Exists(c.ref)
  BY <1>3 DEF Copies, Rows
<1> HIDE DEF page
<1>5. /\ new \in Calls /\ new.pc = "next" /\ new.client = "held" /\ new.page = page /\ new.was = FALSE
  BY <1>3, <1>4 DEF Calls
<1>6. call' = [call EXCEPT ![i] = new]
  BY <1>1 DEF page
<1> HIDE DEF new
<1>7. lock' \in Instances \cup {None} /\ leaked' \in BOOLEAN /\ faults' \in 0 .. MaxFaults
  BY <1>2 DEF IInv, TypeOK
<1>8. Records'
  BY <1>2, <1>3, <1>4, <1>5, <1>6, <1>7, CallMoves, RowsStay, TwoHalves
<1>9. Locking'
  <2>1. call'[i] = new /\ \A q \in Callers : q # i => call'[q] = call[q]
    BY <1>3, <1>6 DEF IInv, TypeOK
  <2>2. Instances \subseteq Callers /\ Operators \subseteq Callers
    BY DEF Callers
  <2>3. \A j \in Instances : j # i => call[j].client # "held"
    BY <1>2 DEF IInv, LockFollowsSweep
  <2>4. LockFollowsSweep'
    BY <1>2, <1>5, <2>1, <2>2, <2>3 DEF LockFollowsSweep
  <2>5. SweepsHaveClient'
    BY <1>2, <1>5, <2>1, <2>2 DEF IInv, SweepsHaveClient
  <2> QED
    BY <2>4, <2>5 DEF Locking
<1> QED
  BY <1>8, <1>9 DEF IInv, Records, Locking

\* A sweep rests and leaves the lock as it is, with a hold left on it, or free.
LEMMA SweepRests ==
  ASSUME IInv, NEW i \in Instances, call[i].pc = "next", call' = [call EXCEPT ![i] = Resting],
         UNCHANGED <<anchor, row, submit, mirroring, audits>>, faults' \in 0 .. MaxFaults,
         \/ call[i].client = "held" /\ ~leaked /\ lock' = None /\ leaked' = leaked
         \/ ~(call[i].client = "held" /\ ~leaked) /\ UNCHANGED <<lock, leaked>>
         \/ call[i].client = "held" /\ lock' = lock /\ leaked' = TRUE
  PROVE  IInv'
<1>1. i \in Callers
  BY DEF Callers
<1>2. lock' \in Instances \cup {None} /\ leaked' \in BOOLEAN
  BY DEF IInv, TypeOK
<1>3. Records'
  BY <1>1, <1>2, RestingTyped, CallMoves, RowsStay, TwoHalves
<1>4. Locking'
  <2>1. call'[i] = Resting /\ \A q \in Callers : q # i => call'[q] = call[q]
    BY <1>1 DEF IInv, TypeOK
  <2>2. Instances \subseteq Callers /\ Operators \subseteq Callers /\ lock \in Instances \cup {None}
    BY DEF Callers, IInv, TypeOK
  <2>3. LockFollowsSweep'
    BY <2>1, <2>2, RestingTyped DEF IInv, LockFollowsSweep
  <2>4. SweepsHaveClient'
    BY <2>1, <2>2, RestingTyped DEF IInv, SweepsHaveClient, LockFollowsSweep
  <2> QED
    BY <2>3, <2>4 DEF Locking
<1> QED
  BY <1>3, <1>4 DEF IInv, Records, Locking

LEMMA UnlockKeeps == ASSUME NEW i \in Instances, IInv, Unlock(i) PROVE IInv'
<1>1. faults' \in 0 .. MaxFaults
  BY DEF Unlock, IInv, TypeOK
<1>2. \/ call[i].client = "held" /\ ~leaked /\ lock' = None /\ leaked' = leaked
      \/ ~(call[i].client = "held" /\ ~leaked) /\ UNCHANGED <<lock, leaked>>
  BY DEF Unlock
<1> QED
  BY <1>1, <1>2, SweepRests DEF Unlock

LEMMA UnlockFailsKeeps == ASSUME NEW i \in Instances, IInv, UnlockFails(i) PROVE IInv'
BY FaultCounts, SweepRests DEF UnlockFails

LEMMA UpgradeFailsKeeps == ASSUME NEW p \in Callers, IInv, UpgradeFails(p) PROVE IInv'
BY FaultCounts, CallEnds, RowsStay DEF UpgradeFails

LEMMA SubmitFailsKeeps == ASSUME NEW d \in Digests, IInv, SubmitFails(d) PROVE IInv'
<1>1. submit \in [Digests -> Submissions]
  BY DEF IInv, TypeOK
<1> QED
  BY <1>1, FaultCounts, OverTyped, SubmissionMoves DEF SubmitFails

LEMMA MirrorFailsKeeps == ASSUME NEW r \in Refs, IInv, MirrorFails(r) PROVE IInv'
<1> USE DEF IInv, MirrorFails
<1>1. TypeOK'
  BY FaultCounts DEF TypeOK
<1>2. AnchoredOnce' /\ FlagCoversReceipts' /\ VaultIsBacked' /\ OneAnnounces' /\ CallsKnow'
  BY DEF AnchoredOnce, FlagCoversReceipts, VaultIsBacked, Exists, OneAnnounces, Announces, CallsKnow
<1>3. MirrorsHaveReason' /\ CallsHaveRow'
  BY DEF MirrorsHaveReason, CallsHaveRow, Exists, Upgrades, TypeOK
<1> QED
  BY <1>1, <1>2, <1>3, NoCallMoves DEF Records

\* The clients or the lock change, of the calls nothing else.
LEMMA ClientsChange ==
  ASSUME IInv, UNCHANGED <<anchor, row, submit, mirroring, audits>>,
         call' \in [Callers -> Calls],
         \A q \in Callers : /\ call'[q].pc = call[q].pc /\ call'[q].ref = call[q].ref
                            /\ call'[q].was = call[q].was /\ call'[q].page = call[q].page,
         lock' \in Instances \cup {None}, leaked' \in BOOLEAN, faults' \in 0 .. MaxFaults
  PROVE  Records'
<1> USE DEF IInv
<1>1. TypeOK'
  BY DEF TypeOK
<1>2. AnchoredOnce' /\ FlagCoversReceipts' /\ VaultIsBacked' /\ MirrorsHaveReason'
  BY DEF AnchoredOnce, FlagCoversReceipts, VaultIsBacked, Exists, MirrorsHaveReason
<1>3. OneAnnounces' /\ CallsKnow' /\ CallsHaveRow'
  BY DEF OneAnnounces, Announces, CallsKnow, CallsHaveRow, Exists, Upgrades
<1> QED
  BY <1>1, <1>2, <1>3 DEF Records

LEMMA LockLostKeeps == ASSUME IInv, LockLost PROVE IInv'
<1>1. ASSUME NEW q \in Callers
      PROVE  /\ call'[q] \in Calls
             /\ call'[q].pc = call[q].pc /\ call'[q].ref = call[q].ref
             /\ call'[q].was = call[q].was /\ call'[q].page = call[q].page
             /\ call'[q].client # "held" /\ (call'[q].client = "none" <=> call[q].client = "none")
  <2>1. call[q] \in Calls
    BY DEF IInv, TypeOK
  <2>2. call'[q] = IF call[q].client = "held" THEN [call[q] EXCEPT !.client = "lost"] ELSE call[q]
    BY DEF LockLost
  <2> QED
    BY <2>1, <2>2 DEF Calls
<1>2. /\ call' \in [Callers -> Calls] /\ lock' = None /\ leaked' = FALSE
      /\ UNCHANGED <<anchor, row, submit, mirroring, audits>> /\ faults' \in 0 .. MaxFaults
  BY <1>1, FaultCounts DEF LockLost
<1>3. leaked' \in BOOLEAN
  BY <1>2
<1>4. Records'
  BY <1>1, <1>2, <1>3, ClientsChange
<1>5. Locking'
  <2>1. Instances \subseteq Callers /\ Operators \subseteq Callers
    BY DEF Callers
  <2> QED
    BY <1>1, <1>2, <2>1 DEF IInv, Locking, LockFollowsSweep, SweepsHaveClient
<1> QED
  BY <1>4, <1>5 DEF IInv, Records, Locking

LEMMA PoolEndsClientKeeps == ASSUME IInv, PoolEndsClient PROVE IInv'
<1>1. /\ call' = call /\ lock' = None /\ leaked' = FALSE /\ \A q \in Callers : call[q].client # "held"
      /\ UNCHANGED <<anchor, row, submit, mirroring, audits, faults>>
  BY DEF PoolEndsClient
<1>2. call \in [Callers -> Calls] /\ faults \in 0 .. MaxFaults /\ leaked' \in BOOLEAN
  BY <1>1 DEF IInv, TypeOK
<1>3. Records'
  BY <1>1, <1>2, ClientsChange
<1>4. Locking'
  <2>1. Instances \subseteq Callers
    BY DEF Callers
  <2> QED
    BY <1>1, <2>1 DEF IInv, Locking, LockFollowsSweep, SweepsHaveClient
<1> QED
  BY <1>3, <1>4 DEF IInv, Records, Locking

LEMMA CrashKeeps == ASSUME NEW i \in Instances, IInv, Crash(i) PROVE IInv'
<1> USE DEF IInv
<1>1. \A q \in Callers : call'[q] = IF At(q) = i THEN Resting ELSE call[q]
  BY DEF Crash
<1>2. \A d \in Digests : submit'[d] = Over \/ submit'[d] = submit[d]
  BY DEF Crash
<1>3. /\ UNCHANGED <<anchor, row, audits>> /\ lock' = (IF lock = i THEN None ELSE lock)
      /\ leaked' = (leaked /\ lock # i)
      /\ \A r \in Refs : mirroring'[r] = mirroring[r] \/ mirroring'[r] = None
  BY DEF Crash
<1>4. TypeOK'
  <2>1. call' \in [Callers -> Calls] /\ submit' \in [Digests -> Submissions]
    BY RestingTyped, OverTyped DEF TypeOK, Crash
  <2>2. mirroring' \in [Refs -> Instances \cup {None}] /\ lock' \in Instances \cup {None}
    BY DEF TypeOK, Crash
  <2>3. leaked' \in BOOLEAN
    BY <1>3
  <2> QED
    BY <1>3, <2>1, <2>2, <2>3, FaultCounts DEF TypeOK, Crash
<1>5. AnchoredOnce' /\ FlagCoversReceipts' /\ VaultIsBacked'
  BY <1>3 DEF AnchoredOnce, FlagCoversReceipts, VaultIsBacked, Exists
<1>6. OneAnnounces' /\ CallsKnow'
  BY <1>1, <1>3, RestingTyped DEF OneAnnounces, Announces, CallsKnow
<1>7. MirrorsHaveReason'
  BY <1>2, <1>3, OverTyped DEF MirrorsHaveReason
<1>8. CallsHaveRow'
  <2>1. \A q \in Callers : (call'[q] = Resting \/ call'[q] = call[q])
    BY <1>1
  <2>2. ~(Resting.pc \in {"write", "refresh", "announce"})
    BY RestingTyped
  <2> QED
    BY <1>2, <1>3, <2>1, <2>2, RestingTyped, OverTyped DEF CallsHaveRow, Exists, Upgrades
<1>9. LockFollowsSweep' /\ SweepsHaveClient'
  <2>1. Instances \subseteq Callers /\ Operators \subseteq Callers /\ lock \in Instances \cup {None}
    BY DEF Callers, TypeOK
  <2>2. \A j \in Instances : At(j) = j
    BY DEF At
  <2>3. \A j \in Instances : call'[j] = IF j = i THEN Resting ELSE call[j]
    BY <1>1, <2>1, <2>2
  <2>4. LockFollowsSweep'
    BY <1>3, <2>1, <2>3, RestingTyped DEF LockFollowsSweep
  <2>5. SweepsHaveClient'
    BY <1>1, <1>3, <2>1, <2>3, RestingTyped DEF SweepsHaveClient
  <2> QED
    BY <2>4, <2>5
<1> QED
  BY <1>4, <1>5, <1>6, <1>7, <1>8, <1>9

LEMMA StutteringKeeps == ASSUME IInv, UNCHANGED vars PROVE IInv'
<1>1. Records'
  BY DEF vars, IInv, Records, TypeOK, AnchoredOnce, FlagCoversReceipts, VaultIsBacked, OneAnnounces,
         Announces, CallsKnow, MirrorsHaveReason, CallsHaveRow, Exists, Upgrades
<1> QED
  BY <1>1, NoCallMoves DEF vars

LEMMA NextKeeps == ASSUME IInv, [Next]_vars PROVE IInv'
<1>1. ASSUME NEW d \in Digests, Submitting(d) PROVE IInv'
  BY <1>1, LookupKeeps, InsertKeeps, LoseInsertKeeps, MirrorPendingKeeps DEF Submitting
<1>2. ASSUME NEW i \in Instances, Sweeping(i) PROVE IInv'
  BY <1>2, SweepStartsKeeps, NextRowKeeps, UnlockKeeps DEF Sweeping
<1>3. ASSUME NEW p \in Callers, Upgrading(p) PROVE IInv'
  BY <1>3, FlipKeeps, LoseFlipKeeps, RefreshKeeps, AnnounceKeeps DEF Upgrading
<1>4. ASSUME Failing PROVE IInv'
  BY <1>4, UpgradeFailsKeeps, MirrorFailsKeeps, SubmitFailsKeeps, UnlockFailsKeeps, CrashKeeps,
     LockLostKeeps DEF Failing
<1> QED
  BY <1>1, <1>2, <1>3, <1>4, CloakKeeps, OperatorStartsKeeps, MirrorAnchoredKeeps,
     PoolEndsClientKeeps, StutteringKeeps DEF Next

(***************************************************************************)
(* The theorems                                                            *)
(***************************************************************************)

\* The inductive invariant of the anchoring holds always.
THEOREM AnchoringInvariant == Spec => []IInv
<1>1. Init => IInv
  BY InitEstablishes
<1>2. IInv /\ [Next]_vars => IInv'
  BY NextKeeps
<1> QED
  BY <1>1, <1>2, PTL DEF Spec

\* Types are kept (all handlers).
THEOREM AnchoringTyped == Spec => []TypeOK
<1>1. IInv => TypeOK
  BY DEF IInv
<1> QED
  BY <1>1, AnchoringInvariant, PTL

\* Operators and sweepers, with or without the lock, record one
\* Timestamp_Anchored event of a reference between them (upgradeOneRow).
THEOREM AnchoredAtMostOnce == Spec => []AnchoredOnce
<1>1. IInv => AnchoredOnce
  BY DEF IInv
<1> QED
  BY <1>1, AnchoringInvariant, PTL

\* No statement, however old the copy it was made from, leaves a "btc" receipt
\* in a row whose flag is not set (upgradeOneRow).
THEOREM FlagAlwaysCovers == Spec => []FlagCoversReceipts
<1>1. IInv => FlagCoversReceipts
  BY DEF IInv
<1> QED
  BY <1>1, AnchoringInvariant, PTL

\* The vault shows no proof the records of timestamps do not back, wherever a
\* cloak has moved the vault's row since (mirrorVaultOtsProof).
THEOREM VaultAlwaysBacked == Spec => []VaultIsBacked
<1>1. IInv => VaultIsBacked
  BY DEF IInv
<1> QED
  BY <1>1, AnchoringInvariant, PTL

\* A sweep whose connection lives has the lock, and nobody else has it but a
\* session that a failed unlock left behind (runSweepOnce).
THEOREM LockAlwaysFollows == Spec => []LockFollowsSweep
<1>1. IInv => LockFollowsSweep
  BY DEF IInv
<1> QED
  BY <1>1, AnchoringInvariant, PTL

(***************************************************************************)
(* The records of timestamps implement TimestampLifecycle                  *)
(***************************************************************************)

\* What a step that leaves digests, flags and audits alone is there.
Told == <<[r \in Refs |-> row[r].digest], [r \in Refs |-> row[r].anchored], audits>>

LEMMA InsertSimulates ==
  ASSUME IInv, NEW d \in Digests, Insert(d) PROVE \E r \in Refs : Lifecycle!Submit(r)
<1> DEFINE r == submit[d].ref
<1>1. PICK given \in SUBSET Calendars :
        row' = [row EXCEPT ![r] = [digest |-> d, receipts |-> Submitted(given), anchored |-> FALSE]]
  BY DEF Insert
<1>2. r \in Refs /\ ~Exists(r) /\ audits' = audits /\ row \in [Refs -> Rows]
  BY DEF Insert, SubmitAt, IInv, CallsHaveRow, TypeOK
<1>3. row[r].digest = None /\ row[r].anchored = FALSE
  BY <1>2 DEF IInv, CallsHaveRow, NoRow, Exists
<1>4. row'[r].digest = d /\ row'[r].anchored = FALSE /\ \A q \in Refs : q # r => row'[q] = row[q]
  BY <1>1, <1>2
<1>5. [q \in Refs |-> row'[q].digest] = [[q \in Refs |-> row[q].digest] EXCEPT ![r] = d]
  BY <1>2, <1>4
<1>6. [q \in Refs |-> row'[q].anchored] = [q \in Refs |-> row[q].anchored]
  BY <1>3, <1>4
<1> QED
  BY <1>2, <1>3, <1>5, <1>6 DEF Lifecycle!Submit

LEMMA FlipSimulates ==
  ASSUME IInv, NEW p \in Callers, Flip(p) PROVE \E r \in Refs : Lifecycle!Anchor(r)
<1> DEFINE r == call[p].ref
<1>1. r \in Refs /\ row[r].digest # None /\ ~row[r].anchored /\ audits' = audits /\ row \in [Refs -> Rows]
  BY DEF Flip, IInv, CallsHaveRow, Upgrades, Exists, TypeOK
<1>2. row' = [row EXCEPT ![r] = [@ EXCEPT !.receipts = call[p].got, !.anchored = TRUE]]
  BY DEF Flip, Write
<1>3. /\ row'[r].digest = row[r].digest /\ row'[r].anchored = TRUE
      /\ \A q \in Refs : q # r => row'[q] = row[q]
  BY <1>1, <1>2 DEF Rows
<1>4. [q \in Refs |-> row'[q].digest] = [q \in Refs |-> row[q].digest]
  BY <1>3
<1>5. [q \in Refs |-> row'[q].anchored] = [[q \in Refs |-> row[q].anchored] EXCEPT ![r] = TRUE]
  BY <1>1, <1>3
<1> QED
  BY <1>1, <1>4, <1>5 DEF Lifecycle!Anchor

LEMMA RefreshSimulates == ASSUME IInv, NEW p \in Callers, Refresh(p) PROVE UNCHANGED Told
<1> DEFINE r == call[p].ref
<1>1. r \in Refs /\ audits' = audits /\ row \in [Refs -> Rows]
  BY DEF Refresh, IInv, CallsHaveRow, Upgrades, TypeOK
<1>2. row' = [row EXCEPT ![r] = [@ EXCEPT !.receipts = call[p].got, !.anchored = row[r].anchored]]
  BY DEF Refresh, Write
<1>3. \A q \in Refs : row'[q].digest = row[q].digest /\ row'[q].anchored = row[q].anchored
  BY <1>1, <1>2 DEF Rows
<1> QED
  BY <1>1, <1>3 DEF Told

LEMMA AnnounceSimulates ==
  ASSUME IInv, NEW p \in Callers, Announce(p) PROVE \E r \in Refs : Lifecycle!Tell(r)
<1> DEFINE r == call[p].ref
<1>1. r \in Refs /\ row[r].anchored /\ audits[r] = 0 /\ row' = row
  BY DEF Announce, IInv, OneAnnounces, Announces, CallsHaveRow, Upgrades
<1>2. audits' = [audits EXCEPT ![r] = 1]
  <2>1. audits' = [audits EXCEPT ![r] = audits[r] + 1] /\ audits[r] + 1 = 1
    BY <1>1 DEF Announce
  <2> QED
    BY <2>1
<1> QED
  BY <1>1, <1>2 DEF Lifecycle!Tell

LEMMA StepsSimulate == ASSUME IInv, [Next]_vars PROVE [Lifecycle!Next]_Told
<1>1. ASSUME NEW d \in Digests, Submitting(d) PROVE Lifecycle!Next \/ UNCHANGED Told
  BY <1>1, InsertSimulates
     DEF Submitting, Lookup, LoseInsert, MirrorPending, Lifecycle!Next, Told
<1>2. ASSUME NEW p \in Callers, Upgrading(p) PROVE Lifecycle!Next \/ UNCHANGED Told
  BY <1>2, FlipSimulates, RefreshSimulates, AnnounceSimulates
     DEF Upgrading, LoseFlip, Lifecycle!Next, Told
<1>3. ASSUME NEW i \in Instances, Sweeping(i) PROVE UNCHANGED Told
  BY <1>3 DEF Sweeping, SweepStarts, NextRow, Unlock, Told
<1>4. ASSUME Failing PROVE UNCHANGED Told
  BY <1>4 DEF Failing, UpgradeFails, MirrorFails, SubmitFails, UnlockFails, Crash, LockLost, Told
<1>5. ASSUME \/ \E t \in Tenants, r \in Refs : Cloak(t, r)
             \/ \E p \in Operators : OperatorStarts(p)
             \/ \E r \in Refs : MirrorAnchored(r)
             \/ PoolEndsClient \/ UNCHANGED vars
      PROVE  UNCHANGED Told
  BY <1>5 DEF Cloak, OperatorStarts, MirrorAnchored, PoolEndsClient, vars, Told
<1> QED
  BY <1>1, <1>2, <1>3, <1>4, <1>5 DEF Next

\* The rows live as TimestampLifecycle says: one digest each, anchored once and
\* for good, told of at most once.
THEOREM AnchoringImplementsLifecycle == Spec => ImplementsLifecycle
<1>1. Init => Lifecycle!Init
  BY DEF Init, NoRow, Lifecycle!Init
<1>2. IInv /\ [Next]_vars => [Lifecycle!Next]_Told
  BY StepsSimulate
<1>3. Told = Lifecycle!vars
  BY DEF Told, Lifecycle!vars
<1>4. IInv /\ [Next]_vars => [Lifecycle!Next]_(Lifecycle!vars)
  BY <1>2 DEF Told, Lifecycle!vars
<1> QED
  BY <1>1, <1>4, AnchoringInvariant, PTL DEF Spec, ImplementsLifecycle, Lifecycle!Spec
=============================================================================
