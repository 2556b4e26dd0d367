------------------------- MODULE TimestampAnchoring -------------------------
(***************************************************************************)
(* Vault anchors and their OpenTimestamps proofs: the digest of a vault    *)
(* payload is submitted once per cloak id (timestampSubmit.ts), its        *)
(* receipts are upgraded by sweepers and by operators (timestampUpgrade.ts,*)
(* timestampSweeper.ts, routes/timestamp.ts), and the proof is mirrored    *)
(* into the vault anchor it belongs to (vaultOtsMirror.ts).                *)
(*                                                                         *)
(* A reference is a cloak id, which tenants can share.  The vault row of a *)
(* tenant's document moves to another reference when it is cloaked again   *)
(* under another key version or client.  An SQL statement is one step;     *)
(* every await before or after it is a place where others run.  Instances  *)
(* are server processes over one database.                                 *)
(*                                                                         *)
(* Abstractions: when a row is due, and who is before it, is left open: a  *)
(* sweep finds any of the rows that are not anchored on its page.  Of a    *)
(* proof only its length is kept, in steps of more than 16 bytes (0 none,  *)
(* 1 the receipt of the submission); a receipt is "btc" or "open" (pending *)
(* or error: nothing depends on which); the audit trail is the number of   *)
(* Timestamp_Anchored events.                                              *)
(***************************************************************************)
EXTENDS Naturals, FiniteSets

CONSTANTS
  Tenants,
  Refs,        \* cloak ids
  Digests,     \* payload digests: each cloak makes a new one
  Calendars,
  Instances,
  Operators,   \* upgrade requests that may run at a time
  About,       \* the reference such a request names
  Home,        \* the instance that serves a tenant or an operator
  BatchLimit,  \* rows of a sweep's page
  MaxLength,   \* bound: the longest proof
  MaxFaults,   \* bound: crashes, lost lock connections, failed statements
  None

ASSUME AnchoringAssumption ==
  /\ None \notin Digests \cup Instances \cup Refs \cup Nat
  /\ Instances \cap Operators = {}
  /\ About \in [Operators -> Refs]
  /\ Home \in [Tenants \cup Operators -> Instances]
  /\ MaxLength \in Nat \ {0} /\ MaxFaults \in Nat

VARIABLES
  anchor,     \* vault_anchors: one row of each tenant
  row,        \* timestamp_proofs: the row of each reference
  submit,     \* the submission of each digest
  call,       \* upgradeOneRow, by each sweeper and operator
  mirroring,  \* per reference, the instance whose unawaited mirror runs
  lock,       \* whose session holds the sweepers' advisory lock
  leaked,     \* that session is back in the pool with a hold left on it
  audits,     \* Timestamp_Anchored events of each reference
  faults

vars == <<anchor, row, submit, call, mirroring, lock, leaked, audits, faults>>

(***************************************************************************)
(* Values                                                                  *)
(***************************************************************************)

Callers == Instances \cup Operators

\* The instance a sweeper or an operator's request runs in.
At(p) == IF p \in Instances THEN p ELSE Home[p]

Lengths == 0 .. MaxLength

Receipts == [Calendars -> [status : {"open", "btc"}, length : Lengths]]

NoReceipts == [c \in Calendars |-> [status |-> "open", length |-> 0]]

Rows == [digest : Digests \cup {None}, receipts : Receipts, anchored : BOOLEAN]

NoRow == [digest |-> None, receipts |-> NoReceipts, anchored |-> FALSE]

Ots == [digest : Digests \cup {None}, status : {"none", "pending", "btc"}]

NoOts == [digest |-> None, status |-> "none"]

Anchors == [digest : Digests \cup {None}, ref : Refs \cup {None}, ots : Ots]

NoAnchor == [digest |-> None, ref |-> None, ots |-> NoOts]

Submissions == [pc : {"unborn", "lookup", "insert", "mirror", "done"},
                at : Instances \cup {None}, ref : Refs \cup {None}]

NotBorn == [pc |-> "unborn", at |-> None, ref |-> None]
Over    == [pc |-> "done", at |-> None, ref |-> None]

\* A row as a sweep read it.
Copies == [ref : Refs, receipts : Receipts]

\* A call of upgradeOneRow: the row it is about, what it read and was told; of a
\* sweep, the rest of its page and whether its client still has the lock.
Calls == [pc : {"idle", "next", "write", "refresh", "announce"},
          ref : Refs \cup {None}, was : BOOLEAN, got : Receipts,
          page : SUBSET Copies, client : {"none", "held", "lost"}]

Resting == [pc |-> "idle", ref |-> None, was |-> FALSE, got |-> NoReceipts,
            page |-> {}, client |-> "none"]

TypeOK ==
  /\ anchor \in [Tenants -> Anchors]
  /\ row \in [Refs -> Rows]
  /\ submit \in [Digests -> Submissions]
  /\ call \in [Callers -> Calls]
  /\ mirroring \in [Refs -> Instances \cup {None}]
  /\ lock \in Instances \cup {None}
  /\ leaked \in BOOLEAN
  /\ audits \in [Refs -> Nat]
  /\ faults \in 0 .. MaxFaults

Exists(r) == row[r].digest # None

IsBtcAnchored(receipts) == \E c \in Calendars : receipts[c].status = "btc"

Init ==
  /\ anchor = [t \in Tenants |-> NoAnchor]
  /\ row = [r \in Refs |-> NoRow]
  /\ submit = [d \in Digests |-> NotBorn]
  /\ call = [p \in Callers |-> Resting]
  /\ mirroring = [r \in Refs |-> None]
  /\ lock = None /\ leaked = FALSE
  /\ audits = [r \in Refs |-> 0]
  /\ faults = 0

(***************************************************************************)
(* Cloaking and submission                                                 *)
(***************************************************************************)

\* The transaction of a cloak upserts the tenant's row with the cloak id and
\* the digest and leaves its ots_proof; the submission is started after it.
Cloak(t, r) ==
  /\ \E d \in Digests : submit[d].pc = "unborn"
  /\ LET new == CHOOSE d \in Digests : submit[d].pc = "unborn" IN
       /\ anchor' = [anchor EXCEPT ![t] = [@ EXCEPT !.digest = new, !.ref = r]]
       /\ submit' = [submit EXCEPT ![new] = [pc |-> "lookup", at |-> Home[t], ref |-> r]]
  /\ UNCHANGED <<row, call, mirroring, lock, leaked, audits, faults>>

SubmitAt(d, from, to) ==
  /\ submit[d].pc = from
  /\ submit' = [submit EXCEPT ![d] = IF to = "done" THEN Over ELSE [@ EXCEPT !.pc = to]]

Lookup(d) ==
  /\ SubmitAt(d, "lookup", IF Exists(submit[d].ref) THEN "done" ELSE "insert")
  /\ UNCHANGED <<anchor, row, call, mirroring, lock, leaked, audits, faults>>

\* submitDigest: each calendar hands out a receipt or fails.
Submitted(given) ==
  [c \in Calendars |-> IF c \in given THEN [status |-> "open", length |-> 1] ELSE NoReceipts[c]]

\* The calendars were asked, and the insert meets no row of the reference.
Insert(d) ==
  LET r == submit[d].ref IN
  /\ SubmitAt(d, "insert", "mirror")
  /\ ~Exists(r)
  /\ \E given \in SUBSET Calendars :
       row' = [row EXCEPT ![r] = [digest |-> d, receipts |-> Submitted(given),
                                  anchored |-> FALSE]]
  /\ UNCHANGED <<anchor, call, mirroring, lock, leaked, audits, faults>>

\* Mutant: the loser of the race for the row mirrors its receipts too.
LoseInsertMirrors(d) ==
  /\ SubmitAt(d, "insert", "mirror")
  /\ Exists(submit[d].ref)
  /\ UNCHANGED <<anchor, row, call, mirroring, lock, leaked, audits, faults>>

LoseInsert(d) ==
  /\ SubmitAt(d, "insert", "done")
  /\ Exists(submit[d].ref)
  /\ UNCHANGED <<anchor, row, call, mirroring, lock, leaked, audits, faults>>

\* UPDATE vault_anchors ... WHERE cloak_id AND payload_digest_sha256.
Mirror(r, d, status) ==
  anchor' = [t \in Tenants |-> IF anchor[t].ref = r /\ anchor[t].digest = d
                               THEN [anchor[t] EXCEPT !.ots = [digest |-> d, status |-> status]]
                               ELSE anchor[t]]

MirrorPending(d) ==
  /\ SubmitAt(d, "mirror", "done")
  /\ Mirror(submit[d].ref, d, "pending")
  /\ UNCHANGED <<row, call, mirroring, lock, leaked, audits, faults>>

(***************************************************************************)
(* Upgrading                                                               *)
(***************************************************************************)

\* A tick of instance i whose last one has ended and that gets the lock: it is
\* free, or the tick was given the very client that was left with a hold on it.
\* (Every other tick changes nothing.)  The candidates are read at once, the
\* oldest of all due rows up to a limit, so others can keep any of these off the
\* page; a failing query leaves no page at all.
SweepStarts(i) ==
  /\ call[i].pc = "idle"
  /\ lock = None \/ (lock = i /\ leaked)
  /\ lock' = i
  /\ \E refs \in SUBSET {r \in Refs : Exists(r) /\ ~row[r].anchored} :
       /\ Cardinality(refs) <= BatchLimit
       /\ call' = [call EXCEPT ![i] = [@ EXCEPT !.pc = "next", !.client = "held",
                  !.page = {[ref |-> r, receipts |-> row[r].receipts] : r \in refs}]]
  /\ UNCHANGED <<anchor, row, submit, mirroring, leaked, audits, faults>>

\* upgradeReceipt: a 404 and a failure (None) leave the proof; a body of any
\* length replaces it, and counts as the Bitcoin proof when it is longer than
\* the proof of the row as it was read.
Upgraded(receipt, length) ==
  IF length = None
  THEN [receipt EXCEPT !.status = "open"]
  ELSE [status |-> IF length > receipt.length THEN "btc" ELSE "open", length |-> length]

\* A calendar answers what it likes, whatever it has or has not confirmed.
Answers == Lengths \cup {None}

\* upgradeOneRow asks the calendars from a copy of the row.  What they answer
\* depends on nothing here and is told to nobody else, so it is drawn at once;
\* the time that passes before the answers are written comes after this step.
Ask(p, r, was, receipts, rest) ==
  \E answers \in [Calendars -> Answers] :
    call' = [call EXCEPT ![p] = [@ EXCEPT !.pc = "write", !.ref = r, !.was = was, !.page = rest,
               !.got = [c \in Calendars |-> Upgraded(receipts[c], answers[c])]]]

\* An operator's request reads the row of the reference it names.
OperatorStarts(p) ==
  LET r == About[p] IN
  /\ call[p].pc = "idle" /\ Exists(r)
  /\ Ask(p, r, row[r].anchored, row[r].receipts, {})
  /\ UNCHANGED <<anchor, row, submit, mirroring, lock, leaked, audits, faults>>

\* The rows of a page are upgraded one after the other, from the copies.
NextRow(i) ==
  /\ call[i].pc = "next"
  /\ \E copy \in call[i].page : Ask(i, copy.ref, FALSE, copy.receipts, call[i].page \ {copy})
  /\ UNCHANGED <<anchor, row, submit, mirroring, lock, leaked, audits, faults>>

\* A call has ended: a sweep goes to its next row.
Rested(c) ==
  [c EXCEPT !.pc = IF c.client = "none" THEN "idle" ELSE "next",
            !.ref = None, !.was = FALSE, !.got = NoReceipts]

\* Mutant: the receipts the row had decide, not the ones just fetched.
TransitionStale(p) == ~call[p].was /\ IsBtcAnchored(row[call[p].ref].receipts)

Transition(p) == ~call[p].was /\ IsBtcAnchored(call[p].got)

Write(p, anchored) ==
  row' = [row EXCEPT ![call[p].ref] = [@ EXCEPT !.receipts = call[p].got,
                                                !.anchored = anchored]]

\* UPDATE ... SET btc_anchored = true WHERE id AND btc_anchored = false.
Flip(p) ==
  /\ call[p].pc = "write" /\ Transition(p) /\ ~row[call[p].ref].anchored
  /\ Write(p, TRUE)
  /\ call' = [call EXCEPT ![p] = [@ EXCEPT !.pc = "announce", !.was = FALSE, !.got = NoReceipts]]
  /\ UNCHANGED <<anchor, submit, mirroring, lock, leaked, audits, faults>>

LoseFlip(p) ==
  /\ call[p].pc = "write" /\ Transition(p) /\ row[call[p].ref].anchored
  /\ call' = [call EXCEPT ![p] = [@ EXCEPT !.pc = "refresh"]]
  /\ UNCHANGED <<anchor, row, submit, mirroring, lock, leaked, audits, faults>>

\* Mutant: the plain UPDATE writes btc_anchored as well.
RefreshFlag(p) ==
  /\ call[p].pc = "refresh" \/ (call[p].pc = "write" /\ ~Transition(p))
  /\ Write(p, IsBtcAnchored(call[p].got))
  /\ call' = [call EXCEPT ![p] = Rested(@)]
  /\ UNCHANGED <<anchor, submit, mirroring, lock, leaked, audits, faults>>

\* The plain UPDATE of the losers, and of calls that see no transition.
Refresh(p) ==
  /\ call[p].pc = "refresh" \/ (call[p].pc = "write" /\ ~Transition(p))
  /\ Write(p, row[call[p].ref].anchored)
  /\ call' = [call EXCEPT ![p] = Rested(@)]
  /\ UNCHANGED <<anchor, submit, mirroring, lock, leaked, audits, faults>>

\* Mutant: the winner records the audit and forgets the mirror.
AnnounceOnly(p) ==
  /\ call[p].pc = "announce"
  /\ audits' = [audits EXCEPT ![call[p].ref] = @ + 1]
  /\ call' = [call EXCEPT ![p] = Rested(@)]
  /\ UNCHANGED <<anchor, row, submit, mirroring, lock, leaked, faults>>

\* The winner starts the mirror without awaiting it and records the audit.
Announce(p) ==
  /\ call[p].pc = "announce"
  /\ mirroring' = [mirroring EXCEPT ![call[p].ref] = At(p)]
  /\ audits' = [audits EXCEPT ![call[p].ref] = @ + 1]
  /\ call' = [call EXCEPT ![p] = Rested(@)]
  /\ UNCHANGED <<anchor, row, submit, lock, leaked, faults>>

MirrorAnchored(r) ==
  /\ mirroring[r] # None
  /\ Mirror(r, row[r].digest, "btc")
  /\ mirroring' = [mirroring EXCEPT ![r] = None]
  /\ UNCHANGED <<row, submit, call, lock, leaked, audits, faults>>

\* Mutant: the unlock does not look at whose session holds the lock.
UnlockAnyone(i) ==
  /\ call[i].pc = "next" /\ call[i].page = {}
  /\ lock' = None
  /\ call' = [call EXCEPT ![i] = Resting]
  /\ UNCHANGED <<anchor, row, submit, mirroring, leaked, audits, faults>>

\* The finally of a sweep: one hold is given back, if the session still lives;
\* the client goes back to the pool, with the hold an earlier sweep left.
Unlock(i) ==
  /\ call[i].pc = "next" /\ call[i].page = {}
  /\ lock' = IF call[i].client = "held" /\ ~leaked THEN None ELSE lock
  /\ call' = [call EXCEPT ![i] = Resting]
  /\ UNCHANGED <<anchor, row, submit, mirroring, leaked, audits, faults>>

(***************************************************************************)
(* Faults                                                                  *)
(***************************************************************************)

Fault == faults < MaxFaults /\ faults' = faults + 1

\* A failing UPDATE ends the call in its catch, which touches last_checked_at.
UpgradeFails(p) ==
  /\ Fault
  /\ call[p].pc \in {"write", "refresh"}
  /\ call' = [call EXCEPT ![p] = Rested(@)]
  /\ UNCHANGED <<anchor, row, submit, mirroring, lock, leaked, audits>>

\* A failed mirror is logged and not tried again.
MirrorFails(r) ==
  /\ Fault
  /\ mirroring[r] # None
  /\ mirroring' = [mirroring EXCEPT ![r] = None]
  /\ UNCHANGED <<anchor, row, submit, call, lock, leaked, audits>>

\* So is a failed submission.
SubmitFails(d) ==
  /\ Fault
  /\ submit[d].pc \in {"lookup", "insert", "mirror"}
  /\ submit' = [submit EXCEPT ![d] = Over]
  /\ UNCHANGED <<anchor, row, call, mirroring, lock, leaked, audits>>

\* A failed unlock is logged, and the client goes back to the pool as it is.
UnlockFails(i) ==
  /\ Fault
  /\ call[i].pc = "next" /\ call[i].page = {} /\ call[i].client = "held"
  /\ leaked' = TRUE
  /\ call' = [call EXCEPT ![i] = Resting]
  /\ UNCHANGED <<anchor, row, submit, mirroring, lock, audits>>

\* The session that holds the lock ends: its connection drops under a sweep,
\* which runs on with others, or ...
LockLost ==
  /\ Fault
  /\ lock # None /\ lock' = None /\ leaked' = FALSE
  /\ call' = [p \in Callers |-> IF call[p].client = "held" THEN [call[p] EXCEPT !.client = "lost"]
                                                           ELSE call[p]]
  /\ UNCHANGED <<anchor, row, submit, mirroring, audits>>

\* ... the pool ends its idle client.
PoolEndsClient ==
  /\ leaked /\ \A p \in Callers : call[p].client # "held"
  /\ lock' = None /\ leaked' = FALSE
  /\ UNCHANGED <<anchor, row, submit, call, mirroring, audits, faults>>

Crash(i) ==
  /\ Fault
  /\ submit' = [d \in Digests |-> IF submit[d].at = i THEN Over ELSE submit[d]]
  /\ call' = [p \in Callers |-> IF At(p) = i THEN Resting ELSE call[p]]
  /\ mirroring' = [r \in Refs |-> IF mirroring[r] = i THEN None ELSE mirroring[r]]
  /\ lock' = IF lock = i THEN None ELSE lock
  /\ leaked' = (leaked /\ lock # i)
  /\ UNCHANGED <<anchor, row, audits>>

(***************************************************************************)
(* Specification                                                           *)
(***************************************************************************)

Submitting(d) == Lookup(d) \/ Insert(d) \/ LoseInsert(d) \/ MirrorPending(d)

Sweeping(i) == SweepStarts(i) \/ NextRow(i) \/ Unlock(i)

Upgrading(p) == Flip(p) \/ LoseFlip(p) \/ Refresh(p) \/ Announce(p)

Failing ==
  \/ \E p \in Callers : UpgradeFails(p)
  \/ \E r \in Refs : MirrorFails(r)
  \/ \E d \in Digests : SubmitFails(d)
  \/ \E i \in Instances : UnlockFails(i) \/ Crash(i)
  \/ LockLost

Next ==
  \/ \E t \in Tenants, r \in Refs : Cloak(t, r)
  \/ \E d \in Digests : Submitting(d)
  \/ \E p \in Operators : OperatorStarts(p)
  \/ \E i \in Instances : Sweeping(i)
  \/ \E p \in Callers : Upgrading(p)
  \/ \E r \in Refs : MirrorAnchored(r)
  \/ PoolEndsClient \/ Failing

Spec == Init /\ [][Next]_vars

\* A process that does not die goes on after its UPDATE, and a statement it
\* has sent is answered or fails.
FairSpec ==
  /\ Spec
  /\ \A p \in Callers : WF_vars(Announce(p))
  /\ \A r \in Refs : WF_vars(MirrorAnchored(r))

(***************************************************************************)
(* Properties                                                              *)
(***************************************************************************)

\* Timestamp_Anchored is recorded once at most per reference, and only of a row
\* that is anchored, whatever operators and sweeps race for it (upgradeOneRow).
AnchoredOnce == \A r \in Refs : audits[r] <= 1 /\ (audits[r] = 1 => row[r].anchored)

\* The flag btc_anchored and the receipts it stands for are written by several
\* statements of several callers, some from an old copy of the row: no row has a
\* "btc" receipt that the flag does not show, or the sweeper would ask again and
\* announce again (upgradeOneRow's guarded and plain UPDATEs).
FlagCoversReceipts == \A r \in Refs : IsBtcAnchored(row[r].receipts) => row[r].anchored

\* A vault anchor's proof is one of a submitted digest, and "btc" only when that
\* digest's row is anchored, also when the anchor has moved to another reference
\* since (mirrorVaultOtsProof and its callers).
VaultIsBacked ==
  \A t \in Tenants :
    LET ots == anchor[t].ots IN
      ots # NoOts => \E r \in Refs : /\ Exists(r) /\ row[r].digest = ots.digest
                                     /\ ots.status = "btc" => row[r].anchored

\* The lock follows the sweeps: one whose connection lives has it, so two such
\* sweeps never work side by side, and nobody else has it except a session that
\* a failed unlock left behind (runSweepOnce).
LockFollowsSweep ==
  /\ \A i \in Instances : call[i].client = "held" => lock = i
  /\ lock # None => leaked \/ call[lock].client = "held"

\* What makes these inductive: who announces does so alone, a call knows what
\* the row was, a mirror under way has its reason, a call has a row, and only
\* sweeps have clients.
Announces(p) == call[p].pc = "announce"

OneAnnounces ==
  \A p \in Callers : Announces(p) =>
    /\ row[call[p].ref].anchored /\ audits[call[p].ref] = 0
    /\ \A q \in Callers : Announces(q) /\ call[q].ref = call[p].ref => q = p

CallsKnow ==
  \A p \in Callers : call[p].was \/ call[p].pc = "refresh" => row[call[p].ref].anchored

MirrorsHaveReason ==
  /\ \A d \in Digests : submit[d].pc = "mirror" => row[submit[d].ref].digest = d
  /\ \A r \in Refs : mirroring[r] # None => row[r].anchored

Upgrades(p) == call[p].pc \in {"write", "refresh", "announce"}

CallsHaveRow ==
  /\ \A p \in Callers : /\ Upgrades(p) => call[p].ref \in Refs /\ Exists(call[p].ref)
                        /\ ~Upgrades(p) => ~call[p].was
                        /\ \A copy \in call[p].page : Exists(copy.ref)
  /\ \A d \in Digests : submit[d].pc \in {"lookup", "insert", "mirror"} => submit[d].ref \in Refs
  /\ \A r \in Refs : ~Exists(r) => row[r] = NoRow

SweepsHaveClient ==
  /\ \A p \in Operators : call[p].client = "none" /\ call[p].pc # "next"
  /\ \A i \in Instances : call[i].pc = "idle" <=> call[i].client = "none"
  /\ leaked => lock # None

\* The inductive invariant.
IInv == /\ TypeOK /\ AnchoredOnce /\ FlagCoversReceipts /\ VaultIsBacked /\ LockFollowsSweep
        /\ OneAnnounces /\ CallsKnow /\ MirrorsHaveReason /\ CallsHaveRow /\ SweepsHaveClient

\* Each row follows the abstract life of a timestamp record.
Lifecycle == INSTANCE TimestampLifecycle WITH
               digest <- [r \in Refs |-> row[r].digest],
               anchored <- [r \in Refs |-> row[r].anchored], told <- audits
ImplementsLifecycle == Lifecycle!Spec

\* Who wins the transition of a row brings it into the vault anchor of its
\* digest, unless a cloak replaces the digest or a fault drops the one mirror
\* there is (upgradeOneRow's unawaited mirrorVaultOtsProof).
AnchoredReachesVault ==
  \A t \in Tenants, r \in Refs :
    (anchor[t].digest = row[r].digest /\ \E p \in Callers : Announces(p) /\ call[p].ref = r)
      ~> (anchor[t].ots.status = "btc" \/ anchor[t].digest # row[r].digest \/ faults # 0)

\* timestampProofs.ts: "We re-fetch via `/timestamp/{hex}` and store the
\* upgraded proof under kind: btc": a call that read the row before it was
\* anchored does not take that receipt away again.
AnchoredKeepsProof ==
  [][\A p \in Callers, r \in Refs :
       Refresh(p) /\ call[p].ref = r /\ ~call[p].was /\ IsBtcAnchored(row[r].receipts)
         => IsBtcAnchored(row'[r].receipts)]_vars
=============================================================================
