-------------------------- MODULE LiveSegmentStore --------------------------
(***************************************************************************)
(* The segment append of LiveProductStore: one live session kept in files  *)
(* under a managed root.  An append is a chain of separate file writes     *)
(* (journal, temporary media, rename, segment record, session record,      *)
(* event log, journal removal, playlist); reconcileSegmentJournal settles  *)
(* a journal left behind by a process that died, and is the first thing    *)
(* append, start, stop and the health check do.                            *)
(*                                                                         *)
(* The store is synchronous code in one process that holds an exclusive    *)
(* lease, so two operations never interleave; what can happen between any  *)
(* two writes is that the process dies (Crash) or that a write finds the   *)
(* disk full (the Full* actions, in FaultSpec only).  One action is one    *)
(* write.  pc names the next write of the running operation.               *)
(*                                                                         *)
(* Abstractions: SHA-256 is injective, so a digest is the value it digests *)
(* and a chain head is the list of segments it covers; a fragment carries  *)
(* its mfhd sequence number (Mfhd) and its decode times advance with it.   *)
(***************************************************************************)
EXTENDS Naturals, Sequences, FiniteSets

CONSTANTS
  Fragments,    \* fragment contents an encoder may send
  Mfhd,         \* the mfhd sequence number inside each fragment
  Keys,         \* idempotency keys
  Files,        \* random names of media files
  MaxSegments,  \* limits.maxSegments
  Absent,       \* no such file, no such record
  Partial,      \* a file whose write stopped half way
  NoRequest     \* no append is running

ASSUME MfhdAssumption     == Mfhd \in [Fragments -> Nat]
ASSUME LimitAssumption    == MaxSegments \in Nat

VARIABLES
  session,    \* session.json
  record,     \* segment-<sequence>.json, by sequence number
  media,      \* media/segments/<name>.m4s, by name
  temporary,  \* media/segments/.tmp-<name>.segment, by name
  journal,    \* segment-journal.json
  eventsOk,   \* events.ndjson still parses as a hash chain
  manifest,   \* the sequence numbers listed by media/manifest.m3u8
  pc,         \* the next write of the running operation
  caller,     \* which operation is running
  request,    \* the request of a running append
  acked       \* requests answered with success (history)

disk == <<session, record, media, temporary, journal, eventsOk, manifest>>
vars == <<session, record, media, temporary, journal, eventsOk, manifest,
          pc, caller, request, acked>>

(***************************************************************************)
(* Values                                                                  *)
(***************************************************************************)

SeqNos  == 0 .. MaxSegments
Link    == [sequence : SeqNos, fragment : Fragments]
Chain   == Seq(Link)
Request == [sequence : SeqNos, fragment : Fragments, key : Keys]
Status  == {"RUNNING", "STOPPING", "FAILED"}

Session == [status : Status, segmentCount : 0 .. MaxSegments,
            nextSegmentSequence : 0 .. MaxSegments + 1, chainHead : Chain]
Record  == [sequence : SeqNos, fragment : Fragments, key : Keys, file : Files,
            previous : Chain, chain : Chain]
Journal == [sequence : SeqNos, file : Files, fragment : Fragments]

ASSUME SentinelAssumption ==
  /\ Absent \notin Fragments \cup {Partial} \cup Record \cup Journal \cup Request
  /\ Partial \notin Fragments
  /\ NoRequest \notin Request

Steps == {"idle", "reconcile", "rollback.journal", "rollback.event",
          "commit.session", "commit.event", "check", "journal", "temporary",
          "rename", "record", "session", "event", "unjournal", "manifest",
          "failed", "undo.media", "undo.record", "undo.journal", "stop"}

TypeOK ==
  /\ session \in Session
  /\ record \in [SeqNos -> Record \cup {Absent}]
  /\ media \in [Files -> Fragments \cup {Absent}]
  /\ temporary \in [Files -> Fragments \cup {Absent, Partial}]
  /\ journal \in Journal \cup {Absent}
  /\ eventsOk \in BOOLEAN
  /\ manifest \subseteq SeqNos
  /\ pc \in Steps
  /\ caller \in {"none", "append", "stop", "health"}
  /\ request \in Request \cup {NoRequest}
  /\ acked \subseteq Request

(***************************************************************************)
(* What the store reads                                                    *)
(***************************************************************************)

Stored   == {s \in SeqNos : record[s] # Absent}
Last     == CHOOSE s \in Stored : \A t \in Stored : t <= s
Fresh(f) == /\ media[f] = Absent
            /\ temporary[f] = Absent
            /\ journal # Absent => journal.file # f
            /\ \A s \in Stored : record[s].file # f

\* The existing record answers the request: same bytes, same key.
SameAsStored(r) ==
  /\ record[r.sequence].fragment = r.fragment
  /\ record[r.sequence].key = r.key

\* readSegment: the media file of a record is there and hashes to it.
Readable(s) == media[record[s].file] = record[s].fragment

\* Mutant: fragments may be skipped.
ContinuesTimelineLoosely(r) ==
  Stored # {} => Mfhd[r.fragment] > Mfhd[record[Last].fragment]

\* The next fragment continues the timeline of the last stored one.
ContinuesTimeline(r) ==
  Stored # {} => Mfhd[r.fragment] = Mfhd[record[Last].fragment] + 1

Acceptable(r) ==
  /\ session.status = "RUNNING"
  /\ record[r.sequence] = Absent
  /\ r.sequence = session.nextSegmentSequence
  /\ ContinuesTimeline(r)
  /\ session.segmentCount + 1 <= MaxSegments

\* Mutant: a retry is recognised by its sequence number alone.
DuplicateBySequence(r) ==
  /\ session.status = "RUNNING"
  /\ record[r.sequence] # Absent
  /\ Readable(r.sequence)

Duplicate(r) ==
  /\ session.status = "RUNNING"
  /\ record[r.sequence] # Absent
  /\ SameAsStored(r)
  /\ Readable(r.sequence)

-----------------------------------------------------------------------------
Init ==
  /\ session = [status |-> "RUNNING", segmentCount |-> 0,
                nextSegmentSequence |-> 0, chainHead |-> <<>>]
  /\ record = [s \in SeqNos |-> Absent]
  /\ media = [f \in Files |-> Absent]
  /\ temporary = [f \in Files |-> Absent]
  /\ journal = Absent
  /\ eventsOk = TRUE
  /\ manifest = {}
  /\ pc = "idle"
  /\ caller = "none"
  /\ request = NoRequest
  /\ acked = {}

\* The running operation returns or throws; the next request may come.
Leave == pc' = "idle" /\ caller' = "none" /\ request' = NoRequest

Goto(step) == pc' = step /\ UNCHANGED <<caller, request>>

(***************************************************************************)
(* Calls.  Each one starts by reconciling the journal.                     *)
(***************************************************************************)

AppendCall(r) ==
  /\ pc = "idle"
  /\ pc' = "reconcile" /\ caller' = "append" /\ request' = r
  /\ UNCHANGED <<disk, acked>>

\* Mutant: stop does not reconcile first.
StopCallUnreconciled ==
  /\ pc = "idle"
  /\ pc' = "stop" /\ caller' = "stop" /\ request' = NoRequest
  /\ UNCHANGED <<disk, acked>>

StopCall ==
  /\ pc = "idle"
  /\ pc' = "reconcile" /\ caller' = "stop" /\ request' = NoRequest
  /\ UNCHANGED <<disk, acked>>

HealthCall ==
  /\ pc = "idle"
  /\ pc' = "reconcile" /\ caller' = "health" /\ request' = NoRequest
  /\ UNCHANGED <<disk, acked>>

(***************************************************************************)
(* reconcileSegmentJournal                                                 *)
(***************************************************************************)

\* Reconciliation is over: the operation that asked for it goes on.
Resume == \/ caller = "append" /\ Goto("check")
          \/ caller = "stop" /\ Goto("stop")
          \/ caller = "health" /\ Leave

ReconcileNone ==
  /\ pc = "reconcile" /\ journal = Absent
  /\ Resume
  /\ UNCHANGED <<disk, acked>>

\* Mutant: a rollback forgets the media file that was already renamed.
RollBackTemporaryOnly ==
  /\ pc = "reconcile" /\ journal # Absent
  /\ record[journal.sequence] = Absent
  /\ temporary' = [temporary EXCEPT ![journal.file] = Absent]
  /\ Goto("rollback.journal")
  /\ UNCHANGED <<session, record, media, journal, eventsOk, manifest, acked>>

\* No segment record: the bytes are orphans and are removed.
RollBackMedia ==
  /\ pc = "reconcile" /\ journal # Absent
  /\ record[journal.sequence] = Absent
  /\ media' = [media EXCEPT ![journal.file] = Absent]
  /\ temporary' = [temporary EXCEPT ![journal.file] = Absent]
  /\ Goto("rollback.journal")
  /\ UNCHANGED <<session, record, journal, eventsOk, manifest, acked>>

RollBackJournal ==
  /\ pc = "rollback.journal"
  /\ journal' = Absent
  /\ Goto("rollback.event")
  /\ UNCHANGED <<session, record, media, temporary, eventsOk, manifest, acked>>

\* appendEvent rereads the event log first and throws on a broken one.
RollBackEvent ==
  /\ pc = "rollback.event"
  /\ IF eventsOk THEN Resume ELSE Leave
  /\ UNCHANGED <<disk, acked>>

JournalSound ==
  /\ media[journal.file] = record[journal.sequence].fragment
  /\ record[journal.sequence].fragment = journal.fragment

\* The record exists but its media does not match: the reconcile throws.
ReconcileRefused ==
  /\ pc = "reconcile" /\ journal # Absent
  /\ record[journal.sequence] # Absent
  /\ ~ JournalSound
  /\ Leave
  /\ UNCHANGED <<disk, acked>>

\* Mutant: a recovered commit leaves its journal behind.
CommitKeepingJournal ==
  /\ pc = "reconcile" /\ journal # Absent
  /\ record[journal.sequence] # Absent
  /\ JournalSound
  /\ temporary' = [temporary EXCEPT ![journal.file] = Absent]
  /\ Goto(IF session.nextSegmentSequence <= journal.sequence
          THEN "commit.session" ELSE "commit.event")
  /\ UNCHANGED <<session, record, media, journal, eventsOk, manifest, acked>>

\* The record exists: it is the commit.  The journal goes first ...
CommitJournal ==
  /\ pc = "reconcile" /\ journal # Absent
  /\ record[journal.sequence] # Absent
  /\ JournalSound
  /\ temporary' = [temporary EXCEPT ![journal.file] = Absent]
  /\ journal' = Absent
  /\ Goto(IF session.nextSegmentSequence <= journal.sequence
          THEN "commit.session" ELSE "commit.event")
  /\ UNCHANGED <<session, record, media, eventsOk, manifest, acked>>

\* Mutant: the recovered session keeps its old chain head.
CommitSessionOldHead ==
  /\ pc = "commit.session"
  /\ session' = [session EXCEPT
       !.segmentCount = Cardinality(Stored),
       !.nextSegmentSequence = record[Last].sequence + 1]
  /\ Goto("commit.event")
  /\ UNCHANGED <<record, media, temporary, journal, eventsOk, manifest, acked>>

\* ... and then the session is recomputed from every record.
CommitSession ==
  /\ pc = "commit.session"
  /\ session' = [session EXCEPT
       !.segmentCount = Cardinality(Stored),
       !.nextSegmentSequence = record[Last].sequence + 1,
       !.chainHead = record[Last].chain]
  /\ Goto("commit.event")
  /\ UNCHANGED <<record, media, temporary, journal, eventsOk, manifest, acked>>

CommitEvent ==
  /\ pc = "commit.event"
  /\ IF eventsOk THEN Resume ELSE Leave
  /\ UNCHANGED <<disk, acked>>

(***************************************************************************)
(* appendSegmentInternal                                                   *)
(***************************************************************************)

\* Byte and duration quotas and the free-space reserve may also refuse a
\* segment that is otherwise acceptable.
AppendRefused ==
  /\ pc = "check" /\ ~ Duplicate(request)
  /\ Leave
  /\ UNCHANGED <<disk, acked>>

AppendDuplicate ==
  /\ pc = "check" /\ Duplicate(request)
  /\ acked' = acked \cup {request}
  /\ Leave
  /\ UNCHANGED disk

AppendAccepted ==
  /\ pc = "check" /\ Acceptable(request)
  /\ Goto("journal")
  /\ UNCHANGED <<disk, acked>>

WriteJournal(f) ==
  /\ pc = "journal" /\ Fresh(f)
  /\ journal' = [sequence |-> request.sequence, file |-> f,
                 fragment |-> request.fragment]
  /\ Goto("temporary")
  /\ UNCHANGED <<session, record, media, temporary, eventsOk, manifest, acked>>

WriteTemporary ==
  /\ pc = "temporary"
  /\ temporary' = [temporary EXCEPT ![journal.file] = request.fragment]
  /\ Goto("rename")
  /\ UNCHANGED <<session, record, media, journal, eventsOk, manifest, acked>>

RenameMedia ==
  /\ pc = "rename"
  /\ media' = [media EXCEPT ![journal.file] = request.fragment]
  /\ temporary' = [temporary EXCEPT ![journal.file] = Absent]
  /\ Goto("record")
  /\ UNCHANGED <<session, record, journal, eventsOk, manifest, acked>>

NextChain == Append(session.chainHead, [sequence |-> request.sequence,
                                        fragment |-> request.fragment])

WriteRecord ==
  /\ pc = "record"
  /\ record' = [record EXCEPT ![request.sequence] =
       [sequence |-> request.sequence, fragment |-> request.fragment,
        key |-> request.key, file |-> journal.file,
        previous |-> session.chainHead, chain |-> NextChain]]
  /\ Goto("session")
  /\ UNCHANGED <<session, media, temporary, journal, eventsOk, manifest, acked>>

WriteSession ==
  /\ pc = "session"
  /\ session' = [session EXCEPT
       !.segmentCount = @ + 1,
       !.nextSegmentSequence = @ + 1,
       !.chainHead = NextChain]
  /\ Goto("event")
  /\ UNCHANGED <<record, media, temporary, journal, eventsOk, manifest, acked>>

\* A broken event log makes the commit throw and be undone.
WriteEvent ==
  /\ pc = "event"
  /\ Goto(IF eventsOk THEN "unjournal" ELSE "undo.media")
  /\ UNCHANGED <<disk, acked>>

RemoveJournal ==
  /\ pc = "unjournal"
  /\ journal' = Absent
  /\ Goto("manifest")
  /\ UNCHANGED <<session, record, media, temporary, eventsOk, manifest, acked>>

\* Mutant: the playlist announces the segment after the last one.
WriteManifestAhead ==
  /\ pc = "manifest"
  /\ manifest' = {s \in SeqNos : s <= session.nextSegmentSequence}
  /\ acked' = acked \cup {request}
  /\ Leave
  /\ UNCHANGED <<session, record, media, temporary, journal, eventsOk>>

\* refreshRunningManifest; the append then answers its caller.
WriteManifest ==
  /\ pc = "manifest"
  /\ manifest' = Stored
  /\ acked' = acked \cup {request}
  /\ Leave
  /\ UNCHANGED <<session, record, media, temporary, journal, eventsOk>>

\* The catch of an append that failed before it committed.
UndoMedia ==
  /\ pc = "undo.media"
  /\ media' = [media EXCEPT ![journal.file] = Absent]
  /\ Goto("undo.record")
  /\ UNCHANGED <<session, record, temporary, journal, eventsOk, manifest, acked>>

UndoRecord ==
  /\ pc = "undo.record"
  /\ record' = [record EXCEPT ![request.sequence] = Absent]
  /\ Goto("undo.journal")
  /\ UNCHANGED <<session, media, temporary, journal, eventsOk, manifest, acked>>

UndoJournal ==
  /\ pc = "undo.journal"
  /\ journal' = Absent
  /\ Leave
  /\ UNCHANGED <<session, record, media, temporary, eventsOk, manifest, acked>>

\* stopSession, once reconciled: a running session stops taking segments.
Stop ==
  /\ pc = "stop"
  /\ session' = IF session.status = "RUNNING"
                THEN [session EXCEPT !.status = "STOPPING"] ELSE session
  /\ Leave
  /\ UNCHANGED <<record, media, temporary, journal, eventsOk, manifest, acked>>

-----------------------------------------------------------------------------
(***************************************************************************)
(* The process dies: what is on disk stays, what ran is forgotten.  A      *)
(* media or playlist write that was under way may be left half done.       *)
(***************************************************************************)
Crash ==
  /\ pc # "idle"
  /\ Leave
  /\ \/ UNCHANGED <<temporary, manifest>>
     \/ /\ pc = "temporary"
        /\ temporary' = [temporary EXCEPT ![journal.file] = Partial]
        /\ UNCHANGED manifest
     \/ /\ pc = "manifest"
        /\ manifest' = {}
        /\ UNCHANGED temporary
  /\ UNCHANGED <<session, record, media, journal, eventsOk, acked>>

-----------------------------------------------------------------------------
(***************************************************************************)
(* The disk is full: a write throws.                                       *)
(***************************************************************************)

\* The write never happened and the operation throws.  A journal written
\* earlier stays for the next reconcile.
FullBeforeCommit ==
  /\ pc \in {"journal", "commit.session", "failed"}
  /\ Leave
  /\ UNCHANGED <<disk, acked>>

\* An event line may be cut short, which breaks the log for good.
FullReconcileEvent ==
  /\ pc \in {"rollback.event", "commit.event"}
  /\ eventsOk' \in {eventsOk, FALSE}
  /\ Leave
  /\ UNCHANGED <<session, record, media, temporary, journal, manifest, acked>>

FullTemporary ==
  /\ pc = "temporary"
  /\ temporary' = [temporary EXCEPT ![journal.file] = Partial]
  /\ Leave
  /\ UNCHANGED <<session, record, media, journal, eventsOk, manifest, acked>>

\* Inside the try of the append: the catch undoes the files.
FullCommit ==
  /\ pc \in {"record", "session"}
  /\ Goto("undo.media")
  /\ UNCHANGED <<disk, acked>>

FullEvent ==
  /\ pc = "event"
  /\ eventsOk' \in {eventsOk, FALSE}
  /\ Goto("undo.media")
  /\ UNCHANGED <<session, record, media, temporary, journal, manifest, acked>>

\* The playlist was truncated before it was written; the session fails.
FullManifest ==
  /\ pc = "manifest"
  /\ manifest' = {}
  /\ Goto("failed")
  /\ UNCHANGED <<session, record, media, temporary, journal, eventsOk, acked>>

WriteFailed ==
  /\ pc = "failed"
  /\ session' = [session EXCEPT !.status = "FAILED"]
  /\ Leave
  /\ UNCHANGED <<record, media, temporary, journal, eventsOk, manifest, acked>>

-----------------------------------------------------------------------------
Call      == (\E r \in Request : AppendCall(r)) \/ StopCall \/ HealthCall

Reconcile == \/ ReconcileNone \/ ReconcileRefused
             \/ RollBackMedia \/ RollBackJournal \/ RollBackEvent
             \/ CommitJournal \/ CommitSession \/ CommitEvent

AppendSegment == \/ AppendRefused \/ AppendDuplicate \/ AppendAccepted
                 \/ \E f \in Files : WriteJournal(f)
                 \/ WriteTemporary \/ RenameMedia \/ WriteRecord
                 \/ WriteSession \/ WriteEvent \/ RemoveJournal
                 \/ WriteManifest
                 \/ UndoMedia \/ UndoRecord \/ UndoJournal

Next      == Call \/ Reconcile \/ AppendSegment \/ Stop \/ Crash

DiskFull  == \/ FullBeforeCommit \/ FullReconcileEvent \/ FullTemporary
             \/ FullCommit \/ FullEvent \/ FullManifest \/ WriteFailed

Spec      == Init /\ [][Next]_vars
FaultSpec == Init /\ [][Next \/ DiskFull]_vars

-----------------------------------------------------------------------------
(***************************************************************************)
(* Safety                                                                  *)
(***************************************************************************)

(* A segment whose append was answered with success is never lost: its     *)
(* record and its readable media file stay, whatever crashes, retries and  *)
(* reconciliations follow (liveProductStore.ts, appendSegmentInternal and  *)
(* reconcileSegmentJournal).                                               *)
AckedDurable ==
  \A r \in acked : /\ record[r.sequence] # Absent
                   /\ SameAsStored(r)
                   /\ Readable(r.sequence)

(* The session never counts a segment that has no record: the counters of  *)
(* session.json move only after the record file is on disk.                *)
CountedAreStored ==
  \A s \in SeqNos : s < session.nextSegmentSequence => s \in Stored

(* The records form one hash chain without gaps, in the order of their     *)
(* sequence numbers, and the session's head is the chain of the last       *)
(* segment it counts: what validateSessionHealth recomputes.               *)
ChainOf(n) == IF n = 0 THEN <<>> ELSE record[n - 1].chain
ChainUnbroken ==
  /\ \A s \in Stored :
       /\ \A t \in SeqNos : t < s => t \in Stored
       /\ record[s].previous = ChainOf(s)
       /\ record[s].chain = Append(ChainOf(s),
            [sequence |-> s, fragment |-> record[s].fragment])
  /\ session.chainHead = ChainOf(session.nextSegmentSequence)
  /\ session.segmentCount = session.nextSegmentSequence

(* Outside a running operation every media byte belongs to a record or to  *)
(* the attempt the journal names: a crash leaves no orphan that no         *)
(* reconcile will find.                                                    *)
NoUntrackedMedia ==
  pc = "idle" =>
    \A f \in Files :
      media[f] # Absent \/ temporary[f] # Absent =>
        \/ journal # Absent /\ journal.file = f
        \/ temporary[f] = Absent /\ \E s \in Stored : record[s].file = f

(* A playlist never lists a segment that cannot be fetched.                *)
ListedAreFetchable == \A s \in manifest : s \in Stored /\ Readable(s)

(* Once a stop has been accepted nothing is left for a later reconcile, so *)
(* the recording that is assembled next sees every segment there will be.  *)
StoppedIsSettled == session.status = "STOPPING" => journal = Absent

(* A record, once written, is never changed or removed, and never appears  *)
(* in a session that stopped taking segments.                              *)
RecordsOnlyGrow ==
  [][\A s \in SeqNos : record'[s] # record[s] =>
       record[s] = Absent /\ session.status = "RUNNING"]_record

(***************************************************************************)
(* The inductive invariant of Spec: what is on disk at each step           *)
(***************************************************************************)

Writing == {"journal", "temporary", "rename", "record",
            "session", "event", "unjournal", "manifest"}

\* The stored record of a request.
Committed(r) == record[r.sequence] # Absent /\ SameAsStored(r)

\* Without a full disk nothing throws half way, so no append is undone.
NothingFailed ==
  /\ eventsOk
  /\ session.status # "FAILED"
  /\ pc \notin {"failed", "undo.media", "undo.record", "undo.journal"}

CallerKnown ==
  /\ pc \in {"check"} \cup Writing => caller = "append"
  /\ caller = "append" => request \in Request
  /\ pc # "idle" => caller # "none"

\* At most one record is stored and not counted: the next one.
StoredUpToNext ==
  /\ session.nextSegmentSequence <= MaxSegments
  /\ \A s \in Stored : /\ s < MaxSegments
                        /\ s <= session.nextSegmentSequence
                        /\ record[s].sequence = s

AllReadable == \A s \in Stored : Readable(s)

\* A journal names the file of the last counted or the next segment, and no
\* other record's.
JournalKnown ==
  journal # Absent =>
    /\ session.status = "RUNNING"
    /\ journal.sequence < MaxSegments
    /\ journal.sequence <= session.nextSegmentSequence
    /\ session.nextSegmentSequence <= journal.sequence + 1
    /\ \A s \in Stored : record[s].file = journal.file <=> s = journal.sequence
    /\ record[journal.sequence] # Absent =>
         record[journal.sequence].fragment = journal.fragment

\* Every media byte belongs to a record or to the attempt of the journal.
MediaTracked ==
  \A f \in Files :
    media[f] # Absent \/ temporary[f] # Absent =>
      \/ journal # Absent /\ journal.file = f
      \/ temporary[f] = Absent /\ \E s \in Stored : record[s].file = f

\* How far the running operation has come.
BeforeCommit ==
  pc \in {"temporary", "rename", "record"} =>
    /\ journal # Absent
    /\ journal.sequence = request.sequence
    /\ journal.fragment = request.fragment
    /\ Acceptable(request)
    /\ pc = "record" => /\ media[journal.file] = request.fragment
                        /\ temporary[journal.file] = Absent

AfterCommit ==
  /\ pc \in {"session", "event", "unjournal"} =>
       /\ journal # Absent
       /\ journal.sequence = request.sequence
       /\ temporary[journal.file] = Absent
  /\ pc \in {"session", "event", "unjournal", "manifest"} => Committed(request)
  /\ pc = "session" =>
       session.nextSegmentSequence = request.sequence

Settled ==
  /\ pc = "journal" => Acceptable(request)
  /\ pc = "rollback.journal" =>
       /\ journal # Absent
       /\ record[journal.sequence] = Absent
       /\ media[journal.file] = Absent
       /\ temporary[journal.file] = Absent
  /\ pc = "commit.session" => session.nextSegmentSequence \in Stored
  /\ pc \in {"check", "stop", "journal", "rollback.event", "commit.session",
             "commit.event", "manifest"} => journal = Absent

(* What Spec maintains at every write: the journal, the records, the media *)
(* files and the session agree up to the write that is still to come (all  *)
(* of appendSegmentInternal and reconcileSegmentJournal).                  *)
IInv ==
  /\ TypeOK /\ NothingFailed /\ CallerKnown
  /\ CountedAreStored /\ StoredUpToNext /\ ChainUnbroken
  /\ AllReadable /\ JournalKnown /\ MediaTracked
  /\ BeforeCommit /\ AfterCommit /\ Settled
  /\ AckedDurable /\ ListedAreFetchable

(***************************************************************************)
(* What the documents promise and the code does not keep                   *)
(***************************************************************************)

(* docs/TANCMARK_LIVE_LOCAL_PRODUCT_GUIDE_20260827.md: the journal "either *)
(* completes a committed record or safely rolls back managed orphan        *)
(* bytes".  So with no operation running and no journal left, every record *)
(* is one the session counts.                                              *)
SettledIsCounted ==
  pc = "idle" /\ journal = Absent =>
    \A s \in Stored : s < session.nextSegmentSequence

(***************************************************************************)
(* What the append promises, as a log                                      *)
(***************************************************************************)

Log == INSTANCE SegmentLog WITH
  log      <- [s \in SeqNos |->
                 IF record[s] = Absent THEN Absent
                 ELSE [sequence |-> s, fragment |-> record[s].fragment,
                       key |-> record[s].key]],
  answered <- acked,
  open     <- session.status = "RUNNING"

ImplementsLog == Log!Spec
=============================================================================
