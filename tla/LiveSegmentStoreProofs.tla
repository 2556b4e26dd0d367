----------------------- MODULE LiveSegmentStoreProofs -----------------------
(***************************************************************************)
(* What holds of LiveSegmentStore for every set of fragments, keys and     *)
(* files and every segment limit.                                          *)
(*                                                                         *)
(* Part 1 shows that IInv is inductive for Spec: one lemma per action that *)
(* writes something, one for those that only move pc.  Part 2 reads the    *)
(* safety properties off it.  Part 3 shows that the store implements the   *)
(* abstract log.  Parts 4 and 5 are about FaultSpec, where IInv does not   *)
(* hold: FaultInv, about the process alone, carries StoppedIsSettled;      *)
(* DiskInv adds the files and carries what survives a full disk.           *)
(* Part 6 is what the store inherits from the log it implements.           *)
(***************************************************************************)
EXTENDS LiveSegmentStore, FiniteSetTheorems, TLAPS

-----------------------------------------------------------------------------
(***************************************************************************)
(* Part 1: IInv is inductive                                               *)
(***************************************************************************)

(* A session that was just created is consistent. *)
LEMMA InitIInv == Init => IInv
<1> SUFFICES ASSUME Init PROVE IInv
  OBVIOUS
<1> USE LimitAssumption, SentinelAssumption DEF Init
<1>1. TypeOK
  <2>1. session \in Session
    BY DEF Session, Status, Chain
  <2> QED
    BY <2>1 DEF TypeOK, Steps
<1>2. Stored = {}
  BY DEF Stored
<1>3. NothingFailed /\ CallerKnown /\ StoredUpToNext /\ AllReadable /\ JournalKnown
  BY <1>2 DEF NothingFailed, CallerKnown, Writing, StoredUpToNext, AllReadable, JournalKnown
<1>4. CountedAreStored /\ ChainUnbroken
  BY <1>2 DEF CountedAreStored, ChainUnbroken, ChainOf, SeqNos
<1>5. MediaTracked /\ BeforeCommit /\ AfterCommit /\ Settled
  BY DEF MediaTracked, BeforeCommit, AfterCommit, Settled
<1>6. AckedDurable /\ ListedAreFetchable
  BY DEF AckedDurable, ListedAreFetchable
<1> QED
  BY <1>1, <1>3, <1>4, <1>5, <1>6 DEF IInv

(* A step that writes no file keeps what IInv says of the files alone. *)
LEMMA DiskUnchanged ==
  ASSUME IInv, UNCHANGED disk
  PROVE  /\ CountedAreStored' /\ StoredUpToNext' /\ ChainUnbroken'
         /\ AllReadable' /\ JournalKnown' /\ MediaTracked' /\ ListedAreFetchable'
<1>1. Stored' = Stored
  BY DEF Stored, disk
<1>2. \A s \in SeqNos : Readable(s) <=> Readable(s)'
  BY DEF Readable, disk
<1> USE <1>1, <1>2 DEF IInv, disk
<1>3. CountedAreStored' /\ StoredUpToNext' 
  BY DEF CountedAreStored, StoredUpToNext
<1>4. ChainUnbroken'
  BY DEF ChainUnbroken, ChainOf
<1>5. JournalKnown'
  BY DEF JournalKnown
<1>6. MediaTracked'
  BY DEF MediaTracked
<1>7. AllReadable' /\ ListedAreFetchable'
  BY DEF AllReadable, ListedAreFetchable, Stored
<1> QED
  BY <1>3, <1>4, <1>5, <1>6, <1>7

(* An operation that begins writes nothing. *)
LEMMA CallStep == IInv /\ Call => IInv'
<1> SUFFICES ASSUME IInv, Call PROVE IInv'
  OBVIOUS
<1> USE DEF Call, AppendCall, StopCall, HealthCall, IInv
<1>1. UNCHANGED <<disk, acked>>
  OBVIOUS
<1>2. TypeOK'
  BY <1>1 DEF TypeOK, Steps, disk
<1>3. NothingFailed' /\ CallerKnown'
  BY <1>1 DEF NothingFailed, CallerKnown, Writing, disk
<1>4. BeforeCommit' /\ AfterCommit' /\ Settled'
  BY DEF BeforeCommit, AfterCommit, Settled
<1>5. AckedDurable'
  BY <1>1 DEF AckedDurable, Readable, SameAsStored, disk
<1> QED
  BY <1>1, <1>2, <1>3, <1>4, <1>5, DiskUnchanged

(* Answered requests stay durable while records and media stay. *)
LEMMA PromisesKept ==
  ASSUME IInv, UNCHANGED <<record, media, acked>>
  PROVE  AckedDurable'
BY DEF IInv, AckedDurable, Readable, SameAsStored

(* The steps of a reconcile that write nothing the model keeps. *)
LEMMA ReconcileQuietStep ==
  IInv /\ (ReconcileNone \/ ReconcileRefused \/ RollBackEvent \/ CommitEvent) => IInv'
<1> SUFFICES ASSUME IInv, ReconcileNone \/ ReconcileRefused \/ RollBackEvent \/ CommitEvent
             PROVE  IInv'
  OBVIOUS
<1> USE DEF ReconcileNone, ReconcileRefused, RollBackEvent, CommitEvent, Resume, Goto, Leave, IInv
<1>1. UNCHANGED <<disk, acked>>
  OBVIOUS
<1>2. TypeOK'
  BY <1>1 DEF TypeOK, Steps, disk
<1>3. NothingFailed' /\ CallerKnown'
  BY <1>1 DEF NothingFailed, CallerKnown, Writing, disk, TypeOK
<1>4. BeforeCommit' /\ AfterCommit'
  BY DEF BeforeCommit, AfterCommit
<1>5. Settled'
  BY DEF Settled, disk
<1>6. AckedDurable'
  BY <1>1, PromisesKept DEF disk
<1> QED
  BY <1>1, <1>2, <1>3, <1>4, <1>5, <1>6, DiskUnchanged

(* A rollback removes no file of a stored record: the journal names the
   file of a record that is not there. *)
LEMMA RollBackMediaStep == IInv /\ RollBackMedia => IInv'
<1> SUFFICES ASSUME IInv, RollBackMedia PROVE IInv'
  OBVIOUS
<1> USE DEF RollBackMedia, Goto, IInv
<1>1. TypeOK'
  BY DEF TypeOK, Steps
<1>2. \A s \in Stored : Readable(s)'
  BY DEF AllReadable, JournalKnown, Readable, Stored, TypeOK, Record, Journal
<1>3. Stored' = Stored
  BY DEF Stored
<1>4. NothingFailed' /\ CallerKnown'
  BY DEF NothingFailed, CallerKnown, Writing
<1>5. CountedAreStored' /\ StoredUpToNext' /\ ChainUnbroken' /\ JournalKnown'
  BY <1>3 DEF CountedAreStored, StoredUpToNext, ChainUnbroken, ChainOf, JournalKnown
<1>6. AllReadable' /\ ListedAreFetchable'
  BY <1>2, <1>3 DEF AllReadable, ListedAreFetchable
<1>7. MediaTracked'
  BY <1>3 DEF MediaTracked, TypeOK
<1>8. BeforeCommit' /\ AfterCommit' /\ Settled'
  BY SentinelAssumption DEF BeforeCommit, AfterCommit, Settled, TypeOK, Journal
<1>9. AckedDurable'
  BY <1>2 DEF AckedDurable, SameAsStored, Stored, TypeOK, Request
<1> QED
  BY <1>1, <1>4, <1>5, <1>6, <1>7, <1>8, <1>9

(* The journal goes after the bytes it names, so none is left untracked. *)
LEMMA RollBackJournalStep == IInv /\ RollBackJournal => IInv'
<1> SUFFICES ASSUME IInv, RollBackJournal PROVE IInv'
  OBVIOUS
<1> USE DEF RollBackJournal, Goto, IInv
<1>1. TypeOK'
  BY DEF TypeOK, Steps
<1>2. Stored' = Stored
  BY DEF Stored
<1>3. \A s \in SeqNos : Readable(s) <=> Readable(s)'
  BY DEF Readable
<1>4. NothingFailed' /\ CallerKnown'
  BY DEF NothingFailed, CallerKnown, Writing
<1>5. CountedAreStored' /\ StoredUpToNext' /\ ChainUnbroken' /\ JournalKnown'
  BY <1>2 DEF CountedAreStored, StoredUpToNext, ChainUnbroken, ChainOf, JournalKnown
<1>6. AllReadable' /\ ListedAreFetchable'
  BY <1>2, <1>3 DEF AllReadable, ListedAreFetchable, Stored
<1>7. MediaTracked'
  BY <1>2 DEF MediaTracked, Settled
<1>8. BeforeCommit' /\ AfterCommit' /\ Settled'
  BY DEF BeforeCommit, AfterCommit, Settled
<1>9. AckedDurable'
  BY PromisesKept
<1> QED
  BY <1>1, <1>4, <1>5, <1>6, <1>7, <1>8, <1>9

(* A recovered commit may drop its journal: its file belongs to a record. *)
LEMMA CommitJournalStep == IInv /\ CommitJournal => IInv'
<1> SUFFICES ASSUME IInv, CommitJournal PROVE IInv'
  OBVIOUS
<1> USE DEF CommitJournal, Goto, IInv
<1>1. TypeOK'
  BY DEF TypeOK, Steps
<1>2. Stored' = Stored
  BY DEF Stored
<1>3. \A s \in SeqNos : Readable(s) <=> Readable(s)'
  BY DEF Readable
<1>4. NothingFailed' /\ CallerKnown'
  BY DEF NothingFailed, CallerKnown, Writing
<1>5. CountedAreStored' /\ StoredUpToNext' /\ ChainUnbroken' /\ JournalKnown'
  BY <1>2 DEF CountedAreStored, StoredUpToNext, ChainUnbroken, ChainOf, JournalKnown
<1>6. AllReadable' /\ ListedAreFetchable'
  BY <1>2, <1>3 DEF AllReadable, ListedAreFetchable, Stored
<1>7. MediaTracked'
  <2>1. journal.sequence \in Stored /\ record[journal.sequence].file = journal.file
    BY SentinelAssumption DEF JournalKnown, Stored, TypeOK, Journal
  <2> QED
    BY <1>2, <2>1 DEF MediaTracked, TypeOK
<1>8. BeforeCommit' /\ AfterCommit' /\ Settled'
  <2>1. session.nextSegmentSequence <= journal.sequence
          => session.nextSegmentSequence = journal.sequence
    BY DEF JournalKnown, TypeOK, Session, Journal, SeqNos
  <2> QED
    BY <1>2, <2>1 DEF BeforeCommit, AfterCommit, Settled, Stored, TypeOK, Journal
<1>9. AckedDurable'
  BY PromisesKept
<1> QED
  BY <1>1, <1>4, <1>5, <1>6, <1>7, <1>8, <1>9

(* How many records 0 .. k are. *)
LEMMA IntervalCardinality ==
  ASSUME NEW k \in Nat
  PROVE  Cardinality(0 .. k) = k + 1
<1>1. k \in Int /\ 0 \in Int /\ ~ (0 > k) /\ k - 0 + 1 = k + 1
  OBVIOUS
<1> QED
  BY <1>1, FS_Interval

(* The recomputed session is what the interrupted append would have written:
   the stored records are 0 .. n, the last one is n, and there are n + 1. *)
LEMMA CommitSessionStep == IInv /\ CommitSession => IInv'
<1> SUFFICES ASSUME IInv, CommitSession PROVE IInv'
  OBVIOUS
<1> USE DEF CommitSession, Goto, IInv
<1> DEFINE n == session.nextSegmentSequence
<1>1. n \in Nat /\ n < MaxSegments /\ n \in Stored /\ journal = Absent
  BY DEF Settled, StoredUpToNext, TypeOK, Session, Stored, SeqNos
<1>2. Stored = 0 .. n
  BY <1>1, LimitAssumption DEF StoredUpToNext, CountedAreStored, Stored, SeqNos
<1>3. Last = n
  BY <1>1, <1>2 DEF Last
<1>4. Cardinality(Stored) = n + 1
  BY <1>1, <1>2, IntervalCardinality
<1>5. session' = [session EXCEPT !.segmentCount = n + 1,
                                 !.nextSegmentSequence = n + 1,
                                 !.chainHead = record[n].chain]
  BY <1>1, <1>3, <1>4 DEF StoredUpToNext
<1> HIDE DEF n
<1>6. record[n] \in Record
  BY <1>1 DEF TypeOK, Stored
<1>7. session' \in Session /\ session'.status = session.status
        /\ session'.nextSegmentSequence = n + 1 /\ session'.segmentCount = n + 1
        /\ session'.chainHead = record[n].chain
  <2>1. n + 1 \in 0 .. MaxSegments /\ n + 1 \in 0 .. MaxSegments + 1
    BY <1>1, LimitAssumption
  <2>2. record[n].chain \in Chain
    BY <1>6 DEF Record
  <2> QED
    BY <1>5, <2>1, <2>2 DEF TypeOK, Session
<1>8. Stored' = Stored
  BY DEF Stored
<1>9. TypeOK'
  BY <1>7 DEF TypeOK, Steps
<1>10. NothingFailed' /\ CallerKnown'
  BY <1>7 DEF NothingFailed, CallerKnown, Writing
<1>11. CountedAreStored' /\ StoredUpToNext'
  BY <1>1, <1>2, <1>7, <1>8, LimitAssumption DEF CountedAreStored, StoredUpToNext, SeqNos
<1>12. ChainUnbroken'
  BY <1>1, <1>2, <1>7, <1>8 DEF ChainUnbroken, ChainOf
<1>13. AllReadable' /\ ListedAreFetchable' /\ JournalKnown' /\ MediaTracked'
  BY <1>1, <1>8 DEF AllReadable, ListedAreFetchable, Readable, JournalKnown, MediaTracked
<1>14. BeforeCommit' /\ AfterCommit' /\ Settled'
  BY <1>1 DEF BeforeCommit, AfterCommit, Settled
<1>15. AckedDurable'
  BY PromisesKept
<1> QED
  BY <1>9, <1>10, <1>11, <1>12, <1>13, <1>14, <1>15

(* The steps of an append that write nothing the model keeps. *)
LEMMA AppendQuietStep ==
  IInv /\ (AppendRefused \/ AppendAccepted \/ WriteEvent) => IInv'
<1> SUFFICES ASSUME IInv, AppendRefused \/ AppendAccepted \/ WriteEvent PROVE IInv'
  OBVIOUS
<1> USE DEF AppendRefused, AppendAccepted, WriteEvent, Goto, Leave, IInv
<1>1. UNCHANGED <<disk, acked>>
  OBVIOUS
<1>2. TypeOK'
  BY <1>1 DEF TypeOK, Steps, disk
<1>3. NothingFailed' /\ CallerKnown'
  BY <1>1 DEF NothingFailed, CallerKnown, Writing, disk
<1>4. BeforeCommit'
  BY DEF BeforeCommit
<1>5. AfterCommit'
  BY <1>1 DEF AfterCommit, NothingFailed, Committed, SameAsStored, disk
<1>6. Settled'
  <2>1. Acceptable(request) /\ UNCHANGED request => Acceptable(request)'
    BY <1>1 DEF Acceptable, ContinuesTimeline, Stored, Last, disk
  <2> QED
    BY <1>1, <2>1 DEF Settled, NothingFailed, disk
<1>7. AckedDurable'
  BY <1>1, PromisesKept DEF disk
<1> QED
  BY <1>1, <1>2, <1>3, <1>4, <1>5, <1>6, <1>7, DiskUnchanged

(* A retry is answered from a record that is there and readable. *)
LEMMA AppendDuplicateStep == IInv /\ AppendDuplicate => IInv'
<1> SUFFICES ASSUME IInv, AppendDuplicate PROVE IInv'
  OBVIOUS
<1> USE DEF AppendDuplicate, Leave, IInv
<1>1. request \in Request
  BY DEF CallerKnown
<1>2. TypeOK'
  BY <1>1 DEF TypeOK, Steps, disk
<1>3. NothingFailed' /\ CallerKnown' /\ BeforeCommit' /\ AfterCommit' /\ Settled'
  BY DEF NothingFailed, CallerKnown, Writing, disk, BeforeCommit, AfterCommit, Settled
<1>4. AckedDurable'
  BY <1>1 DEF AckedDurable, Duplicate, SameAsStored, Readable, disk
<1> QED
  BY <1>2, <1>3, <1>4, DiskUnchanged

(* The journal names a fresh file and the next sequence number. *)
LEMMA WriteJournalStep == IInv /\ (\E f \in Files : WriteJournal(f)) => IInv'
<1> SUFFICES ASSUME IInv, NEW f \in Files, WriteJournal(f) PROVE IInv'
  OBVIOUS
<1> USE DEF WriteJournal, Goto, IInv
<1>1. request \in Request /\ journal = Absent /\ Acceptable(request)
  BY DEF CallerKnown, Writing, Settled
<1>2. journal' \in Journal /\ journal' # Absent
  BY <1>1, SentinelAssumption DEF Journal, Request
<1>3. TypeOK'
  BY <1>2 DEF TypeOK, Steps
<1>4. Stored' = Stored
  BY DEF Stored
<1>5. Acceptable(request)' 
  BY <1>1, <1>4 DEF Acceptable, ContinuesTimeline, Last
<1>6. NothingFailed' /\ CallerKnown'
  BY DEF NothingFailed, CallerKnown, Writing
<1>7. CountedAreStored' /\ StoredUpToNext' /\ ChainUnbroken'
  BY <1>4 DEF CountedAreStored, StoredUpToNext, ChainUnbroken, ChainOf
<1>8. AllReadable' /\ ListedAreFetchable'
  BY <1>4 DEF AllReadable, ListedAreFetchable, Readable
<1>9. JournalKnown'
  <2>1. request.sequence < MaxSegments /\ request.sequence \in Nat
    BY <1>1, LimitAssumption DEF Acceptable, ChainUnbroken, TypeOK, Session, Request, SeqNos
  <2> QED
    BY <1>1, <1>4, <2>1 DEF JournalKnown, Acceptable, Fresh, Stored
<1>10. MediaTracked'
  BY <1>1, <1>4 DEF MediaTracked
<1>11. BeforeCommit' /\ AfterCommit' /\ Settled'
  BY <1>2, <1>5 DEF BeforeCommit, AfterCommit, Settled
<1>12. AckedDurable'
  BY PromisesKept
<1> QED
  BY <1>3, <1>6, <1>7, <1>8, <1>9, <1>10, <1>11, <1>12

(* The bytes written first are those the journal names. *)
LEMMA WriteTemporaryStep == IInv /\ WriteTemporary => IInv'
<1> SUFFICES ASSUME IInv, WriteTemporary PROVE IInv'
  OBVIOUS
<1> USE DEF WriteTemporary, Goto, IInv
<1>1. request \in Request /\ journal \in Journal /\ journal # Absent
  BY DEF CallerKnown, Writing, BeforeCommit, TypeOK
<1>2. Stored' = Stored
  BY DEF Stored
<1>3. Acceptable(request)'
  BY <1>2 DEF BeforeCommit, Acceptable, ContinuesTimeline, Last
<1>4. TypeOK'
  BY <1>1 DEF TypeOK, Steps, Request
<1>5. NothingFailed' /\ CallerKnown'
  BY DEF NothingFailed, CallerKnown, Writing
<1>6. CountedAreStored' /\ StoredUpToNext' /\ ChainUnbroken' /\ JournalKnown'
  BY <1>2 DEF CountedAreStored, StoredUpToNext, ChainUnbroken, ChainOf, JournalKnown
<1>7. AllReadable' /\ ListedAreFetchable'
  BY <1>2 DEF AllReadable, ListedAreFetchable, Readable
<1>8. MediaTracked'
  BY <1>1, <1>2 DEF MediaTracked, TypeOK, Journal
<1>9. BeforeCommit' /\ AfterCommit' /\ Settled'
  BY <1>3 DEF BeforeCommit, AfterCommit, Settled
<1>10. AckedDurable'
  BY PromisesKept
<1> QED
  BY <1>4, <1>5, <1>6, <1>7, <1>8, <1>9, <1>10

(* The rename touches no file of a stored record. *)
LEMMA RenameMediaStep == IInv /\ RenameMedia => IInv'
<1> SUFFICES ASSUME IInv, RenameMedia PROVE IInv'
  OBVIOUS
<1> USE DEF RenameMedia, Goto, IInv
<1>1. request \in Request /\ journal \in Journal /\ journal # Absent
        /\ journal.sequence = request.sequence /\ record[request.sequence] = Absent
  BY DEF CallerKnown, Writing, BeforeCommit, Acceptable, TypeOK
<1>2. Stored' = Stored
  BY DEF Stored
<1>3. Acceptable(request)'
  BY <1>2 DEF BeforeCommit, Acceptable, ContinuesTimeline, Last
<1>4. \A s \in Stored : Readable(s)'
  BY <1>1 DEF AllReadable, JournalKnown, Readable, Stored, TypeOK, Record, Journal
<1>5. TypeOK'
  BY <1>1 DEF TypeOK, Steps, Request
<1>6. NothingFailed' /\ CallerKnown'
  BY DEF NothingFailed, CallerKnown, Writing
<1>7. CountedAreStored' /\ StoredUpToNext' /\ ChainUnbroken' /\ JournalKnown'
  BY <1>2 DEF CountedAreStored, StoredUpToNext, ChainUnbroken, ChainOf, JournalKnown
<1>8. AllReadable' /\ ListedAreFetchable'
  BY <1>2, <1>4 DEF AllReadable, ListedAreFetchable
<1>9. MediaTracked'
  BY <1>1, <1>2 DEF MediaTracked, TypeOK, Journal
<1>10. BeforeCommit' /\ AfterCommit' /\ Settled'
  BY <1>1, <1>3 DEF BeforeCommit, AfterCommit, Settled, TypeOK, Journal
<1>11. AckedDurable'
  BY <1>4 DEF AckedDurable, SameAsStored, Stored, TypeOK, Request
<1> QED
  BY <1>5, <1>6, <1>7, <1>8, <1>9, <1>10, <1>11

(* The record is the commit: it extends the chain by one link. *)
LEMMA WriteRecordStep == IInv /\ WriteRecord => IInv'
<1> SUFFICES ASSUME IInv, WriteRecord PROVE IInv'
  OBVIOUS
<1> USE DEF WriteRecord, Goto, IInv
<1> DEFINE n == session.nextSegmentSequence
           new == [sequence |-> request.sequence, fragment |-> request.fragment,
                   key |-> request.key, file |-> journal.file,
                   previous |-> session.chainHead, chain |-> NextChain]
<1>1. request \in Request /\ journal \in Journal /\ journal # Absent
        /\ journal.sequence = request.sequence
        /\ journal.fragment = request.fragment
        /\ media[journal.file] = request.fragment
        /\ temporary[journal.file] = Absent
  BY DEF CallerKnown, Writing, BeforeCommit, TypeOK
<1>2. n \in Nat /\ request.sequence = n /\ n < MaxSegments /\ n \in SeqNos
        /\ record[n] = Absent /\ session.status = "RUNNING"
  BY LimitAssumption
  DEF BeforeCommit, Acceptable, ChainUnbroken, TypeOK, Session, SeqNos
<1>3. new \in Record
  <2>1. session.chainHead \in Seq(Link)
    BY DEF TypeOK, Session, Chain
  <2>2. [sequence |-> request.sequence, fragment |-> request.fragment] \in Link
    BY <1>1 DEF Link, Request
  <2>3. NextChain \in Chain
    BY <2>1, <2>2 DEF NextChain, Chain
  <2> QED
    BY <1>1, <2>1, <2>3 DEF Record, Chain, Journal, Request
<1>4. new # Absent
  BY <1>3, SentinelAssumption
<1>5. record' = [record EXCEPT ![n] = new]
  BY <1>2
<1>6. /\ new.sequence = n /\ new.fragment = request.fragment /\ new.key = request.key
      /\ new.file = journal.file /\ new.previous = session.chainHead
      /\ new.chain = NextChain
  BY <1>2
<1> HIDE DEF new
<1>7. record'[n] = new /\ \A s \in SeqNos : s # n => record'[s] = record[s]
  BY <1>2, <1>5 DEF TypeOK
<1>8. Stored' = Stored \cup {n}
  BY <1>2, <1>4, <1>7 DEF Stored
<1>9. TypeOK'
  BY <1>2, <1>3, <1>5 DEF TypeOK, Steps
<1>10. NothingFailed' /\ CallerKnown'
  BY DEF NothingFailed, CallerKnown, Writing
<1>11. CountedAreStored' /\ StoredUpToNext'
  BY <1>2, <1>6, <1>7, <1>8 DEF CountedAreStored, StoredUpToNext, Stored
<1>12. ChainUnbroken'
  <2>1. \A s \in SeqNos : s <= n => ChainOf(s)' = ChainOf(s)
    BY <1>2, <1>7 DEF ChainOf, SeqNos
  <2>2. ChainOf(n) = session.chainHead
    BY DEF ChainUnbroken
  <2>3. NextChain = Append(ChainOf(n), [sequence |-> n, fragment |-> request.fragment])
    BY <1>2, <2>2 DEF NextChain
  <2>4. \A s \in Stored : s < n
    BY <1>2 DEF StoredUpToNext, Stored, SeqNos
  <2>5. \A s \in Stored : /\ \A t \in SeqNos : t < s => t \in Stored'
                          /\ record'[s].previous = ChainOf(s)'
                          /\ record'[s].chain = Append(ChainOf(s)',
                               [sequence |-> s, fragment |-> record'[s].fragment])
    BY <1>7, <1>8, <2>1, <2>4 DEF ChainUnbroken, Stored, SeqNos
  <2>6. /\ \A t \in SeqNos : t < n => t \in Stored'
        /\ record'[n].previous = ChainOf(n)'
        /\ record'[n].chain = Append(ChainOf(n)',
             [sequence |-> n, fragment |-> record'[n].fragment])
    BY <1>2, <1>6, <1>7, <1>8, <2>1, <2>2, <2>3 DEF CountedAreStored
  <2>7. session'.chainHead = ChainOf(n)'
    BY <1>2, <2>1, <2>2
  <2> QED
    BY <1>8, <2>5, <2>6, <2>7 DEF ChainUnbroken
<1>13. \A s \in Stored' : Readable(s)'
  <2>1. Readable(n)'
    BY <1>1, <1>6, <1>7 DEF Readable
  <2>2. \A s \in Stored : s # n => Readable(s)'
    BY <1>7 DEF AllReadable, Readable, Stored
  <2> QED
    BY <1>8, <2>1, <2>2
<1>14. AllReadable' /\ ListedAreFetchable'
  BY <1>8, <1>13 DEF AllReadable, ListedAreFetchable
<1>15. JournalKnown'
  BY <1>1, <1>2, <1>6, <1>7, <1>8 DEF JournalKnown, Stored
<1>16. MediaTracked'
  BY <1>2, <1>7, <1>8 DEF MediaTracked, Stored
<1>17. BeforeCommit' /\ AfterCommit' /\ Settled'
  BY <1>1, <1>2, <1>4, <1>6, <1>7
  DEF BeforeCommit, AfterCommit, Settled, Committed, SameAsStored
<1>18. AckedDurable'
  BY <1>2, <1>7 DEF AckedDurable, Readable, SameAsStored, TypeOK, Request
<1> QED
  BY <1>9, <1>10, <1>11, <1>12, <1>14, <1>15, <1>16, <1>17, <1>18

(* The session counts the record that was just written. *)
LEMMA WriteSessionStep == IInv /\ WriteSession => IInv'
<1> SUFFICES ASSUME IInv, WriteSession PROVE IInv'
  OBVIOUS
<1> USE DEF WriteSession, Goto, IInv
<1> DEFINE n == session.nextSegmentSequence
<1>1. request \in Request /\ request.sequence = n /\ n \in Nat /\ n < MaxSegments
        /\ n \in Stored /\ record[n].fragment = request.fragment
        /\ journal # Absent /\ journal.sequence = n
  BY DEF CallerKnown, Writing, AfterCommit, Committed, SameAsStored, StoredUpToNext,
         TypeOK, Session, Stored, SeqNos, Request
<1>2. session.segmentCount = n /\ session.status = "RUNNING"
  BY <1>1 DEF ChainUnbroken, JournalKnown
<1>3. record[n] \in Record /\ NextChain = record[n].chain
  BY <1>1 DEF TypeOK, Stored, NextChain, ChainUnbroken
<1>4. session' = [session EXCEPT !.segmentCount = n + 1,
                                 !.nextSegmentSequence = n + 1,
                                 !.chainHead = record[n].chain]
  BY <1>2, <1>3
<1> HIDE DEF n
<1>5. session' \in Session /\ session'.status = "RUNNING"
        /\ session'.nextSegmentSequence = n + 1 /\ session'.segmentCount = n + 1
        /\ session'.chainHead = record[n].chain
  <2>1. n + 1 \in 0 .. MaxSegments /\ n + 1 \in 0 .. MaxSegments + 1
    BY <1>1, LimitAssumption
  <2>2. record[n].chain \in Chain
    BY <1>3 DEF Record
  <2> QED
    BY <1>2, <1>4, <2>1, <2>2 DEF TypeOK, Session
<1>6. Stored' = Stored
  BY DEF Stored
<1>7. TypeOK'
  BY <1>5 DEF TypeOK, Steps
<1>8. NothingFailed' /\ CallerKnown'
  BY <1>5 DEF NothingFailed, CallerKnown, Writing
<1>9. CountedAreStored' /\ StoredUpToNext'
  BY <1>1, <1>5, <1>6, LimitAssumption
  DEF n, CountedAreStored, StoredUpToNext, Stored, SeqNos
<1>10. ChainUnbroken'
  BY <1>1, <1>5, <1>6 DEF ChainUnbroken, ChainOf
<1>11. AllReadable' /\ ListedAreFetchable' /\ MediaTracked'
  BY <1>6 DEF AllReadable, ListedAreFetchable, Readable, MediaTracked
<1>12. JournalKnown'
  BY <1>1, <1>5, <1>6 DEF JournalKnown
<1>13. BeforeCommit' /\ AfterCommit' /\ Settled'
  BY <1>1 DEF BeforeCommit, AfterCommit, Settled, Committed, SameAsStored
<1>14. AckedDurable'
  BY PromisesKept
<1> QED
  BY <1>7, <1>8, <1>9, <1>10, <1>11, <1>12, <1>13, <1>14

(* The journal goes once the session counts the record. *)
LEMMA RemoveJournalStep == IInv /\ RemoveJournal => IInv'
<1> SUFFICES ASSUME IInv, RemoveJournal PROVE IInv'
  OBVIOUS
<1> USE DEF RemoveJournal, Goto, IInv
<1>1. request.sequence \in Stored /\ temporary[journal.file] = Absent
        /\ record[request.sequence].file = journal.file
  BY DEF CallerKnown, Writing, AfterCommit, Committed, JournalKnown, Stored, TypeOK, Request
<1>2. Stored' = Stored
  BY DEF Stored
<1>3. TypeOK'
  BY DEF TypeOK, Steps
<1>4. NothingFailed' /\ CallerKnown'
  BY DEF NothingFailed, CallerKnown, Writing
<1>5. CountedAreStored' /\ StoredUpToNext' /\ ChainUnbroken' /\ JournalKnown'
  BY <1>2 DEF CountedAreStored, StoredUpToNext, ChainUnbroken, ChainOf, JournalKnown
<1>6. AllReadable' /\ ListedAreFetchable'
  BY <1>2 DEF AllReadable, ListedAreFetchable, Readable
<1>7. MediaTracked'
  BY <1>1, <1>2 DEF MediaTracked
<1>8. BeforeCommit' /\ AfterCommit' /\ Settled'
  BY DEF BeforeCommit, AfterCommit, Settled, Committed, SameAsStored
<1>9. AckedDurable'
  BY PromisesKept
<1> QED
  BY <1>3, <1>4, <1>5, <1>6, <1>7, <1>8, <1>9

(* The playlist lists the stored records, and the request is answered. *)
LEMMA WriteManifestStep == IInv /\ WriteManifest => IInv'
<1> SUFFICES ASSUME IInv, WriteManifest PROVE IInv'
  OBVIOUS
<1> USE DEF WriteManifest, Leave, IInv
<1>1. request \in Request /\ Committed(request) /\ Readable(request.sequence)
  BY DEF CallerKnown, Writing, AfterCommit, Committed, AllReadable, Stored, Request
<1>2. Stored' = Stored /\ Stored \subseteq SeqNos
  BY DEF Stored
<1>3. TypeOK'
  BY <1>1, <1>2 DEF TypeOK, Steps
<1>4. NothingFailed' /\ CallerKnown'
  BY DEF NothingFailed, CallerKnown, Writing
<1>5. CountedAreStored' /\ StoredUpToNext' /\ ChainUnbroken' /\ JournalKnown'
  BY <1>2 DEF CountedAreStored, StoredUpToNext, ChainUnbroken, ChainOf, JournalKnown
<1>6. AllReadable' /\ ListedAreFetchable' /\ MediaTracked'
  BY <1>2 DEF AllReadable, ListedAreFetchable, Readable, MediaTracked
<1>7. BeforeCommit' /\ AfterCommit' /\ Settled'
  BY DEF BeforeCommit, AfterCommit, Settled
<1>8. AckedDurable'
  BY <1>1 DEF AckedDurable, Committed, Readable, SameAsStored
<1> QED
  BY <1>3, <1>4, <1>5, <1>6, <1>7, <1>8

(* A stop finds no journal. *)
LEMMA StopStep == IInv /\ Stop => IInv'
<1> SUFFICES ASSUME IInv, Stop PROVE IInv'
  OBVIOUS
<1> USE DEF Stop, Leave, IInv
<1>1. /\ session' \in Session /\ session'.status # "FAILED"
      /\ session'.nextSegmentSequence = session.nextSegmentSequence
      /\ session'.segmentCount = session.segmentCount
      /\ session'.chainHead = session.chainHead
  BY DEF TypeOK, Session, Status, NothingFailed
<1>2. Stored' = Stored
  BY DEF Stored
<1>3. TypeOK'
  BY <1>1 DEF TypeOK, Steps
<1>4. NothingFailed' /\ CallerKnown'
  BY <1>1 DEF NothingFailed, CallerKnown, Writing
<1>5. CountedAreStored' /\ StoredUpToNext' /\ ChainUnbroken'
  BY <1>1, <1>2 DEF CountedAreStored, StoredUpToNext, ChainUnbroken, ChainOf
<1>6. AllReadable' /\ ListedAreFetchable' /\ MediaTracked'
  BY <1>2 DEF AllReadable, ListedAreFetchable, Readable, MediaTracked
<1>7. JournalKnown' /\ BeforeCommit' /\ AfterCommit' /\ Settled'
  BY DEF JournalKnown, BeforeCommit, AfterCommit, Settled
<1>8. AckedDurable'
  BY PromisesKept
<1> QED
  BY <1>3, <1>4, <1>5, <1>6, <1>7, <1>8

(* A crash leaves the files as they are, a media file perhaps half written. *)
LEMMA CrashStep == IInv /\ Crash => IInv'
<1> SUFFICES ASSUME IInv, Crash PROVE IInv'
  OBVIOUS
<1> USE DEF Crash, Leave, IInv
<1>1. Stored' = Stored
  BY DEF Stored
<1>2. pc = "temporary" => journal \in Journal /\ journal # Absent
  BY DEF BeforeCommit, TypeOK
<1>3. TypeOK'
  BY <1>2 DEF TypeOK, Steps
<1>4. NothingFailed' /\ CallerKnown'
  BY DEF NothingFailed, CallerKnown, Writing
<1>5. CountedAreStored' /\ StoredUpToNext' /\ ChainUnbroken' /\ JournalKnown'
  BY <1>1 DEF CountedAreStored, StoredUpToNext, ChainUnbroken, ChainOf, JournalKnown
<1>6. AllReadable' /\ ListedAreFetchable'
  BY <1>1 DEF AllReadable, ListedAreFetchable, Readable
<1>7. MediaTracked'
  BY <1>1, <1>2 DEF MediaTracked, TypeOK, Journal
<1>8. BeforeCommit' /\ AfterCommit' /\ Settled'
  BY DEF BeforeCommit, AfterCommit, Settled
<1>9. AckedDurable'
  BY PromisesKept
<1> QED
  BY <1>3, <1>4, <1>5, <1>6, <1>7, <1>8, <1>9

(* Nothing happens. *)
LEMMA StutterStep == IInv /\ UNCHANGED vars => IInv'
<1> SUFFICES ASSUME IInv, UNCHANGED vars PROVE IInv'
  OBVIOUS
<1> USE DEF vars, IInv
<1>1. TypeOK' /\ NothingFailed' /\ CallerKnown'
  BY DEF TypeOK, NothingFailed, CallerKnown
<1>2. BeforeCommit' /\ AfterCommit' /\ Settled'
  BY DEF BeforeCommit, AfterCommit, Settled, Acceptable, ContinuesTimeline,
         Committed, SameAsStored, Stored, Last
<1>3. AckedDurable'
  BY PromisesKept
<1> QED
  BY <1>1, <1>2, <1>3, DiskUnchanged DEF disk

(* Every step of the store preserves the inductive invariant. *)
LEMMA NextStep == IInv /\ [Next]_vars => IInv'
<1> SUFFICES ASSUME IInv, Next PROVE IInv'
  BY StutterStep
<1>1. CASE Call
  BY <1>1, CallStep
<1>2. CASE Reconcile
  BY <1>2, ReconcileQuietStep, RollBackMediaStep, RollBackJournalStep,
     CommitJournalStep, CommitSessionStep DEF Reconcile
<1>3. CASE AppendSegment
  <2>1. ~ (UndoMedia \/ UndoRecord \/ UndoJournal)
    BY DEF IInv, NothingFailed, UndoMedia, UndoRecord, UndoJournal
  <2> QED
    BY <1>3, <2>1, AppendQuietStep, AppendDuplicateStep, WriteJournalStep,
       WriteTemporaryStep, RenameMediaStep, WriteRecordStep, WriteSessionStep,
       RemoveJournalStep, WriteManifestStep DEF AppendSegment
<1>4. CASE Stop
  BY <1>4, StopStep
<1>5. CASE Crash
  BY <1>5, CrashStep
<1> QED
  BY <1>1, <1>2, <1>3, <1>4, <1>5 DEF Next

(* Every state of the store satisfies the inductive invariant: journal,
   records, media and session agree whatever crashes and retries happened. *)
THEOREM InvariantHolds == Spec => []IInv
BY InitIInv, NextStep, PTL DEF Spec

-----------------------------------------------------------------------------
(***************************************************************************)
(* Part 2: the safety properties                                           *)
(***************************************************************************)

(* Every variable keeps its type; in particular neither the append nor the *)
(* recovery, which does not check the limit, counts past MaxSegments.      *)
THEOREM TypeCorrect == Spec => []TypeOK
<1>1. IInv => TypeOK
  BY DEF IInv
<1> QED
  BY <1>1, InvariantHolds, PTL

(* An answered segment survives every crash, retry and reconcile.          *)
THEOREM AnsweredSegmentsSurvive == Spec => []AckedDurable
<1>1. IInv => AckedDurable
  BY DEF IInv
<1> QED
  BY <1>1, InvariantHolds, PTL

(* The hash chain of the records has no gap and ends at the session's head. *)
THEOREM ChainStaysUnbroken == Spec => []ChainUnbroken
<1>1. IInv => ChainUnbroken
  BY DEF IInv
<1> QED
  BY <1>1, InvariantHolds, PTL

(* Without a full disk the session counts only segments that are stored.   *)
THEOREM CountedSegmentsStored == Spec => []CountedAreStored
<1>1. IInv => CountedAreStored
  BY DEF IInv
<1> QED
  BY <1>1, InvariantHolds, PTL

(* No crash leaves media bytes that neither a record nor the journal names. *)
THEOREM NoOrphanedMedia == Spec => []NoUntrackedMedia
<1>1. IInv => NoUntrackedMedia
  BY DEF IInv, MediaTracked, NoUntrackedMedia
<1> QED
  BY <1>1, InvariantHolds, PTL

(* A playlist lists only segments that can be fetched.                     *)
THEOREM PlaylistFetchable == Spec => []ListedAreFetchable
<1>1. IInv => ListedAreFetchable
  BY DEF IInv
<1> QED
  BY <1>1, InvariantHolds, PTL

(* The only step that changes a record is the one that writes a new one in *)
(* a running session.                                                      *)
LEMMA RecordStep ==
  ASSUME IInv, [Next]_vars, NEW s \in SeqNos, record'[s] # record[s]
  PROVE  record[s] = Absent /\ session.status = "RUNNING"
<1>1. ~ (UndoMedia \/ UndoRecord \/ UndoJournal)
  BY DEF IInv, NothingFailed, UndoMedia, UndoRecord, UndoJournal
<1>2. UNCHANGED record \/ WriteRecord
  BY <1>1 DEF Next, Call, AppendCall, StopCall, HealthCall, Reconcile, ReconcileNone,
     ReconcileRefused, RollBackMedia, RollBackJournal, RollBackEvent, CommitJournal,
     CommitSession, CommitEvent, AppendSegment, AppendRefused, AppendDuplicate,
     AppendAccepted, WriteJournal, WriteTemporary, RenameMedia, WriteSession,
     WriteEvent, RemoveJournal, WriteManifest, Stop, Crash, disk, vars
<1>3. WriteRecord
  BY <1>2
<1>4. Acceptable(request) /\ s = request.sequence
  BY <1>3 DEF WriteRecord, IInv, BeforeCommit, TypeOK
<1> QED
  BY <1>4 DEF Acceptable

(* A record is never changed or removed, and none appears after a stop.    *)
THEOREM RecordsAreFinal == Spec => RecordsOnlyGrow
<1>1. IInv /\ [Next]_vars =>
        [\A s \in SeqNos : record'[s] # record[s] =>
           record[s] = Absent /\ session.status = "RUNNING"]_record
  BY RecordStep
<1> QED
  BY <1>1, InvariantHolds, PTL DEF Spec, RecordsOnlyGrow

-----------------------------------------------------------------------------
(***************************************************************************)
(* Part 3: the store implements the log                                    *)
(***************************************************************************)

logOf == [s \in SeqNos |->
            IF record[s] = Absent THEN Absent
            ELSE [sequence |-> s, fragment |-> record[s].fragment,
                  key |-> record[s].key]]
openOf == session.status = "RUNNING"

(* A new session is an empty open log. *)
LEMMA LogInit == Init => Log!Init
BY DEF Init, Log!Init, Log!Positions, SeqNos

\* A request and the entry the log holds for it.
(* A committed request is the entry of the log at its position. *)
LEMMA EntryOfRequest ==
  ASSUME IInv, request \in Request, Committed(request)
  PROVE  logOf[request.sequence] = request
BY DEF logOf, Committed, SameAsStored, Request

(* Writing the record file is the moment the log grows. *)
LEMMA RecordCommits ==
  ASSUME IInv, WriteRecord
  PROVE  \E e \in Log!Entry : Log!Commit(e)
<1> USE DEF WriteRecord, Goto, IInv
<1> DEFINE n == session.nextSegmentSequence
<1>1. request \in Request /\ request.sequence = n /\ n \in Nat /\ n < MaxSegments
        /\ n \in SeqNos /\ record[n] = Absent /\ session.status = "RUNNING"
        /\ ContinuesTimeline(request)
  BY LimitAssumption
  DEF CallerKnown, Writing, BeforeCommit, Acceptable, ChainUnbroken, TypeOK, Session, SeqNos
<1>2. PICK e \in Log!Entry : e = [sequence |-> n, fragment |-> request.fragment,
                                  key |-> request.key]
  BY <1>1 DEF Log!Entry, Log!Positions, Request, SeqNos
<1>3. \A s \in SeqNos : s < n => s \in Stored
  BY DEF CountedAreStored
<1>4. n > 0 => Mfhd[request.fragment] = Mfhd[record[n - 1].fragment] + 1
  <2> SUFFICES ASSUME n > 0
               PROVE  Mfhd[request.fragment] = Mfhd[record[n - 1].fragment] + 1
    OBVIOUS
  <2>1. n - 1 \in Stored /\ \A t \in Stored : t <= n - 1
    BY <1>1, <1>3, LimitAssumption DEF StoredUpToNext, Stored, SeqNos
  <2>2. Last = n - 1
    BY <2>1 DEF Last, Stored, SeqNos
  <2> QED
    BY <1>1, <2>1, <2>2 DEF ContinuesTimeline
<1>5. [logOf EXCEPT ![n] = e] = logOf'
  <2>1. record'[n] # Absent /\ record'[n].fragment = request.fragment
          /\ record'[n].key = request.key
          /\ \A s \in SeqNos : s # n => record'[s] = record[s]
    <3>1. record' \in [SeqNos -> Record \cup {Absent}]
      BY NextStep DEF Next, AppendSegment, TypeOK
    <3>2. NextChain \in Chain /\ session.chainHead \in Chain
      BY <1>1, <3>1 DEF TypeOK, Session, NextChain, Chain, Link, Request
    <3>3. [sequence |-> request.sequence, fragment |-> request.fragment,
           key |-> request.key, file |-> journal.file,
           previous |-> session.chainHead, chain |-> NextChain] \in Record
      BY <1>1, <3>2 DEF BeforeCommit, TypeOK, Journal, Record, Request
    <3> QED
      BY <1>1, <3>3, SentinelAssumption DEF TypeOK
  <2> QED
    BY <1>1, <1>2, <2>1 DEF logOf
<1>6. /\ openOf /\ e.sequence < MaxSegments /\ logOf[e.sequence] = Absent
      /\ \A s \in SeqNos : s < e.sequence => logOf[s] # Absent
  <2>1. \A s \in Stored : [sequence |-> s, fragment |-> record[s].fragment,
                           key |-> record[s].key] \in Request
    BY DEF Stored, TypeOK, Record, Request
  <2> QED
    BY <1>1, <1>2, <1>3, <2>1, SentinelAssumption DEF logOf, openOf, Stored
<1>7. e.sequence > 0 => Mfhd[e.fragment] = Mfhd[logOf[e.sequence - 1].fragment] + 1
  <2>1. n > 0 => n - 1 \in Stored /\ n - 1 \in SeqNos
    BY <1>1, <1>3, LimitAssumption DEF SeqNos
  <2> QED
    BY <1>1, <1>2, <1>4, <2>1 DEF logOf, Stored
<1>8. UNCHANGED <<acked, openOf>>
  BY DEF openOf
<1>9. Log!Positions = SeqNos
  BY DEF Log!Positions, SeqNos
<1>10. logOf' = [logOf EXCEPT ![e.sequence] = e]
  BY <1>2, <1>5
<1>11. Log!Commit(e)
  <2>1. openOf /\ e.sequence < MaxSegments /\ logOf[e.sequence] = Absent
    BY <1>6
  <2>2. \A s \in Log!Positions : s < e.sequence => logOf[s] # Absent
    BY <1>6, <1>9
  <2> QED
    BY <1>7, <1>8, <1>10, <2>1, <2>2 DEF Log!Commit, logOf, openOf
<1> QED
  BY <1>11

(* A success answer is given only to a request the log holds. *)
LEMMA RequestAnswered ==
  ASSUME IInv, WriteManifest \/ AppendDuplicate
  PROVE  \E e \in Log!Entry : Log!Answer(e)
<1>1. request \in Request /\ Committed(request)
  BY DEF IInv, WriteManifest, AppendDuplicate, CallerKnown, Writing, AfterCommit,
         Duplicate, Committed
<1>2. request \in Log!Entry
  BY <1>1 DEF Request, Log!Entry, SeqNos, Log!Positions
<1>3. logOf[request.sequence] = request
  BY <1>1, EntryOfRequest
<1>4. acked' = acked \cup {request} /\ UNCHANGED <<record, session>>
  BY DEF WriteManifest, AppendDuplicate, disk
<1> QED
  BY <1>2, <1>3, <1>4 DEF Log!Answer, logOf

(* Every step of the store is a step of the log or invisible. *)
LEMMA LogStep ==
  IInv /\ [Next]_vars => [Log!Next]_<<logOf, acked, openOf>>
<1> SUFFICES ASSUME IInv, [Next]_vars
             PROVE  Log!Next \/ UNCHANGED <<logOf, acked, openOf>>
  OBVIOUS
<1>1. UNCHANGED <<record, acked, session>> => UNCHANGED <<logOf, acked, openOf>>
  BY DEF logOf, openOf
<1>2. CASE Call \/ Crash \/ UNCHANGED vars
  BY <1>1, <1>2 DEF Call, AppendCall, StopCall, HealthCall, Crash, disk, vars
<1>3. CASE Reconcile
  <2>1. CASE CommitSession
    <3>1. session'.status = session.status /\ UNCHANGED <<record, acked>>
      BY <2>1 DEF CommitSession, IInv, TypeOK, Session
    <3> QED
      BY <3>1 DEF logOf, openOf
  <2> QED
    BY <1>1, <1>3, <2>1 DEF Reconcile, ReconcileNone, ReconcileRefused, RollBackMedia,
       RollBackJournal, RollBackEvent, CommitJournal, CommitEvent, disk
<1>4. CASE AppendSegment
  <2>1. CASE WriteRecord
    BY <2>1, RecordCommits DEF Log!Next
  <2>2. CASE WriteManifest \/ AppendDuplicate
    BY <2>2, RequestAnswered DEF Log!Next
  <2>3. CASE WriteSession
    <3>1. session'.status = session.status /\ UNCHANGED <<record, acked>>
      BY <2>3 DEF WriteSession, IInv, TypeOK, Session
    <3> QED
      BY <3>1 DEF logOf, openOf
  <2>4. ~ (UndoMedia \/ UndoRecord \/ UndoJournal)
    BY DEF IInv, NothingFailed, UndoMedia, UndoRecord, UndoJournal
  <2> QED
    BY <1>1, <1>4, <2>1, <2>2, <2>3, <2>4 DEF AppendSegment, AppendRefused,
       AppendAccepted, WriteJournal, WriteTemporary, RenameMedia, WriteEvent,
       RemoveJournal, disk
<1>5. CASE Stop
  <2>1. session'.status \in {session.status, "STOPPING"} /\ UNCHANGED <<record, acked>>
          /\ (session'.status # session.status => session.status = "RUNNING")
    BY <1>5 DEF Stop, IInv, TypeOK, Session
  <2> QED
    BY <2>1 DEF Log!Next, Log!Close, logOf, openOf
<1> QED
  BY <1>2, <1>3, <1>4, <1>5 DEF Next

(* The files, the journal and its reconciliation implement an append-only
   log without gaps, whose entries are committed once and in order, and
   where crashes and retries are invisible. *)
THEOREM StoreImplementsLog == Spec => ImplementsLog
BY LogInit, LogStep, InvariantHolds, PTL DEF Spec, ImplementsLog, Log!Spec, logOf, openOf

-----------------------------------------------------------------------------
(***************************************************************************)
(* Part 4: with a full disk                                                *)
(***************************************************************************)

SessionShape ==
  session = [status |-> session.status, segmentCount |-> session.segmentCount,
             nextSegmentSequence |-> session.nextSegmentSequence,
             chainHead |-> session.chainHead]

(* What carries StoppedIsSettled when writes fail: an append at work runs  *)
(* in a running session, and a stop has nothing left to reconcile.         *)
FaultInv ==
  /\ SessionShape
  /\ StoppedIsSettled
  /\ pc \in Writing => session.status = "RUNNING"
  /\ pc \in {"stop", "check", "journal", "rollback.event", "commit.session",
            "commit.event", "manifest", "failed"} => journal = Absent

(* A new session has no journal.                                           *)
LEMMA FaultInit == Init => FaultInv
BY DEF Init, FaultInv, SessionShape, StoppedIsSettled, Writing

(* No step, failed or not, leaves a journal to a stopped session.          *)
LEMMA FaultStep == FaultInv /\ [Next \/ DiskFull]_vars => FaultInv'
<1> SUFFICES ASSUME FaultInv, Next \/ DiskFull \/ UNCHANGED vars PROVE FaultInv'
  OBVIOUS
<1> USE DEF FaultInv, SessionShape, StoppedIsSettled, Writing, Leave, Goto, disk
<1>1. CASE Call
  BY <1>1 DEF Call, AppendCall, StopCall, HealthCall
<1>2. CASE ReconcileNone \/ ReconcileRefused \/ RollBackEvent \/ CommitEvent
  BY <1>2 DEF ReconcileNone, ReconcileRefused, RollBackEvent, CommitEvent, Resume
<1>3. CASE RollBackMedia \/ RollBackJournal \/ CommitJournal
  BY <1>3 DEF RollBackMedia, RollBackJournal, CommitJournal
<1>4. CASE CommitSession
  BY <1>4 DEF CommitSession
<1>5. CASE AppendRefused \/ AppendDuplicate \/ AppendAccepted
  BY <1>5 DEF AppendRefused, AppendDuplicate, AppendAccepted, Acceptable
<1>6. CASE \E f \in Files : WriteJournal(f)
  BY <1>6 DEF WriteJournal
<1>7. CASE WriteTemporary \/ RenameMedia \/ WriteRecord
  BY <1>7 DEF WriteTemporary, RenameMedia, WriteRecord
<1>8. CASE WriteSession
  BY <1>8 DEF WriteSession
<1>9. CASE WriteEvent \/ RemoveJournal \/ WriteManifest
  BY <1>9 DEF WriteEvent, RemoveJournal, WriteManifest
<1>10. CASE UndoMedia \/ UndoRecord \/ UndoJournal
  BY <1>10 DEF UndoMedia, UndoRecord, UndoJournal
<1>11. CASE Stop
  BY <1>11 DEF Stop
<1>12. CASE Crash
  BY <1>12 DEF Crash
<1>13. CASE DiskFull
  BY <1>13 DEF DiskFull, FullBeforeCommit, FullReconcileEvent, FullTemporary,
     FullCommit, FullEvent, FullManifest, WriteFailed
<1>14. CASE UNCHANGED vars
  BY <1>14 DEF vars
<1> QED
  BY <1>1, <1>2, <1>3, <1>4, <1>5, <1>6, <1>7, <1>8, <1>9, <1>10, <1>11, <1>12,
     <1>13, <1>14 DEF Next, Reconcile, AppendSegment

(* Even when any write may fail, an accepted stop leaves no journal behind *)
(* for a later reconcile to commit.                                        *)
THEOREM StopSettles == FaultSpec => []StoppedIsSettled
<1>1. FaultInv => StoppedIsSettled
  BY DEF FaultInv
<1> QED
  BY <1>1, FaultInit, FaultStep, PTL DEF FaultSpec

-----------------------------------------------------------------------------
(***************************************************************************)
(* Part 5: what survives a full disk                                       *)
(*                                                                         *)
(* When any write may fail, an append is undone after its record, or after *)
(* the session has counted it, and a death within the undo leaves a record *)
(* without media.  DiskInv says that only the segment the journal names is *)
(* ever in such a state, and that nobody was told of that one.             *)
(***************************************************************************)

Undoing == {"undo.media", "undo.record", "undo.journal"}

RequestKnown ==
  caller = "append" \/ pc \in {"check"} \cup Writing \cup Undoing => request \in Request

(* The records never outnumber what the session counts by more than the    *)
(* one that it will count next.                                            *)
Uncounted == IF session.nextSegmentSequence \in Stored THEN 1 ELSE 0
StoredCounted ==
  /\ \A s \in Stored : s <= session.nextSegmentSequence /\ record[s].sequence = s
  /\ session.nextSegmentSequence \in Stored => session.segmentCount < MaxSegments
  /\ Cardinality(Stored) <= session.segmentCount + Uncounted

(* The segment a journal names is the last one, has a file of its own, and *)
(* neither a playlist nor an answer speaks of it.                          *)
JournalApart ==
  journal # Absent =>
    /\ journal.sequence <= session.nextSegmentSequence
    /\ session.nextSegmentSequence <= journal.sequence + 1
    /\ \A s \in Stored : /\ s <= journal.sequence
                         /\ record[s].file = journal.file <=> s = journal.sequence
    /\ journal.sequence \notin manifest
    /\ \A r \in acked : r.sequence # journal.sequence

BrokenIsNamed ==
  \A s \in Stored : Readable(s) \/ (journal # Absent /\ journal.sequence = s)

\* What is on disk whatever runs.
FilesSound == /\ StoredCounted /\ JournalApart /\ BrokenIsNamed /\ MediaTracked
              /\ ListedAreFetchable /\ AckedDurable

MediaWritten ==
  pc \in {"session", "event", "unjournal"} => media[journal.file] = request.fragment

(* An undo takes back its own segment, from the media to the journal.      *)
UndoSound ==
  /\ pc \in Undoing => /\ journal # Absent /\ journal.sequence = request.sequence
                       /\ temporary[journal.file] = Absent
  /\ pc \in {"undo.record", "undo.journal"} => media[journal.file] = Absent
  /\ pc = "undo.journal" => record[request.sequence] = Absent

\* How far the running operation has come.
WorkSound == /\ RequestKnown /\ BeforeCommit /\ AfterCommit /\ MediaWritten
             /\ UndoSound /\ Settled

DiskInv == TypeOK /\ FaultInv /\ FilesSound /\ WorkSound

(* A new session is sound.                                                 *)
LEMMA DiskInit == Init => DiskInv
<1> SUFFICES ASSUME Init PROVE DiskInv
  OBVIOUS
<1>1. IInv /\ FaultInv
  BY InitIInv, FaultInit
<1>2. Stored = {} /\ Cardinality(Stored) = 0
  BY FS_EmptySet DEF Init, Stored
<1>3. StoredCounted /\ JournalApart /\ BrokenIsNamed
  BY <1>2 DEF Init, StoredCounted, Uncounted, JournalApart, BrokenIsNamed
<1>4. RequestKnown /\ MediaWritten /\ UndoSound
  BY DEF Init, RequestKnown, Writing, Undoing, MediaWritten, UndoSound
<1> QED
  BY <1>1, <1>3, <1>4 DEF IInv, DiskInv, FilesSound, WorkSound

(* An operation that is over leaves nothing to be said of it.              *)
LEMMA LeavingWork ==
  ASSUME Leave
  PROVE  WorkSound'
BY DEF Leave, WorkSound, RequestKnown, Writing, Undoing, BeforeCommit, AfterCommit,
   MediaWritten, UndoSound, Settled

\* The event log apart, the files stay as they are.
Quiet == UNCHANGED <<session, record, media, temporary, journal, manifest, acked>>

LEMMA QuietFiles ==
  ASSUME FilesSound, Quiet
  PROVE  FilesSound'
<1>1. Stored' = Stored
  BY DEF Stored, Quiet
<1>2. \A s \in Stored : Readable(s) <=> Readable(s)'
  BY DEF Readable, Quiet
<1>3. StoredCounted' /\ JournalApart'
  BY <1>1 DEF FilesSound, Quiet, StoredCounted, Uncounted, JournalApart
<1>4. BrokenIsNamed' /\ MediaTracked'
  BY <1>1, <1>2 DEF FilesSound, Quiet, BrokenIsNamed, MediaTracked
<1>5. ListedAreFetchable'
  BY <1>1, <1>2 DEF FilesSound, Quiet, ListedAreFetchable
<1>6. AckedDurable'
  BY DEF FilesSound, Quiet, AckedDurable, SameAsStored, Readable
<1> QED
  BY <1>3, <1>4, <1>5, <1>6 DEF FilesSound

\* The quiet steps, and those that also end the operation.
QuietStep == \/ Call \/ ReconcileNone \/ ReconcileRefused \/ RollBackEvent \/ CommitEvent
             \/ AppendRefused \/ AppendAccepted \/ WriteEvent
             \/ FullBeforeCommit \/ FullReconcileEvent \/ FullCommit \/ FullEvent
             \/ UNCHANGED vars

(* They lead to a step of the operation that finds the files as it needs   *)
(* them.                                                                   *)
LEMMA QuietKept ==
  ASSUME DiskInv, QuietStep
  PROVE  TypeOK' /\ FilesSound' /\ WorkSound'
<1> USE DEF Goto, Leave, Resume, disk
<1>1. CASE Call
  <2>1. Quiet /\ pc' = "reconcile" /\ eventsOk' = eventsOk
    BY <1>1 DEF Call, AppendCall, StopCall, HealthCall, Quiet
  <2>2. /\ request' \in Request \cup {NoRequest} /\ caller' \in {"append", "stop", "health"}
        /\ caller' = "append" => request' \in Request
    BY <1>1 DEF Call, AppendCall, StopCall, HealthCall
  <2>3. TypeOK'
    BY <2>1, <2>2 DEF DiskInv, TypeOK, Steps, Quiet
  <2>4. WorkSound'
    BY <2>1, <2>2 DEF WorkSound, RequestKnown, Writing, Undoing, BeforeCommit, AfterCommit,
                      MediaWritten, UndoSound, Settled
  <2> QED
    BY <2>1, <2>3, <2>4, QuietFiles DEF DiskInv
<1>2. CASE ReconcileNone \/ RollBackEvent \/ CommitEvent
  <2>1. Quiet /\ eventsOk' = eventsOk /\ journal = Absent
    BY <1>2 DEF ReconcileNone, RollBackEvent, CommitEvent, Quiet, DiskInv, WorkSound, Settled
  <2>2. \/ Leave
        \/ pc' = "check" /\ caller = "append" /\ UNCHANGED <<caller, request>>
        \/ pc' = "stop" /\ caller = "stop" /\ UNCHANGED <<caller, request>>
    BY <1>2 DEF ReconcileNone, RollBackEvent, CommitEvent
  <2>3. TypeOK'
    BY <2>1, <2>2 DEF DiskInv, TypeOK, Steps, Quiet
  <2>4. WorkSound'
    BY <2>1, <2>2
    DEF DiskInv, WorkSound, RequestKnown, Writing, Undoing, BeforeCommit, AfterCommit,
        MediaWritten, UndoSound, Settled, Quiet
  <2> QED
    BY <2>1, <2>3, <2>4, QuietFiles DEF DiskInv
<1>3. CASE ReconcileRefused \/ AppendRefused \/ FullBeforeCommit \/ FullReconcileEvent
  <2>1. Quiet /\ Leave /\ eventsOk' \in BOOLEAN
    BY <1>3 DEF ReconcileRefused, AppendRefused, FullBeforeCommit, FullReconcileEvent, Quiet,
                DiskInv, TypeOK
  <2>2. TypeOK'
    BY <2>1 DEF DiskInv, TypeOK, Steps, Quiet
  <2> QED
    BY <2>1, <2>2, QuietFiles, LeavingWork DEF DiskInv
<1>4. CASE AppendAccepted
  <2>1. Quiet /\ eventsOk' = eventsOk /\ pc = "check" /\ pc' = "journal"
        /\ UNCHANGED <<caller, request>> /\ Acceptable(request)
    BY <1>4 DEF AppendAccepted, Quiet
  <2>2. TypeOK'
    BY <2>1 DEF DiskInv, TypeOK, Steps, Quiet
  <2>3. Acceptable(request)'
    BY <2>1 DEF Acceptable, ContinuesTimeline, Stored, Last, Quiet
  <2>4. WorkSound'
    BY <2>1, <2>3
    DEF DiskInv, WorkSound, RequestKnown, Writing, Undoing, BeforeCommit, AfterCommit,
        MediaWritten, UndoSound, Settled, Quiet
  <2> QED
    BY <2>1, <2>2, <2>4, QuietFiles DEF DiskInv
<1>5. CASE WriteEvent \/ FullCommit \/ FullEvent
  <2>1. /\ Quiet /\ eventsOk' \in BOOLEAN /\ UNCHANGED <<caller, request>>
        /\ pc \in {"record", "session", "event"}
        /\ pc' = "undo.media" \/ (pc = "event" /\ pc' = "unjournal")
    BY <1>5 DEF WriteEvent, FullCommit, FullEvent, Quiet, DiskInv, TypeOK
  <2>2. TypeOK'
    BY <2>1 DEF DiskInv, TypeOK, Steps, Quiet
  <2>3. /\ journal # Absent /\ journal.sequence = request.sequence
        /\ temporary[journal.file] = Absent /\ request \in Request
        /\ pc = "event" => media[journal.file] = request.fragment /\ Committed(request)
    BY <2>1 DEF DiskInv, WorkSound, BeforeCommit, AfterCommit, MediaWritten, RequestKnown,
                Writing
  <2>4. pc = "event" => Committed(request)'
    BY <2>1, <2>3 DEF Committed, SameAsStored, Quiet
  <2>5. WorkSound'
    BY <2>1, <2>3, <2>4
    DEF WorkSound, RequestKnown, Writing, Undoing, BeforeCommit, AfterCommit,
        MediaWritten, UndoSound, Settled, Quiet
  <2> QED
    BY <2>1, <2>2, <2>5, QuietFiles DEF DiskInv
<1>6. CASE UNCHANGED vars
  <2>1. Quiet /\ UNCHANGED <<pc, caller, request, eventsOk>>
    BY <1>6 DEF vars, Quiet
  <2>2. TypeOK'
    BY <2>1 DEF DiskInv, TypeOK, Quiet
  <2>3. Committed(request)' <=> Committed(request)
    BY <2>1 DEF Committed, SameAsStored, Quiet
  <2>4. Acceptable(request)' <=> Acceptable(request)
    BY <2>1 DEF Acceptable, ContinuesTimeline, Stored, Last, Quiet
  <2>5. Stored' = Stored
    BY <2>1 DEF Stored, Quiet
  <2>6. WorkSound'
    BY <2>1, <2>3, <2>4, <2>5
    DEF DiskInv, WorkSound, RequestKnown, BeforeCommit, AfterCommit,
        MediaWritten, UndoSound, Settled, Quiet
  <2> QED
    BY <2>1, <2>2, <2>6, QuietFiles DEF DiskInv
<1> QED
  BY <1>1, <1>2, <1>3, <1>4, <1>5, <1>6 DEF QuietStep

(* A retry is answered from a readable record while no journal is left.    *)
LEMMA DuplicateKept ==
  ASSUME DiskInv, AppendDuplicate
  PROVE  TypeOK' /\ FilesSound' /\ WorkSound'
<1>1. /\ UNCHANGED disk /\ Leave /\ acked' = acked \cup {request}
      /\ journal = Absent /\ request \in Request /\ Duplicate(request)
  BY DEF AppendDuplicate, DiskInv, WorkSound, RequestKnown, Settled
<1>2. TypeOK'
  BY <1>1 DEF DiskInv, TypeOK, Steps, Leave, disk
<1>3. Stored' = Stored /\ \A s \in Stored : Readable(s) <=> Readable(s)'
  BY <1>1 DEF Stored, Readable, disk
<1>4. StoredCounted' /\ JournalApart'
  BY <1>1, <1>3 DEF DiskInv, FilesSound, disk, StoredCounted, Uncounted, JournalApart
<1>5. BrokenIsNamed' /\ MediaTracked' /\ ListedAreFetchable'
  BY <1>1, <1>3 DEF DiskInv, FilesSound, disk, BrokenIsNamed, MediaTracked, ListedAreFetchable
<1>6. AckedDurable'
  BY <1>1 DEF DiskInv, FilesSound, disk, AckedDurable, Duplicate, SameAsStored, Readable
<1> QED
  BY <1>1, <1>2, <1>4, <1>5, <1>6, LeavingWork DEF FilesSound

\* Only the bytes of the journal's own file change.
OwnBytes ==
  /\ UNCHANGED <<session, record, journal, manifest, acked>>
  /\ journal # Absent
  /\ \A f \in Files : f # journal.file =>
       media'[f] = media[f] /\ temporary'[f] = temporary[f]

(* Where the journal's file is of no record, or of the segment that is not *)
(* yet spoken of, its bytes may change.                                    *)
LEMMA OwnBytesKept ==
  ASSUME DiskInv, OwnBytes
  PROVE  FilesSound'
<1>1. Stored' = Stored
  BY DEF Stored, OwnBytes
<1>2. \A s \in Stored : s # journal.sequence => (Readable(s) <=> Readable(s)')
  BY DEF DiskInv, TypeOK, Record, Stored, FilesSound, JournalApart, Readable, OwnBytes
<1>3. StoredCounted' /\ JournalApart'
  BY <1>1 DEF DiskInv, FilesSound, OwnBytes, StoredCounted, Uncounted, JournalApart
<1>4. BrokenIsNamed'
  BY <1>1, <1>2 DEF DiskInv, FilesSound, OwnBytes, BrokenIsNamed
<1>5. MediaTracked'
  BY <1>1 DEF DiskInv, FilesSound, OwnBytes, MediaTracked
<1>6. ListedAreFetchable'
  BY <1>1, <1>2 DEF DiskInv, FilesSound, OwnBytes, ListedAreFetchable, JournalApart
<1>7. AckedDurable'
  <2>1. ASSUME NEW r \in acked
        PROVE  r.sequence \in Stored /\ r.sequence # journal.sequence
    BY DEF DiskInv, TypeOK, Request, FilesSound, AckedDurable, JournalApart, OwnBytes, Stored
  <2> QED
    BY <1>2, <2>1 DEF DiskInv, FilesSound, OwnBytes, AckedDurable, SameAsStored
<1> QED
  BY <1>3, <1>4, <1>5, <1>6, <1>7 DEF FilesSound

(* Rolling back, writing and renaming the media, and undoing it.           *)
LEMMA BytesKept ==
  ASSUME DiskInv, \/ RollBackMedia \/ WriteTemporary \/ FullTemporary
                  \/ RenameMedia \/ UndoMedia
  PROVE  TypeOK' /\ FilesSound' /\ WorkSound'
<1> USE DEF Goto
<1>0. /\ media \in [Files -> Fragments \cup {Absent}]
      /\ temporary \in [Files -> Fragments \cup {Absent, Partial}]
      /\ record \in [SeqNos -> Record \cup {Absent}]
  BY DEF DiskInv, TypeOK
<1>a. pc \in {"temporary", "rename", "record", "undo.media"} =>
        /\ journal # Absent /\ journal \in Journal /\ journal.file \in Files
        /\ journal.sequence = request.sequence /\ request \in Request
        /\ request.fragment \in Fragments
        /\ pc # "undo.media" => journal.fragment = request.fragment /\ Acceptable(request)
  BY DEF DiskInv, TypeOK, Journal, WorkSound, BeforeCommit, UndoSound, Undoing, RequestKnown,
         Writing, Request
<1>b. ASSUME OwnBytes
      PROVE  (Acceptable(request) /\ UNCHANGED request) => Acceptable(request)'
  BY <1>b DEF OwnBytes, Acceptable, ContinuesTimeline, Stored, Last
<1>1. CASE RollBackMedia
  <2>1. /\ journal \in Journal /\ journal # Absent /\ pc' = "rollback.journal"
        /\ UNCHANGED <<session, record, journal, eventsOk, manifest, acked, caller, request>>
        /\ media' = [media EXCEPT ![journal.file] = Absent]
        /\ temporary' = [temporary EXCEPT ![journal.file] = Absent]
        /\ record[journal.sequence] = Absent /\ journal.file \in Files /\ pc = "reconcile"
    BY <1>1 DEF RollBackMedia, DiskInv, TypeOK, Journal
  <2>2. OwnBytes
    BY <1>0, <2>1 DEF OwnBytes
  <2>3. TypeOK'
    BY <1>0, <2>1 DEF DiskInv, TypeOK, Steps
  <2>4. WorkSound'
    BY <1>0, <2>1 DEF DiskInv, WorkSound, RequestKnown, Writing, Undoing, BeforeCommit,
                      AfterCommit, MediaWritten, UndoSound, Settled
  <2> QED
    BY <2>2, <2>3, <2>4, OwnBytesKept
<1>2. CASE WriteTemporary
  <2>1. /\ pc = "temporary" /\ pc' = "rename"
        /\ UNCHANGED <<session, record, media, journal, eventsOk, manifest, acked, caller, request>>
        /\ temporary' = [temporary EXCEPT ![journal.file] = request.fragment]
    BY <1>2 DEF WriteTemporary
  <2>2. OwnBytes
    BY <1>0, <1>a, <2>1 DEF OwnBytes
  <2>3. TypeOK'
    BY <1>0, <1>a, <2>1 DEF DiskInv, TypeOK, Steps
  <2>4. WorkSound'
    BY <1>a, <1>b, <2>1, <2>2 DEF DiskInv, WorkSound, RequestKnown, Writing, Undoing, BeforeCommit,
                      AfterCommit, MediaWritten, UndoSound, Settled
  <2> QED
    BY <2>2, <2>3, <2>4, OwnBytesKept
<1>3. CASE FullTemporary
  <2>1. /\ pc = "temporary" /\ Leave
        /\ UNCHANGED <<session, record, media, journal, eventsOk, manifest, acked>>
        /\ temporary' = [temporary EXCEPT ![journal.file] = Partial]
    BY <1>3 DEF FullTemporary
  <2>2. OwnBytes
    BY <1>0, <1>a, <2>1 DEF OwnBytes
  <2>3. TypeOK'
    BY <1>0, <1>a, <2>1 DEF DiskInv, TypeOK, Steps, Leave
  <2> QED
    BY <2>1, <2>2, <2>3, OwnBytesKept, LeavingWork
<1>4. CASE RenameMedia
  <2>1. /\ pc = "rename" /\ pc' = "record"
        /\ UNCHANGED <<session, record, journal, eventsOk, manifest, acked, caller, request>>
        /\ media' = [media EXCEPT ![journal.file] = request.fragment]
        /\ temporary' = [temporary EXCEPT ![journal.file] = Absent]
    BY <1>4 DEF RenameMedia
  <2>2. OwnBytes
    BY <1>0, <1>a, <2>1 DEF OwnBytes
  <2>3. TypeOK'
    BY <1>0, <1>a, <2>1 DEF DiskInv, TypeOK, Steps
  <2>4. WorkSound'
    BY <1>0, <1>a, <1>b, <2>1, <2>2
    DEF DiskInv, WorkSound, RequestKnown, Writing, Undoing, BeforeCommit,
        AfterCommit, MediaWritten, UndoSound, Settled
  <2> QED
    BY <2>2, <2>3, <2>4, OwnBytesKept
<1>5. CASE UndoMedia
  <2>1. /\ pc = "undo.media" /\ pc' = "undo.record"
        /\ UNCHANGED <<session, record, temporary, journal, eventsOk, manifest, acked,
                       caller, request>>
        /\ media' = [media EXCEPT ![journal.file] = Absent]
    BY <1>5 DEF UndoMedia
  <2>2. OwnBytes
    BY <1>0, <1>a, <2>1 DEF OwnBytes
  <2>3. TypeOK'
    BY <1>0, <1>a, <2>1 DEF DiskInv, TypeOK, Steps
  <2>4. WorkSound'
    BY <1>0, <1>a, <2>1
    DEF DiskInv, WorkSound, RequestKnown, Writing, Undoing, BeforeCommit,
        AfterCommit, MediaWritten, UndoSound, Settled
  <2> QED
    BY <2>2, <2>3, <2>4, OwnBytesKept
<1> QED
  BY <1>1, <1>2, <1>3, <1>4, <1>5

(* A journal goes when its segment is committed and readable, or when none *)
(* of it is left.                                                          *)
LEMMA JournalRemoved ==
  ASSUME DiskInv, journal # Absent, journal' = Absent,
         UNCHANGED <<session, record, media, manifest, acked>>,
         \A f \in Files : f # journal.file => temporary'[f] = temporary[f],
         temporary'[journal.file] = Absent,
         \/ record[journal.sequence] = Absent /\ media[journal.file] = Absent
         \/ record[journal.sequence] # Absent /\ Readable(journal.sequence)
  PROVE  FilesSound'
<1>1. Stored' = Stored /\ \A s \in Stored : Readable(s) <=> Readable(s)'
  BY DEF Stored, Readable
<1>2. journal.sequence \in SeqNos /\ journal.file \in Files
  BY DEF DiskInv, TypeOK, Journal
<1>3. \A s \in Stored : Readable(s)
  BY <1>2 DEF DiskInv, FilesSound, BrokenIsNamed, Stored
<1>4. StoredCounted' /\ JournalApart'
  BY <1>1 DEF DiskInv, FilesSound, StoredCounted, Uncounted, JournalApart
<1>5. BrokenIsNamed' /\ ListedAreFetchable'
  BY <1>1, <1>3 DEF DiskInv, FilesSound, BrokenIsNamed, ListedAreFetchable
<1>6. MediaTracked'
  <2>1. media[journal.file] # Absent => \E s \in Stored : record[s].file = journal.file
    BY <1>2 DEF DiskInv, FilesSound, JournalApart, Stored
  <2> QED
    BY <1>1, <2>1 DEF DiskInv, FilesSound, MediaTracked
<1>7. AckedDurable'
  BY DEF DiskInv, FilesSound, AckedDurable, SameAsStored, Readable
<1> QED
  BY <1>4, <1>5, <1>6, <1>7 DEF FilesSound

LEMMA JournalKept ==
  ASSUME DiskInv, RollBackJournal \/ CommitJournal \/ RemoveJournal \/ UndoJournal
  PROVE  TypeOK' /\ FilesSound' /\ WorkSound'
<1> USE DEF Goto
<1>0. /\ media \in [Files -> Fragments \cup {Absent}]
      /\ temporary \in [Files -> Fragments \cup {Absent, Partial}]
      /\ journal # Absent => /\ journal \in Journal /\ journal.sequence \in SeqNos
                             /\ journal.file \in Files
  BY DEF DiskInv, TypeOK, Journal
<1>1. CASE RollBackJournal
  <2>1. /\ pc = "rollback.journal" /\ pc' = "rollback.event" /\ journal' = Absent
        /\ UNCHANGED <<session, record, media, temporary, eventsOk, manifest, acked,
                       caller, request>>
    BY <1>1 DEF RollBackJournal
  <2>2. /\ journal # Absent /\ record[journal.sequence] = Absent
        /\ media[journal.file] = Absent /\ temporary[journal.file] = Absent
    BY <2>1 DEF DiskInv, WorkSound, Settled
  <2>3. FilesSound'
    BY <2>1, <2>2, JournalRemoved
  <2>4. TypeOK'
    BY <2>1 DEF DiskInv, TypeOK, Steps
  <2>5. WorkSound'
    BY <2>1 DEF DiskInv, WorkSound, RequestKnown, Writing, Undoing, BeforeCommit,
                AfterCommit, MediaWritten, UndoSound, Settled
  <2> QED
    BY <2>3, <2>4, <2>5
<1>2. CASE CommitJournal
  <2> DEFINE s == journal.sequence
  <2>1. /\ pc = "reconcile" /\ journal # Absent /\ record[s] # Absent /\ JournalSound
        /\ temporary' = [temporary EXCEPT ![journal.file] = Absent] /\ journal' = Absent
        /\ pc' = IF session.nextSegmentSequence <= s THEN "commit.session" ELSE "commit.event"
        /\ UNCHANGED <<session, record, media, eventsOk, manifest, acked, caller, request>>
    BY <1>2 DEF CommitJournal
  <2>2. s \in Stored /\ record[s].file = journal.file /\ s <= session.nextSegmentSequence
    BY <1>0, <2>1 DEF DiskInv, FilesSound, JournalApart, Stored
  <2>3. Readable(s)
    BY <2>1, <2>2 DEF Readable, JournalSound
  <2>4. FilesSound'
    BY <1>0, <2>1, <2>3, JournalRemoved
  <2>5. TypeOK'
    BY <1>0, <2>1 DEF DiskInv, TypeOK, Steps
  <2>6. pc' = "commit.session" => session'.nextSegmentSequence \in Stored'
    <3>1. session.nextSegmentSequence \in Nat /\ s \in Nat
      BY <1>0, <2>1 DEF DiskInv, TypeOK, Session, SeqNos
    <3>2. pc' = "commit.session" => session.nextSegmentSequence = s
      BY <2>1, <2>2, <3>1
    <3>3. Stored' = Stored
      BY <2>1 DEF Stored
    <3> QED
      BY <2>1, <2>2, <3>2, <3>3
  <2>7. WorkSound'
    BY <2>1, <2>6
    DEF DiskInv, WorkSound, RequestKnown, Writing, Undoing, BeforeCommit,
        AfterCommit, MediaWritten, UndoSound, Settled
  <2> QED
    BY <2>4, <2>5, <2>7
<1>3. CASE RemoveJournal
  <2>1. /\ pc = "unjournal" /\ pc' = "manifest" /\ journal' = Absent
        /\ UNCHANGED <<session, record, media, temporary, eventsOk, manifest, acked,
                       caller, request>>
    BY <1>3 DEF RemoveJournal
  <2>2. /\ journal # Absent /\ journal.sequence = request.sequence
        /\ temporary[journal.file] = Absent /\ media[journal.file] = request.fragment
        /\ Committed(request)
    BY <2>1 DEF DiskInv, WorkSound, AfterCommit, MediaWritten
  <2>3. journal.sequence \in Stored /\ record[journal.sequence].file = journal.file
    BY <1>0, <2>2 DEF DiskInv, FilesSound, JournalApart, Stored, Committed
  <2>4. Readable(journal.sequence)
    BY <2>2, <2>3 DEF Readable, Committed, SameAsStored
  <2>5. FilesSound'
    BY <2>1, <2>2, <2>3, <2>4, JournalRemoved DEF Stored
  <2>6. TypeOK'
    BY <2>1 DEF DiskInv, TypeOK, Steps
  <2>7. Committed(request)'
    BY <2>1, <2>2 DEF Committed, SameAsStored
  <2>8. WorkSound'
    BY <2>1, <2>7 DEF DiskInv, WorkSound, RequestKnown, Writing, Undoing, BeforeCommit,
                AfterCommit, MediaWritten, UndoSound, Settled
  <2> QED
    BY <2>5, <2>6, <2>8
<1>4. CASE UndoJournal
  <2>1. /\ pc = "undo.journal" /\ Leave /\ journal' = Absent
        /\ UNCHANGED <<session, record, media, temporary, eventsOk, manifest, acked>>
    BY <1>4 DEF UndoJournal
  <2>2. /\ journal # Absent /\ record[journal.sequence] = Absent
        /\ media[journal.file] = Absent /\ temporary[journal.file] = Absent
    BY <2>1 DEF DiskInv, WorkSound, UndoSound, Undoing
  <2>3. FilesSound'
    BY <2>1, <2>2, JournalRemoved
  <2>4. TypeOK'
    BY <2>1 DEF DiskInv, TypeOK, Steps, Leave
  <2> QED
    BY <2>1, <2>3, <2>4, LeavingWork
<1> QED
  BY <1>1, <1>2, <1>3, <1>4

(* The records are finitely many.                                          *)
LEMMA StoredFinite == IsFiniteSet(Stored) /\ Cardinality(Stored) \in Nat
<1>1. IsFiniteSet(SeqNos)
  BY LimitAssumption, FS_Interval DEF SeqNos
<1>2. IsFiniteSet(Stored)
  BY <1>1, FS_Subset DEF Stored
<1> QED
  BY <1>2, FS_CardinalityType

\* A session with other counters.
Counts(n, k, chain) ==
  session' = [session EXCEPT !.segmentCount = k, !.nextSegmentSequence = n, !.chainHead = chain]

LEMMA SessionCounted ==
  ASSUME TypeOK, NEW n \in 0 .. MaxSegments + 1, NEW k \in 0 .. MaxSegments,
         NEW chain \in Chain, Counts(n, k, chain)
  PROVE  /\ session' \in Session /\ session'.nextSegmentSequence = n
         /\ session'.segmentCount = k /\ session'.status = session.status
BY DEF TypeOK, Session, Counts

(* The recovered session counts the record it had not counted.             *)
LEMMA CommitSessionKept ==
  ASSUME DiskInv, CommitSession
  PROVE  TypeOK' /\ FilesSound' /\ WorkSound'
<1> DEFINE n == session.nextSegmentSequence
           k == session.segmentCount
<1>1. /\ n \in Stored /\ journal = Absent /\ pc' = "commit.event"
      /\ UNCHANGED <<record, media, temporary, journal, eventsOk, manifest, acked,
                     caller, request, Stored>>
  BY DEF CommitSession, Goto, DiskInv, WorkSound, Settled, Stored
<1>2. /\ n \in SeqNos /\ n \in Nat /\ k \in Nat /\ n <= MaxSegments /\ record[n] \in Record
      /\ MaxSegments \in Nat
  BY <1>1, LimitAssumption DEF DiskInv, TypeOK, Session, SeqNos, Stored
<1>3. /\ \A s \in Stored : s <= n /\ record[s].sequence = s
      /\ k < MaxSegments /\ Cardinality(Stored) <= k + 1
  BY <1>1 DEF DiskInv, FilesSound, StoredCounted, Uncounted
<1>4. Last = n
  BY <1>1, <1>2, <1>3 DEF Last, Stored, SeqNos
<1>5. Cardinality(Stored) \in 0 .. MaxSegments /\ n + 1 \in 0 .. MaxSegments + 1
  BY <1>2, <1>3, StoredFinite
<1>6. record[n].chain \in Chain
  BY <1>2 DEF Record
<1>7. Counts(n + 1, Cardinality(Stored), record[n].chain)
  BY <1>1, <1>3, <1>4 DEF CommitSession, Counts
<1>8. /\ session' \in Session /\ session'.nextSegmentSequence = n + 1
      /\ session'.segmentCount = Cardinality(Stored)
  BY <1>5, <1>6, <1>7, SessionCounted DEF DiskInv
<1> HIDE DEF n, k
<1>9. TypeOK'
  BY <1>1, <1>8 DEF DiskInv, TypeOK, Steps
<1>10. StoredCounted'
  <2>1. n + 1 \notin Stored /\ \A s \in Stored : s <= n + 1
    BY <1>2, <1>3 DEF Stored, SeqNos
  <2>2. Uncounted' = 0
    BY <1>1, <1>8, <2>1 DEF Uncounted
  <2>3. Cardinality(Stored)' <= session'.segmentCount + Uncounted'
    BY <1>1, <1>8, <2>2, StoredFinite
  <2> QED
    BY <1>1, <1>3, <1>8, <2>1, <2>3 DEF StoredCounted
<1>11. JournalApart' /\ BrokenIsNamed' /\ MediaTracked' /\ ListedAreFetchable' /\ AckedDurable'
  BY <1>1 DEF DiskInv, FilesSound, JournalApart, BrokenIsNamed, MediaTracked,
              ListedAreFetchable, AckedDurable, SameAsStored, Readable
<1>12. WorkSound'
  BY <1>1 DEF CommitSession, DiskInv, WorkSound, RequestKnown, Writing, Undoing, BeforeCommit,
              AfterCommit, MediaWritten, UndoSound, Settled
<1> QED
  BY <1>9, <1>10, <1>11, <1>12 DEF FilesSound

(* The journal names a fresh file for a segment of which there is nothing. *)
LEMMA WriteJournalKept ==
  ASSUME DiskInv, NEW f \in Files, WriteJournal(f)
  PROVE  TypeOK' /\ FilesSound' /\ WorkSound'
<1> DEFINE n == session.nextSegmentSequence
<1>1. /\ request \in Request /\ journal = Absent /\ Acceptable(request) /\ Fresh(f)
      /\ journal' = [sequence |-> request.sequence, file |-> f, fragment |-> request.fragment]
      /\ pc = "journal" /\ pc' = "temporary"
      /\ UNCHANGED <<session, record, media, temporary, eventsOk, manifest, acked,
                     caller, request, Stored>>
  BY DEF WriteJournal, Goto, DiskInv, WorkSound, RequestKnown, Writing, Settled, Stored
<1>2. /\ journal' \in Journal /\ journal' # Absent /\ journal'.sequence = request.sequence
      /\ journal'.file = f /\ journal'.fragment = request.fragment
  BY <1>1, SentinelAssumption DEF Journal, Request
<1>3. /\ request.sequence = n /\ n \in SeqNos /\ n \in Nat /\ n \notin Stored
      /\ \A s \in Stored : s <= n
  BY <1>1 DEF Acceptable, Request, DiskInv, FilesSound, StoredCounted, Stored, SeqNos
<1>4. TypeOK'
  BY <1>1, <1>2 DEF DiskInv, TypeOK, Steps
<1>5. JournalApart'
  <2>1. \A s \in Stored : s <= n /\ s # n /\ record[s].file # f
    BY <1>1, <1>3 DEF Fresh
  <2>2. n \notin manifest /\ \A r \in acked : r.sequence # n
    BY <1>3 DEF DiskInv, FilesSound, ListedAreFetchable, AckedDurable, Stored
  <2> HIDE DEF n
  <2>3. session'.nextSegmentSequence = n /\ n <= n + 1
    BY <1>1, <1>3 DEF n
  <2> QED
    BY <1>1, <1>2, <1>3, <2>1, <2>2, <2>3 DEF JournalApart
<1>6. StoredCounted'
  BY <1>1 DEF DiskInv, FilesSound, StoredCounted, Uncounted
<1>7. BrokenIsNamed' /\ MediaTracked' /\ ListedAreFetchable' /\ AckedDurable'
  BY <1>1 DEF DiskInv, FilesSound, BrokenIsNamed, MediaTracked,
              ListedAreFetchable, AckedDurable, SameAsStored, Readable
<1>8. Acceptable(request)'
  BY <1>1 DEF Acceptable, ContinuesTimeline, Last
<1>9. WorkSound'
  BY <1>1, <1>2, <1>8
  DEF DiskInv, WorkSound, RequestKnown, Writing, Undoing, BeforeCommit,
      AfterCommit, MediaWritten, UndoSound, Settled
<1> QED
  BY <1>4, <1>5, <1>6, <1>7, <1>9 DEF FilesSound

(* A record appears at the position that the session counts next.          *)
LEMMA WriteRecordKept ==
  ASSUME DiskInv, WriteRecord
  PROVE  TypeOK' /\ FilesSound' /\ WorkSound'
<1> DEFINE n == request.sequence
           new == [sequence |-> n, fragment |-> request.fragment, key |-> request.key,
                   file |-> journal.file, previous |-> session.chainHead, chain |-> NextChain]
<1>1. /\ request \in Request /\ journal # Absent /\ journal.sequence = n
      /\ journal \in Journal /\ Acceptable(request) /\ session \in Session
      /\ media[journal.file] = request.fragment /\ temporary[journal.file] = Absent
      /\ pc = "record" /\ pc' = "session" /\ record' = [record EXCEPT ![n] = new]
      /\ UNCHANGED <<session, media, temporary, journal, eventsOk, manifest, acked,
                     caller, request>>
  BY DEF WriteRecord, Goto, DiskInv, TypeOK, WorkSound, RequestKnown, Writing, BeforeCommit
<1>2. /\ n \in SeqNos /\ n = session.nextSegmentSequence /\ record[n] = Absent
      /\ session.segmentCount < MaxSegments
  <2>1. session.segmentCount \in Nat /\ session.segmentCount + 1 <= MaxSegments
    BY <1>1 DEF Acceptable, Session
  <2> QED
    BY <1>1, <2>1, LimitAssumption DEF Acceptable, Request
<1>3. new \in Record /\ new # Absent
  <2>1. NextChain \in Chain /\ session.chainHead \in Chain
    BY <1>1 DEF Session, NextChain, Chain, Link, Request
  <2>2. new \in Record
    BY <1>1, <2>1 DEF Record, Request, Journal
  <2> QED
    BY <2>2, SentinelAssumption
<1>4. /\ record'[n] = new /\ record'[n] # Absent
      /\ \A s \in SeqNos : s # n => record'[s] = record[s]
      /\ new.sequence = n /\ new.file = journal.file /\ new.fragment = request.fragment
      /\ new.key = request.key
  BY <1>1, <1>2, <1>3 DEF DiskInv, TypeOK
<1> HIDE DEF new
<1>5. Stored' = Stored \cup {n} /\ n \notin Stored /\ n \in Stored'
  BY <1>2, <1>4 DEF Stored
<1>6. TypeOK'
  BY <1>1, <1>3 DEF DiskInv, TypeOK, Steps
<1>7. StoredCounted'
  <2>1. Cardinality(Stored \cup {n}) = Cardinality(Stored) + 1
    BY <1>5, StoredFinite, FS_AddElement
  <2>2. Cardinality(Stored) <= session.segmentCount + 0
    BY <1>2, <1>5 DEF DiskInv, FilesSound, StoredCounted, Uncounted
  <2>3. Uncounted' = 1
    BY <1>1, <1>2, <1>5 DEF Uncounted
  <2>4. session.segmentCount \in Nat
    BY <1>1 DEF Session
  <2>5. Cardinality(Stored)' <= session'.segmentCount + Uncounted'
    BY <1>1, <1>5, <2>1, <2>2, <2>3, <2>4, StoredFinite
  <2>6. \A s \in Stored' : s <= session'.nextSegmentSequence /\ record'[s].sequence = s
    BY <1>1, <1>2, <1>4, <1>5 DEF DiskInv, FilesSound, StoredCounted, Stored, SeqNos
  <2> QED
    BY <1>1, <1>2, <2>5, <2>6 DEF StoredCounted
<1>8. JournalApart'
  BY <1>1, <1>2, <1>4, <1>5 DEF DiskInv, FilesSound, JournalApart, Stored, SeqNos
<1>9. BrokenIsNamed'
  BY <1>1, <1>4, <1>5 DEF DiskInv, FilesSound, BrokenIsNamed, Readable, Stored
<1>10. MediaTracked'
  BY <1>1, <1>4, <1>5 DEF DiskInv, FilesSound, MediaTracked, Stored
<1>11. ListedAreFetchable'
  <2>1. n \notin manifest
    BY <1>5 DEF DiskInv, FilesSound, ListedAreFetchable
  <2> QED
    BY <1>1, <1>4, <1>5, <2>1 DEF DiskInv, FilesSound, ListedAreFetchable, Readable, Stored
<1>12. AckedDurable'
  <2>1. \A r \in acked : r.sequence # n /\ r.sequence \in SeqNos
    BY <1>2 DEF DiskInv, TypeOK, Request, FilesSound, AckedDurable
  <2> QED
    BY <1>1, <1>4, <2>1 DEF DiskInv, FilesSound, AckedDurable, SameAsStored, Readable
<1>13. Committed(request)'
  BY <1>1, <1>4 DEF Committed, SameAsStored
<1>14. WorkSound'
  BY <1>1, <1>2, <1>13
  DEF DiskInv, WorkSound, RequestKnown, Writing, Undoing, BeforeCommit,
      AfterCommit, MediaWritten, UndoSound, Settled
<1> QED
  BY <1>6, <1>7, <1>8, <1>9, <1>10, <1>11, <1>12, <1>14 DEF FilesSound

(* The session counts the segment; the journal still names it.             *)
LEMMA WriteSessionKept ==
  ASSUME DiskInv, WriteSession
  PROVE  TypeOK' /\ FilesSound' /\ WorkSound'
<1> DEFINE n == session.nextSegmentSequence
           k == session.segmentCount
<1>1. /\ request \in Request /\ journal # Absent /\ journal.sequence = request.sequence
      /\ request.sequence = n /\ Committed(request) /\ session \in Session
      /\ temporary[journal.file] = Absent
      /\ pc = "session" /\ pc' = "event"
      /\ UNCHANGED <<record, media, temporary, journal, eventsOk, manifest, acked,
                     caller, request, Stored>>
  BY DEF WriteSession, Goto, DiskInv, TypeOK, WorkSound, RequestKnown, Writing, AfterCommit,
         Stored
<1>2. n \in SeqNos /\ n \in Stored /\ n \in Nat /\ n <= MaxSegments /\ k \in Nat
  BY <1>1, LimitAssumption DEF Request, Committed, Stored, SeqNos, Session
<1>3. /\ k < MaxSegments /\ Cardinality(Stored) <= k + 1
      /\ \A s \in Stored : s <= n /\ record[s].sequence = s
  BY <1>2 DEF DiskInv, FilesSound, StoredCounted, Uncounted
<1>4. NextChain \in Chain
  BY <1>1 DEF Session, NextChain, Chain, Link, Request
<1>5. Counts(n + 1, k + 1, NextChain)
  BY <1>1 DEF WriteSession, Counts, Session
<1>6. n + 1 \in 0 .. MaxSegments + 1 /\ k + 1 \in 0 .. MaxSegments
  BY <1>2, <1>3, LimitAssumption
<1>7. /\ session' \in Session /\ session'.nextSegmentSequence = n + 1
      /\ session'.segmentCount = k + 1
  BY <1>4, <1>5, <1>6, SessionCounted DEF DiskInv
<1> HIDE DEF n, k
<1>8. TypeOK'
  BY <1>1, <1>7 DEF DiskInv, TypeOK, Steps
<1>9. StoredCounted'
  <2>1. n + 1 \notin Stored /\ \A s \in Stored : s <= n + 1
    BY <1>2, <1>3 DEF Stored, SeqNos
  <2>2. Uncounted' = 0
    BY <1>1, <1>7, <2>1 DEF Uncounted
  <2>3. Cardinality(Stored)' <= session'.segmentCount + Uncounted'
    BY <1>1, <1>2, <1>3, <1>7, <2>2, StoredFinite
  <2> QED
    BY <1>1, <1>3, <1>7, <2>1, <2>3 DEF StoredCounted
<1>10. JournalApart'
  <2>1. /\ journal.sequence \in Nat /\ n \in Nat
        /\ journal.sequence <= n + 1 /\ n + 1 <= journal.sequence + 1
    BY <1>1, <1>2
  <2>2. /\ \A s \in Stored : /\ s <= journal.sequence
                             /\ record[s].file = journal.file <=> s = journal.sequence
        /\ journal.sequence \notin manifest
        /\ \A r \in acked : r.sequence # journal.sequence
    BY <1>1 DEF DiskInv, FilesSound, JournalApart
  <2>3. /\ record' = record /\ journal' = journal /\ manifest' = manifest /\ acked' = acked
        /\ Stored' = Stored /\ session'.nextSegmentSequence = n + 1
    BY <1>1, <1>7
  <2>4. /\ journal'.sequence <= session'.nextSegmentSequence
        /\ session'.nextSegmentSequence <= journal'.sequence + 1
    BY <2>1, <2>3
  <2>5. /\ \A s \in Stored' : /\ s <= journal'.sequence
                              /\ record'[s].file = journal'.file <=> s = journal'.sequence
        /\ journal'.sequence \notin manifest'
        /\ \A r \in acked' : r.sequence # journal'.sequence
    BY <2>2, <2>3, Zenon
  <2> QED
    BY <2>4, <2>5 DEF JournalApart
<1>11. BrokenIsNamed' /\ MediaTracked' /\ ListedAreFetchable' /\ AckedDurable'
  BY <1>1 DEF DiskInv, FilesSound, BrokenIsNamed, MediaTracked,
              ListedAreFetchable, AckedDurable, SameAsStored, Readable
<1>12. Committed(request)'
  BY <1>1 DEF Committed, SameAsStored
<1>13. WorkSound'
  BY <1>1, <1>12
  DEF DiskInv, WorkSound, RequestKnown, Writing, Undoing, BeforeCommit,
      AfterCommit, MediaWritten, UndoSound, Settled
<1> QED
  BY <1>8, <1>9, <1>10, <1>11, <1>13 DEF FilesSound

(* The playlist is written, and the caller answered, when no journal is    *)
(* left and so every record can be fetched.                                *)
LEMMA WriteManifestKept ==
  ASSUME DiskInv, WriteManifest
  PROVE  TypeOK' /\ FilesSound' /\ WorkSound'
<1>1. /\ request \in Request /\ journal = Absent /\ Committed(request)
      /\ manifest' = Stored /\ acked' = acked \cup {request} /\ Leave
      /\ UNCHANGED <<session, record, media, temporary, journal, eventsOk, Stored>>
  BY DEF WriteManifest, DiskInv, WorkSound, RequestKnown, Writing, AfterCommit, Settled, Stored
<1>2. \A s \in Stored : Readable(s) /\ Readable(s)'
  BY <1>1 DEF DiskInv, FilesSound, BrokenIsNamed, Readable
<1>3. request.sequence \in Stored
  BY <1>1 DEF Request, Committed, Stored
<1>4. TypeOK'
  BY <1>1 DEF DiskInv, TypeOK, Steps, Leave, Stored
<1>5. StoredCounted' /\ JournalApart' /\ MediaTracked'
  BY <1>1 DEF DiskInv, FilesSound, StoredCounted, Uncounted, JournalApart, MediaTracked
<1>6. BrokenIsNamed' /\ ListedAreFetchable'
  BY <1>1, <1>2 DEF BrokenIsNamed, ListedAreFetchable
<1>7. AckedDurable'
  BY <1>1, <1>2, <1>3 DEF DiskInv, FilesSound, AckedDurable, Committed, SameAsStored, Readable
<1> QED
  BY <1>1, <1>4, <1>5, <1>6, <1>7, LeavingWork DEF FilesSound

(* The undo takes back a record that nobody was told of.                   *)
LEMMA UndoRecordKept ==
  ASSUME DiskInv, UndoRecord
  PROVE  TypeOK' /\ FilesSound' /\ WorkSound'
<1> DEFINE n == request.sequence
<1>1. /\ request \in Request /\ journal # Absent /\ journal.sequence = n
      /\ journal \in Journal
      /\ temporary[journal.file] = Absent /\ media[journal.file] = Absent
      /\ pc = "undo.record" /\ pc' = "undo.journal"
      /\ record' = [record EXCEPT ![n] = Absent]
      /\ UNCHANGED <<session, media, temporary, journal, eventsOk, manifest, acked,
                     caller, request>>
  BY DEF UndoRecord, Goto, DiskInv, TypeOK, WorkSound, RequestKnown, UndoSound, Undoing
<1>2. /\ n \in SeqNos /\ n \in Nat /\ session.nextSegmentSequence \in Nat
      /\ session.segmentCount \in Nat
  BY <1>1 DEF Request, SeqNos, DiskInv, TypeOK, Session
<1>3. /\ record'[n] = Absent /\ \A s \in SeqNos : s # n => record'[s] = record[s]
      /\ Stored' = Stored \ {n}
  BY <1>1, <1>2 DEF DiskInv, TypeOK, Stored
<1>4. TypeOK'
  BY <1>1 DEF DiskInv, TypeOK, Steps
<1>5. /\ n <= session.nextSegmentSequence /\ session.nextSegmentSequence <= n + 1
      /\ \A s \in Stored : s <= n /\ (record[s].file = journal.file <=> s = n)
      /\ n \notin manifest /\ \A r \in acked : r.sequence # n
  BY <1>1 DEF DiskInv, FilesSound, JournalApart
<1>6. StoredCounted'
  <2>1. session.nextSegmentSequence \notin Stored \ {n}
    BY <1>2, <1>5
  <2>2. Uncounted' = 0
    BY <1>1, <1>3, <2>1 DEF Uncounted
  <2>3. Cardinality(Stored \ {n}) <= session.segmentCount
    <3>1. CASE n \in Stored
      <4>1. Cardinality(Stored \ {n}) = Cardinality(Stored) - 1
        BY <3>1, StoredFinite, FS_RemoveElement
      <4>2. Cardinality(Stored) <= session.segmentCount + 1
        BY <1>2, StoredFinite DEF DiskInv, FilesSound, StoredCounted, Uncounted
      <4> QED
        BY <1>2, <4>1, <4>2, StoredFinite
    <3>2. CASE n \notin Stored
      <4>1. Stored \ {n} = Stored /\ session.nextSegmentSequence \notin Stored
        BY <2>1, <3>2
      <4>2. Uncounted = 0 /\ Cardinality(Stored) <= session.segmentCount + Uncounted
        BY <4>1 DEF DiskInv, FilesSound, StoredCounted, Uncounted
      <4>3. Cardinality(Stored) <= session.segmentCount
        BY <1>2, <4>2, StoredFinite
      <4> QED
        BY <4>1, <4>3
    <3> QED
      BY <3>1, <3>2
  <2>4. Cardinality(Stored)' <= session'.segmentCount + Uncounted'
    <3>1. Cardinality(Stored)' = Cardinality(Stored \ {n})
      BY <1>3
    <3>2. session'.segmentCount + Uncounted' = session.segmentCount
      BY <1>1, <1>2, <2>2
    <3> QED
      BY <2>3, <3>1, <3>2
  <2> QED
    BY <1>1, <1>3, <2>1, <2>4 DEF DiskInv, FilesSound, StoredCounted, Stored
<1>7. JournalApart'
  BY <1>1, <1>3, <1>5 DEF DiskInv, FilesSound, JournalApart, Stored
<1>8. BrokenIsNamed'
  BY <1>1, <1>3 DEF DiskInv, FilesSound, BrokenIsNamed, Readable, Stored
<1>9. MediaTracked'
  BY <1>1, <1>3, <1>5 DEF DiskInv, FilesSound, MediaTracked, Stored
<1>10. ListedAreFetchable'
  BY <1>1, <1>3, <1>5 DEF DiskInv, FilesSound, ListedAreFetchable, Readable, Stored
<1>11. AckedDurable'
  <2>1. \A r \in acked : r.sequence # n /\ r.sequence \in SeqNos
    BY <1>5 DEF DiskInv, TypeOK, Request
  <2> QED
    BY <1>1, <1>3, <2>1 DEF DiskInv, FilesSound, AckedDurable, SameAsStored, Readable
<1>12. WorkSound'
  BY <1>1, <1>3
  DEF DiskInv, WorkSound, RequestKnown, Writing, Undoing, BeforeCommit,
      AfterCommit, MediaWritten, UndoSound, Settled
<1> QED
  BY <1>4, <1>6, <1>7, <1>8, <1>9, <1>10, <1>11, <1>12 DEF FilesSound

(* The end of a session, a death of the process and a playlist that finds  *)
(* no room change no counter, no record and no media file.                 *)
LEMMA EndKept ==
  ASSUME DiskInv, Stop \/ WriteFailed \/ Crash \/ FullManifest
  PROVE  TypeOK' /\ FilesSound' /\ WorkSound'
<1>1. CASE Stop \/ WriteFailed
  <2>1. /\ Leave /\ UNCHANGED <<record, media, temporary, journal, eventsOk, manifest, acked>>
        /\ session \in Session
        /\ session' = session \/ session' = [session EXCEPT !.status = "STOPPING"]
             \/ session' = [session EXCEPT !.status = "FAILED"]
    BY <1>1 DEF Stop, WriteFailed, DiskInv, TypeOK
  <2>2. /\ session' \in Session /\ session'.segmentCount = session.segmentCount
        /\ session'.nextSegmentSequence = session.nextSegmentSequence
    BY <2>1 DEF Session, Status
  <2>3. TypeOK'
    BY <2>1, <2>2 DEF DiskInv, TypeOK, Steps, Leave
  <2>4. Stored' = Stored
    BY <2>1 DEF Stored
  <2>5. StoredCounted' /\ JournalApart' /\ BrokenIsNamed' /\ MediaTracked'
    BY <2>1, <2>2, <2>4 DEF DiskInv, FilesSound, StoredCounted, Uncounted, JournalApart,
                            BrokenIsNamed, Readable, MediaTracked
  <2>6. ListedAreFetchable' /\ AckedDurable'
    BY <2>1, <2>4 DEF DiskInv, FilesSound, ListedAreFetchable, AckedDurable, Readable,
                      SameAsStored
  <2> QED
    BY <2>1, <2>3, <2>5, <2>6, LeavingWork DEF FilesSound
<1>2. ASSUME manifest' = {}, UNCHANGED <<session, record, media, temporary, journal, acked>>
      PROVE  FilesSound'
  <2>1. Stored' = Stored
    BY <1>2 DEF Stored
  <2>2. StoredCounted' /\ JournalApart' /\ BrokenIsNamed' /\ MediaTracked'
    BY <1>2, <2>1 DEF DiskInv, FilesSound, StoredCounted, Uncounted, JournalApart,
                      BrokenIsNamed, Readable, MediaTracked
  <2>3. ListedAreFetchable' /\ AckedDurable'
    BY <1>2, <2>1 DEF DiskInv, FilesSound, ListedAreFetchable, AckedDurable, Readable,
                      SameAsStored
  <2> QED
    BY <2>2, <2>3 DEF FilesSound
<1>3. CASE FullManifest
  <2>1. /\ manifest' = {} /\ pc = "manifest" /\ pc' = "failed"
        /\ UNCHANGED <<session, record, media, temporary, journal, acked, eventsOk, caller, request>>
    BY <1>3 DEF FullManifest, Goto
  <2>2. TypeOK'
    BY <2>1 DEF DiskInv, TypeOK, Steps
  <2>3. WorkSound'
    BY <2>1 DEF DiskInv, WorkSound, RequestKnown, Writing, Undoing, BeforeCommit,
                AfterCommit, MediaWritten, UndoSound, Settled
  <2> QED
    BY <1>2, <2>1, <2>2, <2>3
<1>4. CASE Crash
  <2>1. /\ Leave /\ UNCHANGED <<session, record, media, journal, eventsOk, acked>>
        /\ \/ UNCHANGED <<temporary, manifest>>
           \/ manifest' = {} /\ UNCHANGED temporary
           \/ /\ pc = "temporary" /\ UNCHANGED manifest
              /\ temporary' = [temporary EXCEPT ![journal.file] = Partial]
    BY <1>4 DEF Crash
  <2>2. TypeOK'
    <3>1. pc = "temporary" => journal.file \in Files
      BY DEF DiskInv, TypeOK, Journal, WorkSound, BeforeCommit
    <3> QED
      BY <2>1, <3>1 DEF DiskInv, TypeOK, Steps, Leave
  <2>3. CASE UNCHANGED <<temporary, manifest>>
    BY <2>1, <2>2, <2>3, QuietFiles, LeavingWork DEF DiskInv, Quiet
  <2>4. CASE manifest' = {} /\ UNCHANGED temporary
    BY <1>2, <2>1, <2>2, <2>4, LeavingWork
  <2>5. CASE /\ pc = "temporary" /\ UNCHANGED manifest
             /\ temporary' = [temporary EXCEPT ![journal.file] = Partial]
    <3>1. OwnBytes
      BY <2>1, <2>5 DEF OwnBytes, DiskInv, TypeOK, WorkSound, BeforeCommit
    <3> QED
      BY <2>1, <2>2, <3>1, OwnBytesKept, LeavingWork
  <2> QED
    BY <2>1, <2>3, <2>4, <2>5
<1> QED
  BY <1>1, <1>3, <1>4

(* Every step, failed or not, keeps the invariant.                         *)
LEMMA DiskStep == DiskInv /\ [Next \/ DiskFull]_vars => DiskInv'
<1> SUFFICES ASSUME DiskInv, [Next \/ DiskFull]_vars PROVE DiskInv'
  OBVIOUS
<1>1. FaultInv'
  BY FaultStep DEF DiskInv
<1>2. CASE QuietStep
  BY <1>1, <1>2, QuietKept DEF DiskInv
<1>3. CASE \/ RollBackMedia \/ WriteTemporary \/ FullTemporary \/ RenameMedia \/ UndoMedia
  BY <1>1, <1>3, BytesKept DEF DiskInv
<1>4. CASE RollBackJournal \/ CommitJournal \/ RemoveJournal \/ UndoJournal
  BY <1>1, <1>4, JournalKept DEF DiskInv
<1>5. CASE AppendDuplicate \/ CommitSession \/ WriteRecord \/ WriteSession
  BY <1>1, <1>5, DuplicateKept, CommitSessionKept, WriteRecordKept, WriteSessionKept
  DEF DiskInv
<1>6. CASE (\E f \in Files : WriteJournal(f)) \/ WriteManifest \/ UndoRecord
  BY <1>1, <1>6, WriteJournalKept, WriteManifestKept, UndoRecordKept DEF DiskInv
<1>7. CASE Stop \/ WriteFailed \/ Crash \/ FullManifest
  BY <1>1, <1>7, EndKept DEF DiskInv
<1> QED
  BY <1>2, <1>3, <1>4, <1>5, <1>6, <1>7
  DEF Next, DiskFull, Reconcile, AppendSegment, QuietStep

(* Whatever write finds the disk full, and wherever the process dies, the  *)
(* journal names the one segment that is in between: every other record    *)
(* has its media, every media file its record, and an undo, whose writes   *)
(* come in the order of the catch, takes back nothing that was answered.   *)
THEOREM DiskInvariant == FaultSpec => []DiskInv
BY DiskInit, DiskStep, PTL DEF FaultSpec

(* The limit of segments holds with a full disk too, also when a recovery  *)
(* recounts the records.                                                   *)
THEOREM TypeCorrectWhenFull == FaultSpec => []TypeOK
<1>1. DiskInv => TypeOK
  BY DEF DiskInv
<1> QED
  BY <1>1, DiskInvariant, PTL

(* An answered segment survives every full disk: what an undo or a         *)
(* rollback removes was never answered.                                    *)
THEOREM AnsweredSurviveFullDisks == FaultSpec => []AckedDurable
<1>1. DiskInv => AckedDurable
  BY DEF DiskInv, FilesSound
<1> QED
  BY <1>1, DiskInvariant, PTL

(* No failed write leaves media bytes that no reconcile will find.         *)
THEOREM NoOrphansWhenFull == FaultSpec => []NoUntrackedMedia
<1>1. DiskInv => NoUntrackedMedia
  BY DEF DiskInv, FilesSound, MediaTracked, NoUntrackedMedia
<1> QED
  BY <1>1, DiskInvariant, PTL

(* A playlist lists only what can be fetched, although an undo removes     *)
(* media and records.                                                      *)
THEOREM PlaylistFetchableWhenFull == FaultSpec => []ListedAreFetchable
<1>1. DiskInv => ListedAreFetchable
  BY DEF DiskInv, FilesSound
<1> QED
  BY <1>1, DiskInvariant, PTL

-----------------------------------------------------------------------------
(***************************************************************************)
(* Part 6: what the store inherits from the log                            *)
(***************************************************************************)

Guarantee == INSTANCE SegmentLogProofs WITH
  log <- logOf, answered <- acked, open <- openOf

\* The mapping fits the log's assumptions.
LEMMA LogShape == Guarantee!Shape
BY LimitAssumption, SentinelAssumption
DEF Guarantee!Shape, Guarantee!Entry, Guarantee!Positions, Request, SeqNos

\* It is the mapping of the refinement.
LEMMA SameLog == Log!Spec => Guarantee!Spec
BY DEF Guarantee!Spec, Guarantee!Init, Guarantee!Next, Guarantee!Commit, Guarantee!Answer,
       Guarantee!Close, Guarantee!Entry, Guarantee!Positions, Log!Spec, Log!Init, Log!Next,
       Log!Commit, Log!Answer, Log!Close, Log!Entry, Log!Positions, logOf, openOf

(* Crashes and retries never put a fragment into a session that does not   *)
(* follow, in the encoder's numbering, the one recorded before it.         *)
SourceContinuous ==
  \A s \in Stored : s > 0 =>
    /\ s - 1 \in Stored
    /\ Mfhd[record[s].fragment] = Mfhd[record[s - 1].fragment] + 1

THEOREM RecordingIsContinuous == Spec => []SourceContinuous
<1>1. IInv /\ Guarantee!Continuous => SourceContinuous
  <2> SUFFICES ASSUME IInv, Guarantee!Continuous, NEW s \in Stored, s > 0
               PROVE  /\ s - 1 \in Stored
                      /\ Mfhd[record[s].fragment] = Mfhd[record[s - 1].fragment] + 1
    BY DEF SourceContinuous
  <2>1. s \in SeqNos /\ s - 1 \in SeqNos /\ Guarantee!Positions = SeqNos /\ record[s] # Absent
    BY LimitAssumption DEF Stored, SeqNos, Guarantee!Positions
  <2>2. \A t \in SeqNos : record[t] # Absent =>
          logOf[t] # Absent /\ logOf[t].fragment = record[t].fragment
    <3> SUFFICES ASSUME NEW t \in SeqNos, record[t] # Absent
                 PROVE  logOf[t] # Absent /\ logOf[t].fragment = record[t].fragment
      OBVIOUS
    <3>1. record[t] \in Record
      BY DEF IInv, TypeOK
    <3>2. [sequence |-> t, fragment |-> record[t].fragment, key |-> record[t].key] \in Guarantee!Entry
      BY <2>1, <3>1 DEF Record, Guarantee!Entry
    <3> QED
      BY <3>2, LogShape DEF Guarantee!Shape, logOf
  <2>3. /\ logOf[s - 1] # Absent
        /\ Mfhd[logOf[s].fragment] = Mfhd[logOf[s - 1].fragment] + 1
    BY <2>1, <2>2 DEF Guarantee!Continuous
  <2>4. record[s - 1] # Absent
    BY <2>1, <2>3 DEF logOf
  <2> QED
    BY <2>1, <2>2, <2>3, <2>4 DEF Stored
<1>2. Guarantee!Spec => [](Guarantee!Continuous /\ Guarantee!AnswersHeld)
  BY LogShape, Guarantee!LogIsSound
<1> QED
  BY <1>1, <1>2, SameLog, InvariantHolds, StoreImplementsLog, PTL DEF ImplementsLog

(* Two callers are never both told that theirs is the segment at a         *)
(* position, whatever write fails and wherever the process dies.           *)
OneAnswer == \A q, r \in acked : q.sequence = r.sequence => q = r

THEOREM AnswersNeverConflict == FaultSpec => []OneAnswer
<1>1. DiskInv => OneAnswer
  <2> SUFFICES ASSUME DiskInv, NEW q \in acked, NEW r \in acked, q.sequence = r.sequence
               PROVE  q = r
    BY DEF OneAnswer
  <2>1. q \in Request /\ r \in Request
    BY DEF DiskInv, TypeOK
  <2>2. q.fragment = r.fragment /\ q.key = r.key
    BY DEF DiskInv, FilesSound, AckedDurable, SameAsStored
  <2> QED
    BY <2>1, <2>2 DEF Request
<1> QED
  BY <1>1, DiskInvariant, PTL
=============================================================================
