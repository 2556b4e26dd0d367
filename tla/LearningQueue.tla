---------------------------- MODULE LearningQueue ----------------------------
(***************************************************************************)
(* DistributedLearningQueue (distributedLearningRuntime.ts): jobs that     *)
(* workers lease, renew, complete and fail, with leases that expire,       *)
(* attempts that are limited, and a snapshot the queue is resumed from.    *)
(*                                                                         *)
(* The queue keeps its pending jobs in a list with a cursor that only      *)
(* moves forward; waiting is what the list holds from the cursor on.       *)
(* leaseNext walks over it, one action for each turn of its loop, and      *)
(* nothing else runs until it returns.                                     *)
(*                                                                         *)
(* Abstractions: a time is what is left until it; the oldest of several    *)
(* expired leases is any of them, and the order of the jobs in the table   *)
(* is any order; counters and texts that nothing depends on are left out.  *)
(***************************************************************************)
EXTENDS Naturals, Sequences, FiniteSets

CONSTANTS
  Ids,         \* job ids (randomUUID)
  Keys,        \* namespaced idempotency keys
  Workers,
  Results,     \* digests of results
  Lease,       \* leaseDurationMs
  Limits,      \* maxAttempts of jobs
  Delays,      \* retry delays
  MaxResumes,  \* bound: restarts from the snapshot
  Absent

ASSUME QueueAssumption ==
  /\ IsFiniteSet(Ids)
  /\ Lease \in Nat \ {0} /\ Limits \subseteq Nat \ {0} /\ Delays \subseteq Nat
  /\ MaxResumes \in Nat
  /\ Absent \notin Keys \cup Workers \cup Results

VARIABLES
  jobs,      \* #jobs
  results,   \* #canonicalResults
  waiting,   \* #pendingOrder from #pendingCursor on
  leasing,   \* the worker whose leaseNext runs, and what is left to scan
  belief,    \* how long workers believe to hold leases granted since the restart
  saved,     \* the snapshot: jobs and results
  minted,    \* job ids ever given out
  resumes

vars == <<jobs, results, waiting, leasing, belief, saved, minted, resumes>>

(***************************************************************************)
(* Values                                                                  *)
(***************************************************************************)

States == {"none", "pending", "leased", "completed", "dead_letter"}

Job == [state : States, key : Keys \cup {Absent}, owner : Workers \cup {Absent},
        expires : Nat, attempts : Nat, limit : Nat, retry : Nat,
        result : Results \cup {Absent}]

NoJob == [state |-> "none", key |-> Absent, owner |-> Absent, expires |-> 0,
          attempts |-> 0, limit |-> 0, retry |-> 0, result |-> Absent]

Table == [Ids -> Job]
Found == [Ids -> Results \cup {Absent}]

\* No leaseNext is running.
Idle == [worker |-> Absent, left |-> 0]
Free == leasing = Idle

TypeOK ==
  /\ jobs \in Table /\ results \in Found
  /\ waiting \in Seq(Ids)
  /\ leasing \in [worker : Workers \cup {Absent}, left : Nat]
  /\ belief \in [Workers -> [Ids -> Nat]]
  /\ saved \in [jobs : Table, results : Found]
  /\ minted \subseteq Ids /\ resumes \in 0 .. MaxResumes
  /\ \A i \in Ids : jobs[i].attempts <= jobs[i].limit

Pending(table) == {i \in Ids : table[i].state = "pending"}

\* A sequence lists a set: all of it, nothing else, and nothing twice.
Lists(s, S) ==
  /\ \A n \in DOMAIN s : s[n] \in S
  /\ \A i \in S : \E n \in DOMAIN s : s[n] = i
  /\ \A m, n \in DOMAIN s : s[m] = s[n] => m = n

Listings(S) == {s \in [1 .. Cardinality(S) -> S] : Lists(s, S)}

NoBelief == [w \in Workers |-> [i \in Ids |-> 0]]

Less(n) == IF n > 0 THEN n - 1 ELSE 0

-----------------------------------------------------------------------------
Init ==
  /\ jobs = [i \in Ids |-> NoJob] /\ results = [i \in Ids |-> Absent]
  /\ waiting = <<>> /\ leasing = Idle
  /\ belief = NoBelief
  /\ saved = [jobs |-> jobs, results |-> results]
  /\ minted = {} /\ resumes = 0

\* A new id; which one makes no difference.
Fresh == CHOOSE i \in Ids : i \notin minted

\* A key the queue knows is answered with its job, which changes nothing.
Enqueue(k, n) ==
  /\ Free /\ minted # Ids
  /\ \A j \in Ids : jobs[j].key # k
  /\ jobs' = [jobs EXCEPT ![Fresh] = [NoJob EXCEPT !.state = "pending", !.key = k, !.limit = n]]
  /\ waiting' = Append(waiting, Fresh) /\ minted' = minted \cup {Fresh}
  /\ UNCHANGED <<results, leasing, belief, saved, resumes>>

\* The lease of a job is given up.
Unleased(job) == [job EXCEPT !.owner = Absent, !.expires = 0]

(***************************************************************************)
(* leaseNext                                                               *)
(***************************************************************************)

LeaseCall(w) ==
  /\ Free /\ leasing' = [worker |-> w, left |-> Len(waiting)]
  /\ UNCHANGED <<jobs, results, waiting, belief, saved, minted, resumes>>

Due(i) == jobs[i].state = "pending" /\ jobs[i].retry = 0

\* Mutant: a job that is not due yet is dropped from the list.
SkipForgotten ==
  /\ leasing.left > 0 /\ ~ Due(Head(waiting))
  /\ waiting' = Tail(waiting) /\ leasing' = [leasing EXCEPT !.left = @ - 1]
  /\ UNCHANGED <<jobs, results, belief, saved, minted, resumes>>

\* A pending job that is not due yet goes to the end of the list; anything
\* else but a due job is dropped from it.
Skip ==
  /\ leasing.left > 0 /\ ~ Due(Head(waiting))
  /\ waiting' = IF jobs[Head(waiting)].state = "pending"
                THEN Append(Tail(waiting), Head(waiting)) ELSE Tail(waiting)
  /\ leasing' = [leasing EXCEPT !.left = @ - 1]
  /\ UNCHANGED <<jobs, results, belief, saved, minted, resumes>>

\* Mutant: a job may be attempted once more than its limit.
ExhaustedLate(i) == jobs[i].attempts > jobs[i].limit

Exhausted(i) == jobs[i].attempts >= jobs[i].limit

\* The job is leased, and leaseNext returns.
Grant(i) ==
  LET w == leasing.worker IN
  /\ jobs' = [jobs EXCEPT ![i].state = "leased", ![i].owner = w, ![i].expires = Lease,
                          ![i].attempts = @ + 1]
  /\ belief' = [belief EXCEPT ![w][i] = Lease]
  /\ leasing' = Idle
  /\ UNCHANGED <<results, saved, minted, resumes>>

\* A job without attempts left is buried, and leaseNext starts again.
Bury(i) ==
  /\ jobs' = [jobs EXCEPT ![i] = [Unleased(@) EXCEPT !.state = "dead_letter"]]
  /\ leasing' = [leasing EXCEPT !.left = Len(waiting')]
  /\ UNCHANGED <<results, belief, saved, minted, resumes>>

Take(i) == IF Exhausted(i) THEN Bury(i) ELSE Grant(i)

TakePending ==
  /\ leasing.left > 0 /\ Due(Head(waiting))
  /\ waiting' = Tail(waiting)
  /\ Take(Head(waiting))

\* Mutant: a lease is taken over while it lasts.
ExpiredEarly == {i \in Ids : jobs[i].state = "leased" /\ jobs[i].expires <= 1}

Expired == {i \in Ids : jobs[i].state = "leased" /\ jobs[i].expires = 0}

TakeExpired(i) ==
  /\ leasing.worker # Absent /\ leasing.left = 0 /\ i \in Expired
  /\ waiting' = waiting
  /\ Take(i)

LeaseNothing ==
  /\ leasing.worker # Absent /\ leasing.left = 0 /\ Expired = {}
  /\ leasing' = Idle
  /\ UNCHANGED <<jobs, results, waiting, belief, saved, minted, resumes>>

(***************************************************************************)
(* What the holder of a lease does                                         *)
(***************************************************************************)

\* #requireLease
Holds(i, w) ==
  Free /\ jobs[i].state = "leased" /\ jobs[i].owner = w /\ jobs[i].expires > 0

Heartbeat(i, w) ==
  /\ Holds(i, w)
  /\ jobs' = [jobs EXCEPT ![i].expires = Lease]
  /\ belief' = [belief EXCEPT ![w][i] = Lease]
  /\ UNCHANGED <<results, waiting, leasing, saved, minted, resumes>>

\* A job that has a result is answered with it, which changes nothing.
Complete(i, w, r) ==
  /\ results[i] = Absent /\ Holds(i, w)
  /\ results' = [results EXCEPT ![i] = r]
  /\ jobs' = [jobs EXCEPT ![i] = [Unleased(@) EXCEPT !.state = "completed", !.result = r]]
  /\ belief' = [belief EXCEPT ![w][i] = 0]
  /\ UNCHANGED <<waiting, leasing, saved, minted, resumes>>

\* The job waits for another attempt, or has had its last.
Fail(i, w, d) ==
  /\ Holds(i, w)
  /\ IF Exhausted(i)
     THEN /\ jobs' = [jobs EXCEPT ![i] = [Unleased(@) EXCEPT !.state = "dead_letter"]]
          /\ UNCHANGED waiting
     ELSE /\ jobs' = [jobs EXCEPT ![i] = [Unleased(@) EXCEPT !.state = "pending", !.retry = d]]
          /\ waiting' = Append(waiting, i)
  /\ belief' = [belief EXCEPT ![w][i] = 0]
  /\ UNCHANGED <<results, leasing, saved, minted, resumes>>

Released(w) == {i \in Ids : jobs[i].state = "leased" /\ jobs[i].owner = w}

\* gracefulShutdown: what a worker has leased, expired or not, is pending.
Shutdown(w) ==
  /\ Free /\ Released(w) # {}
  /\ \E s \in Listings(Released(w)) : waiting' = waiting \o s
  /\ jobs' = [i \in Ids |-> IF i \in Released(w)
                            THEN [Unleased(jobs[i]) EXCEPT !.state = "pending", !.retry = 0]
                            ELSE jobs[i]]
  /\ belief' = [belief EXCEPT ![w] = [i \in Ids |-> 0]]
  /\ UNCHANGED <<results, leasing, saved, minted, resumes>>

(***************************************************************************)
(* Restarts                                                                *)
(***************************************************************************)

Snapshot ==
  /\ Free /\ resumes < MaxResumes
  /\ saved' = [jobs |-> jobs, results |-> results]
  /\ UNCHANGED <<jobs, results, waiting, leasing, belief, minted, resumes>>

\* The process dies and the queue is resumed from the last snapshot.
Resume ==
  /\ resumes < MaxResumes /\ resumes' = resumes + 1
  /\ jobs' = saved.jobs /\ results' = saved.results
  /\ waiting' \in Listings(Pending(saved.jobs))
  /\ leasing' = Idle /\ belief' = NoBelief
  /\ UNCHANGED <<saved, minted>>

Aged(table) ==
  [i \in Ids |-> [table[i] EXCEPT !.expires = Less(@), !.retry = Less(@)]]

\* Time passes, also for what the snapshot holds.
Tick ==
  /\ Free
  /\ jobs' = Aged(jobs)
  /\ saved' = [saved EXCEPT !.jobs = Aged(@)]
  /\ belief' = [w \in Workers |-> [i \in Ids |-> Less(belief[w][i])]]
  /\ UNCHANGED <<results, waiting, leasing, minted, resumes>>

-----------------------------------------------------------------------------
Scan == Skip \/ TakePending \/ LeaseNothing \/ \E i \in Ids : TakeExpired(i)

Work(i, w) ==
  \/ Heartbeat(i, w)
  \/ \E r \in Results : Complete(i, w, r)
  \/ \E d \in Delays : Fail(i, w, d)

Next ==
  \/ \E k \in Keys, n \in Limits : Enqueue(k, n)
  \/ \E w \in Workers : LeaseCall(w) \/ Shutdown(w)
  \/ Scan
  \/ \E i \in Ids, w \in Workers : Work(i, w)
  \/ Snapshot \/ Resume \/ Tick

Spec == Init /\ [][Next]_vars

(***************************************************************************)
(* leaseNext returns, some worker asks for work again and again, and time  *)
(* goes on, however often it has to wait for a call to return.  Nobody has *)
(* to complete or fail what it has leased.                                 *)
(***************************************************************************)
FairSpec ==
  /\ Spec
  /\ WF_vars(Scan \/ \E w \in Workers : LeaseCall(w)) /\ SF_vars(Tick)

(***************************************************************************)
(* Properties                                                              *)
(***************************************************************************)

(* No pending job is ever lost and none is listed twice: from the cursor   *)
(* on the list holds exactly the pending jobs, although leaseNext moves    *)
(* those that are not due, and failures, shutdowns and restarts add to it  *)
(* (leaseNext, fail, gracefulShutdown and resume).                         *)
ListedOnce == Lists(waiting, Pending(jobs))

Consistent(table, found) ==
  \A i \in Ids : /\ found[i] = table[i].result
                 /\ found[i] # Absent <=> table[i].state = "completed"

(* The canonical results and the jobs tell the same story, also in the     *)
(* snapshot: a job has a result exactly if it is completed, and complete   *)
(* answers repeated calls with the one it has.                             *)
ResultsAgree == Consistent(jobs, results) /\ Consistent(saved.jobs, saved.results)

(* Two workers never both believe that they hold the lease of a job, and   *)
(* who believes it can complete the job: of what was leased since the      *)
(* queue was last resumed (leaseNext takes over expired leases only).      *)
OneHolder ==
  \A w \in Workers, i \in Ids : belief[w][i] > 0 =>
    /\ jobs[i].owner = w /\ jobs[i].expires >= belief[w][i]
    /\ \A v \in Workers : belief[v][i] > 0 => v = w

(* What a table of jobs, and a running leaseNext, look like besides.       *)
Sound(table) ==
  \A i \in Ids :
    /\ i \notin minted => table[i].state = "none"
    /\ table[i].state = "none" => table[i].attempts = 0 /\ table[i].limit = 0
    /\ table[i].state = "leased" => table[i].attempts > 0
    /\ table[i].state # "leased" => table[i].expires = 0
    /\ table[i].attempts <= table[i].limit

LeasingSound ==
  /\ leasing.left <= Len(waiting)
  /\ leasing.worker = Absent => leasing.left = 0

\* TypeOK, ListedOnce, ResultsAgree and OneHolder are inductive with these.
IInv ==
  /\ TypeOK /\ ListedOnce /\ ResultsAgree /\ OneHolder
  /\ Sound(jobs) /\ Sound(saved.jobs) /\ LeasingSound

(* Every job that was enqueued ends although workers may die with it, fail *)
(* it or shut down (attempts are limited, leases expire), unless a worker  *)
(* goes on renewing its lease for ever: nothing stays behind the cursor,   *)
(* and again and again there is nothing left to do.                        *)
EveryJobEnds ==
  <>[][\A i \in Ids, w \in Workers : ~ Heartbeat(i, w)]_vars =>
    []<>(\A i \in Ids : jobs[i].state \notin {"pending", "leased"})

Outcome == [none |-> "none", pending |-> "open", leased |-> "open",
            completed |-> "completed", dead_letter |-> "dead"]

Entry(job) == [outcome |-> Outcome[job.state], attempts |-> job.attempts, limit |-> job.limit]
Board(table) == [i \in Ids |-> Entry(table[i])]

Outcomes == INSTANCE LearningJobs WITH board <- Board(jobs), saved <- Board(saved.jobs)

(* The queue keeps the promise of LearningJobs.                            *)
ImplementsJobs == Outcomes!Spec
=============================================================================
