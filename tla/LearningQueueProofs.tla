------------------------- MODULE LearningQueueProofs -------------------------
(***************************************************************************)
(* What holds of LearningQueue for any number of jobs, workers and limits, *)
(* any length of leases and delays, and any number of restarts.            *)
(*                                                                         *)
(* Part 1: lists.  Part 2: IInv is inductive, one lemma per action; what   *)
(* changes one job, and nothing about time, shares one.  Part 3: the       *)
(* safety properties.  Part 4: LearningQueue implements LearningJobs.      *)
(***************************************************************************)
EXTENDS LearningQueue, FiniteSetTheorems, TLAPS

USE QueueAssumption DEF Idle, Free

-----------------------------------------------------------------------------
(***************************************************************************)
(* Part 1: lists                                                           *)
(***************************************************************************)

(* An element that a list does not have yet. *)
LEMMA ListsAppend ==
  ASSUME NEW s \in Seq(Ids), NEW S \in SUBSET Ids, NEW i \in Ids, i \notin S, Lists(s, S)
  PROVE  /\ Append(s, i) \in Seq(Ids)
         /\ Len(Append(s, i)) = Len(s) + 1
         /\ Lists(Append(s, i), S \cup {i})
<1> DEFINE t == Append(s, i)
<1>1. /\ t \in Seq(Ids) /\ Len(t) = Len(s) + 1
      /\ DOMAIN s = 1 .. Len(s) /\ DOMAIN t = 1 .. (Len(s) + 1)
      /\ \A n \in 1 .. Len(s) : t[n] = s[n]
      /\ t[Len(s) + 1] = i /\ Len(s) \in Nat
  OBVIOUS
<1> HIDE DEF t
<1>2. ASSUME NEW n \in DOMAIN t  PROVE t[n] \in S \cup {i}
  BY <1>1, <1>2 DEF Lists
<1>3. ASSUME NEW j \in S \cup {i}  PROVE \E n \in DOMAIN t : t[n] = j
  BY <1>1, <1>3 DEF Lists
<1>4. ASSUME NEW m \in DOMAIN t, NEW n \in DOMAIN t, t[m] = t[n]  PROVE m = n
  BY <1>1, <1>4 DEF Lists
<1>5. Lists(t, S \cup {i})
  BY <1>2, <1>3, <1>4 DEF Lists
<1> QED
  BY <1>1, <1>5 DEF t

(* A list without its head. *)
LEMMA ListsTail ==
  ASSUME NEW s \in Seq(Ids), NEW S \in SUBSET Ids, s # <<>>, Lists(s, S)
  PROVE  /\ Tail(s) \in Seq(Ids) /\ Len(Tail(s)) = Len(s) - 1
         /\ Head(s) \in S
         /\ Lists(Tail(s), S \ {Head(s)})
<1> DEFINE t == Tail(s)
<1>1. /\ t \in Seq(Ids) /\ Len(t) = Len(s) - 1 /\ Len(s) \in Nat \ {0}
      /\ DOMAIN s = 1 .. Len(s) /\ DOMAIN t = 1 .. (Len(s) - 1)
      /\ \A n \in 1 .. (Len(s) - 1) : t[n] = s[n + 1]
      /\ Head(s) = s[1]
  OBVIOUS
<1> HIDE DEF t
<1>0. Head(s) \in S
  BY <1>1 DEF Lists
<1>2. ASSUME NEW n \in DOMAIN t  PROVE t[n] \in S \ {Head(s)}
  <2>1. /\ n + 1 \in DOMAIN s /\ 1 \in DOMAIN s /\ n + 1 # 1 /\ t[n] = s[n + 1]
    BY <1>1
  <2> QED
    BY <1>1, <2>1 DEF Lists
<1>3. ASSUME NEW j \in S \ {Head(s)}  PROVE \E n \in DOMAIN t : t[n] = j
  <2>1. PICK n \in DOMAIN s : s[n] = j
    BY DEF Lists
  <2>2. n - 1 \in DOMAIN t /\ t[n - 1] = j
    BY <1>1, <2>1
  <2> QED
    BY <2>2
<1>4. ASSUME NEW m \in DOMAIN t, NEW n \in DOMAIN t, t[m] = t[n]  PROVE m = n
  <2>1. /\ m + 1 \in DOMAIN s /\ n + 1 \in DOMAIN s /\ s[m + 1] = s[n + 1]
        /\ m \in Nat /\ n \in Nat
    BY <1>1, <1>4
  <2> QED
    BY <2>1 DEF Lists
<1>5. Lists(t, S \ {Head(s)})
  BY <1>2, <1>3, <1>4 DEF Lists
<1> QED
  BY <1>0, <1>1, <1>5 DEF t

(* Two lists with nothing in common. *)
LEMMA ListsConcat ==
  ASSUME NEW s \in Seq(Ids), NEW S \in SUBSET Ids, Lists(s, S),
         NEW t \in Seq(Ids), NEW T \in SUBSET Ids, Lists(t, T),
         S \cap T = {}
  PROVE  /\ s \o t \in Seq(Ids) /\ Len(s \o t) = Len(s) + Len(t)
         /\ Lists(s \o t, S \cup T)
<1> DEFINE u == s \o t
<1>1. /\ u \in Seq(Ids) /\ Len(u) = Len(s) + Len(t)
      /\ Len(s) \in Nat /\ Len(t) \in Nat
      /\ DOMAIN s = 1 .. Len(s) /\ DOMAIN t = 1 .. Len(t)
      /\ DOMAIN u = 1 .. (Len(s) + Len(t))
      /\ \A n \in 1 .. Len(s) : u[n] = s[n]
      /\ \A n \in 1 .. (Len(s) + Len(t)) : n > Len(s) => u[n] = t[n - Len(s)]
  OBVIOUS
<1> HIDE DEF u
<1>a. ASSUME NEW n \in DOMAIN u
      PROVE  \/ n \in DOMAIN s /\ u[n] = s[n]
             \/ n > Len(s) /\ n - Len(s) \in DOMAIN t /\ u[n] = t[n - Len(s)]
  BY <1>1
<1>2. ASSUME NEW n \in DOMAIN u  PROVE u[n] \in S \cup T
  BY <1>a DEF Lists
<1>3. ASSUME NEW j \in S \cup T  PROVE \E n \in DOMAIN u : u[n] = j
  <2>1. CASE j \in S
    BY <1>1, <2>1 DEF Lists
  <2>2. CASE j \in T
    <3>1. PICK n \in DOMAIN t : t[n] = j
      BY <2>2 DEF Lists
    <3>2. n + Len(s) \in DOMAIN u /\ u[n + Len(s)] = j
      BY <1>1, <3>1
    <3> QED
      BY <3>2
  <2> QED
    BY <2>1, <2>2
<1>4. ASSUME NEW m \in DOMAIN u, NEW n \in DOMAIN u, u[m] = u[n]  PROVE m = n
  <2>0. m \in Nat /\ n \in Nat
    BY <1>1
  <2>1. CASE m \in DOMAIN s /\ n \in DOMAIN s
    BY <1>1, <1>4, <2>1 DEF Lists
  <2>2. CASE m > Len(s) /\ n > Len(s)
    <3>1. /\ m - Len(s) \in DOMAIN t /\ n - Len(s) \in DOMAIN t
          /\ t[m - Len(s)] = t[n - Len(s)]
      BY <1>1, <1>4, <2>2
    <3> QED
      BY <1>1, <2>0, <3>1 DEF Lists
  <2>3. CASE m \in DOMAIN s /\ n > Len(s)
    <3>1. u[m] \in S /\ u[n] \in T
      BY <1>1, <1>a, <2>3 DEF Lists
    <3> QED
      BY <1>4, <3>1
  <2>4. CASE m > Len(s) /\ n \in DOMAIN s
    <3>1. u[m] \in T /\ u[n] \in S
      BY <1>1, <1>a, <2>4 DEF Lists
    <3> QED
      BY <1>4, <3>1
  <2> QED
    BY <1>1, <2>1, <2>2, <2>3, <2>4
<1>5. Lists(u, S \cup T)
  BY <1>2, <1>3, <1>4 DEF Lists
<1> QED
  BY <1>1, <1>5 DEF u

(* The lists of a set are lists of ids. *)
LEMMA ListingsAreLists ==
  ASSUME NEW S \in SUBSET Ids, NEW s \in Listings(S)
  PROVE  s \in Seq(Ids) /\ Lists(s, S)
<1>1. Cardinality(S) \in Nat
  BY FS_Subset, FS_CardinalityType
<1>2. s \in [1 .. Cardinality(S) -> Ids] /\ Lists(s, S)
  BY DEF Listings
<1> QED
  BY <1>1, <1>2

-----------------------------------------------------------------------------
(***************************************************************************)
(* Part 2: IInv is inductive                                               *)
(***************************************************************************)

LEMMA InitIsSound == Init => IInv
<1> SUFFICES ASSUME Init  PROVE IInv
  OBVIOUS
<1> USE DEF Init
<1>0. /\ NoJob \in Job /\ NoJob.state = "none" /\ NoJob.result = Absent
      /\ NoJob.attempts = 0 /\ NoJob.limit = 0 /\ NoJob.expires = 0
  BY DEF NoJob, Job, States
<1>1. /\ jobs \in Table /\ results \in Found
      /\ \A i \in Ids : jobs[i] = NoJob /\ results[i] = Absent
      /\ saved.jobs = jobs /\ saved.results = results
      /\ saved \in [jobs : Table, results : Found]
      /\ belief \in [Workers -> [Ids -> Nat]]
      /\ \A w \in Workers, i \in Ids : belief[w][i] = 0
  BY <1>0 DEF Table, Found, NoBelief
<1>2. TypeOK
  BY <1>0, <1>1 DEF TypeOK
<1>3. ListedOnce
  BY <1>0, <1>1 DEF ListedOnce, Lists, Pending
<1>4. ResultsAgree /\ OneHolder
  BY <1>0, <1>1 DEF ResultsAgree, Consistent, OneHolder
<1>5. Sound(jobs) /\ Sound(saved.jobs) /\ LeasingSound
  BY <1>0, <1>1 DEF Sound, LeasingSound
<1> QED
  BY <1>2, <1>3, <1>4, <1>5 DEF IInv

(* One job changes. *)
LEMMA JobChanges ==
  ASSUME IInv, NEW i \in Ids, NEW job \in Job, jobs' = [jobs EXCEPT ![i] = job]
  PROVE  /\ jobs' \in Table /\ jobs'[i] = job
         /\ \A j \in Ids \ {i} : jobs'[j] = jobs[j]
         /\ Pending(jobs') = IF job.state = "pending" THEN Pending(jobs) \cup {i}
                             ELSE Pending(jobs) \ {i}
<1>1. jobs' \in Table /\ jobs'[i] = job /\ \A j \in Ids \ {i} : jobs'[j] = jobs[j]
  BY DEF IInv, TypeOK, Table
<1> QED
  BY <1>1 DEF Pending

(* A job changes and is sound, is listed if it is pending, has the result
   that is kept for it, and nobody believes more than it says. *)
LEMMA ChangeKeeps ==
  ASSUME IInv,
         NEW i \in Ids, NEW job \in Job, jobs' = [jobs EXCEPT ![i] = job],
         minted' \subseteq Ids, minted \subseteq minted',
         i \in minted', job.state # "none",
         job.state = "leased" => job.attempts > 0,
         job.state # "leased" => job.expires = 0,
         job.attempts <= job.limit,
         results' \in Found, results'[i] = job.result,
         \A j \in Ids \ {i} : results'[j] = results[j],
         results'[i] # Absent <=> job.state = "completed",
         belief' \in [Workers -> [Ids -> Nat]],
         \A w \in Workers, j \in Ids \ {i} : belief'[w][j] = belief[w][j],
         \A w \in Workers : belief'[w][i] > 0 => job.owner = w /\ job.expires >= belief'[w][i],
         waiting' \in Seq(Ids), Lists(waiting', Pending(jobs')),
         leasing' \in [worker : Workers \cup {Absent}, left : Nat],
         LeasingSound',
         UNCHANGED <<saved, resumes>>
  PROVE  IInv'
<1>1. jobs' \in Table /\ jobs'[i] = job /\ \A j \in Ids \ {i} : jobs'[j] = jobs[j]
  BY JobChanges
<1>2. TypeOK'
  <2>1. \A j \in Ids : jobs'[j].attempts <= jobs'[j].limit
    BY <1>1 DEF IInv, TypeOK
  <2> QED
    BY <1>1, <2>1 DEF IInv, TypeOK
<1>3. ListedOnce'
  BY DEF ListedOnce
<1>4. ResultsAgree'
  <2>1. ASSUME NEW j \in Ids
        PROVE  results'[j] = jobs'[j].result /\ (results'[j] # Absent <=> jobs'[j].state = "completed")
    <3>1. CASE j = i
      BY <1>1, <3>1
    <3>2. CASE j # i
      BY <1>1, <3>2 DEF IInv, ResultsAgree, Consistent
    <3> QED
      BY <3>1, <3>2
  <2>2. Consistent(jobs', results')
    BY <2>1 DEF Consistent
  <2>3. Consistent(saved.jobs, saved.results)
    BY DEF IInv, ResultsAgree
  <2> QED
    BY <2>2, <2>3 DEF ResultsAgree
<1>5. OneHolder'
  <2>1. ASSUME NEW w \in Workers, NEW j \in Ids, belief'[w][j] > 0
        PROVE  jobs'[j].owner = w /\ jobs'[j].expires >= belief'[w][j]
    <3>1. CASE j = i
      BY <1>1, <2>1, <3>1
    <3>2. CASE j # i
      <4>1. jobs'[j] = jobs[j] /\ belief'[w][j] = belief[w][j]
        BY <1>1, <3>2
      <4> QED
        BY <2>1, <4>1 DEF IInv, OneHolder
    <3> QED
      BY <3>1, <3>2
  <2> QED
    BY <2>1 DEF OneHolder
<1>6. Sound(jobs)'
  BY <1>1 DEF IInv, Sound
<1>7. Sound(saved.jobs)'
  BY DEF IInv, Sound
<1> QED
  BY <1>2, <1>3, <1>4, <1>5, <1>6, <1>7 DEF IInv

(* Nobody believes to hold what is not leased, or what has expired. *)
LEMMA NobodyBelieves ==
  ASSUME IInv, NEW i \in Ids, jobs[i].expires = 0 \/ jobs[i].state # "leased",
         NEW w \in Workers
  PROVE  belief[w][i] = 0
<1>1. jobs[i].expires = 0 /\ belief[w][i] \in Nat
  BY DEF IInv, Sound, TypeOK
<1> QED
  BY <1>1 DEF IInv, OneHolder

(* A job of the table has its type. *)
LEMMA JobType ==
  ASSUME IInv, NEW i \in Ids
  PROVE  /\ jobs[i] \in Job
         /\ jobs[i].attempts \in Nat /\ jobs[i].limit \in Nat /\ jobs[i].expires \in Nat
         /\ jobs[i].attempts <= jobs[i].limit
         /\ jobs[i].state # "none" => i \in minted
         /\ results[i] = jobs[i].result
         /\ results[i] # Absent <=> jobs[i].state = "completed"
  BY DEF IInv, TypeOK, Table, Job, Sound, ResultsAgree, Consistent

(* A job is enqueued. *)
LEMMA EnqueueKeeps ==
  ASSUME IInv, NEW k \in Keys, NEW n \in Limits, Enqueue(k, n)
  PROVE  IInv'
<1> DEFINE i == Fresh
           job == [NoJob EXCEPT !.state = "pending", !.key = k, !.limit = n]
<1>1. i \in Ids /\ i \notin minted
  BY DEF Fresh, Enqueue, IInv, TypeOK
<1>2. /\ job \in Job /\ job.state = "pending" /\ job.expires = 0 /\ job.attempts = 0
      /\ job.limit = n /\ n \in Nat /\ job.result = Absent
  BY DEF NoJob, Job, States
<1>3. /\ jobs' = [jobs EXCEPT ![i] = job] /\ waiting' = Append(waiting, i)
      /\ minted' = minted \cup {i} /\ leasing = Idle
      /\ UNCHANGED <<results, leasing, belief, saved, resumes>>
  BY DEF Enqueue
<1>4. jobs[i].state = "none"
  BY <1>1 DEF IInv, Sound
<1> HIDE DEF i, job
<1>5. /\ waiting' \in Seq(Ids) /\ Lists(waiting', Pending(jobs'))
  <2>1. Pending(jobs) \subseteq Ids /\ i \notin Pending(jobs)
    BY <1>4 DEF Pending
  <2>2. Pending(jobs') = Pending(jobs) \cup {i}
    BY <1>1, <1>2, <1>3, JobChanges
  <2>3. waiting \in Seq(Ids) /\ Lists(waiting, Pending(jobs))
    BY DEF IInv, TypeOK, ListedOnce
  <2>4. /\ Append(waiting, i) \in Seq(Ids)
        /\ Lists(Append(waiting, i), Pending(jobs) \cup {i})
    BY <1>1, <2>1, <2>3, ListsAppend
  <2> QED
    BY <1>3, <2>2, <2>4
<1>6. \A w \in Workers : belief[w][i] = 0
  BY <1>1, <1>4, NobodyBelieves
<1>7. results[i] = Absent
  BY <1>1, <1>4, JobType
<1>8. LeasingSound'
  BY <1>3, <1>5 DEF LeasingSound
<1>9. /\ results' \in Found /\ belief' \in [Workers -> [Ids -> Nat]]
      /\ leasing' \in [worker : Workers \cup {Absent}, left : Nat]
      /\ minted' \subseteq Ids /\ minted \subseteq minted' /\ i \in minted'
  BY <1>1, <1>3 DEF IInv, TypeOK
<1>10. /\ results'[i] = job.result
       /\ results'[i] # Absent <=> job.state = "completed"
       /\ \A j \in Ids \ {i} : results'[j] = results[j]
  BY <1>2, <1>3, <1>7
<1>11. /\ \A w \in Workers, j \in Ids \ {i} : belief'[w][j] = belief[w][j]
       /\ \A w \in Workers : belief'[w][i] > 0 =>
            job.owner = w /\ job.expires >= belief'[w][i]
  BY <1>3, <1>6
<1>12. /\ job.state # "none" /\ job.state # "leased"
       /\ job.attempts <= job.limit /\ UNCHANGED <<saved, resumes>>
  BY <1>2, <1>3
<1> QED
  BY <1>1, <1>2, <1>3, <1>5, <1>8, <1>9, <1>10, <1>11, <1>12, ChangeKeeps

(* A call that only moves leaseNext on: what is listed stays listed. *)
LEMMA WalkKeeps ==
  ASSUME IInv, waiting' \in Seq(Ids), Lists(waiting', Pending(jobs)),
         leasing' \in [worker : Workers \cup {Absent}, left : Nat], LeasingSound',
         UNCHANGED <<jobs, results, belief, saved, minted, resumes>>
  PROVE  IInv'
<1>1. TypeOK'
  BY DEF IInv, TypeOK
<1>2. ListedOnce'
  BY DEF ListedOnce, Pending
<1>3. ResultsAgree' /\ OneHolder'
  BY DEF IInv, ResultsAgree, OneHolder, Consistent
<1>4. Sound(jobs)' /\ Sound(saved.jobs)'
  BY DEF IInv, Sound
<1> QED
  BY <1>1, <1>2, <1>3, <1>4 DEF IInv

(* The list, and what leaseNext has left of it, while it scans. *)
LEMMA Scanning ==
  ASSUME IInv, leasing.left > 0
  PROVE  /\ waiting # <<>> /\ Head(waiting) \in Ids /\ Head(waiting) \in Pending(jobs)
         /\ Tail(waiting) \in Seq(Ids) /\ Len(Tail(waiting)) = Len(waiting) - 1
         /\ Lists(Tail(waiting), Pending(jobs) \ {Head(waiting)})
         /\ Pending(jobs) \in SUBSET Ids
         /\ leasing.worker \in Workers
         /\ leasing.left \in Nat /\ Len(waiting) \in Nat
         /\ leasing = [worker |-> leasing.worker, left |-> leasing.left]
<1>1. /\ waiting \in Seq(Ids) /\ Lists(waiting, Pending(jobs)) /\ Pending(jobs) \in SUBSET Ids
      /\ leasing.worker \in Workers /\ leasing.left \in Nat /\ leasing.left <= Len(waiting)
      /\ leasing = [worker |-> leasing.worker, left |-> leasing.left]
  BY DEF IInv, TypeOK, ListedOnce, LeasingSound, Pending
<1>2. waiting # <<>> /\ Len(waiting) \in Nat
  BY <1>1
<1> QED
  BY <1>1, <1>2, ListsTail

(* leaseNext is called. *)
LEMMA LeaseCallKeeps ==
  ASSUME IInv, NEW w \in Workers, LeaseCall(w)
  PROVE  IInv'
<1>1. /\ waiting \in Seq(Ids) /\ Lists(waiting, Pending(jobs)) /\ Len(waiting) \in Nat
  BY DEF IInv, TypeOK, ListedOnce
<1>2. /\ leasing' = [worker |-> w, left |-> Len(waiting)] /\ waiting' = waiting
      /\ UNCHANGED <<jobs, results, belief, saved, minted, resumes>>
  BY DEF LeaseCall
<1>3. LeasingSound'
  BY <1>1, <1>2 DEF LeasingSound
<1> QED
  BY <1>1, <1>2, <1>3, WalkKeeps

(* A job that is not due goes to the end of the list. *)
LEMMA SkipKeeps ==
  ASSUME IInv, Skip
  PROVE  IInv'
<1> DEFINE i == Head(waiting)
<1>1. /\ i \in Ids /\ i \in Pending(jobs) /\ waiting # <<>>
      /\ Tail(waiting) \in Seq(Ids) /\ Len(Tail(waiting)) = Len(waiting) - 1
      /\ Lists(Tail(waiting), Pending(jobs) \ {i})
      /\ Pending(jobs) \in SUBSET Ids /\ leasing.worker \in Workers
      /\ leasing.left \in Nat /\ leasing.left > 0 /\ Len(waiting) \in Nat
      /\ leasing = [worker |-> leasing.worker, left |-> leasing.left]
  BY Scanning DEF Skip
<1>2. /\ waiting' = Append(Tail(waiting), i)
      /\ leasing' = [leasing EXCEPT !.left = @ - 1]
      /\ UNCHANGED <<jobs, results, belief, saved, minted, resumes>>
  BY <1>1 DEF Skip, Pending
<1> HIDE DEF i
<1>3. /\ waiting' \in Seq(Ids) /\ Len(waiting') = Len(Tail(waiting)) + 1
      /\ Lists(waiting', (Pending(jobs) \ {i}) \cup {i})
  BY <1>1, <1>2, ListsAppend
<1>4. (Pending(jobs) \ {i}) \cup {i} = Pending(jobs)
  BY <1>1
<1>5. leasing' = [worker |-> leasing.worker, left |-> leasing.left - 1]
  BY <1>1, <1>2
<1>6. leasing' \in [worker : Workers \cup {Absent}, left : Nat] /\ LeasingSound'
  <2>1. leasing.left <= Len(waiting)
    BY DEF IInv, LeasingSound
  <2>2. leasing.left - 1 \in Nat /\ leasing.left - 1 <= Len(waiting')
    BY <1>1, <1>3, <2>1
  <2> QED
    BY <1>1, <1>5, <2>2 DEF LeasingSound
<1>7. Lists(waiting', Pending(jobs))
  BY <1>3, <1>4
<1> QED
  BY <1>2, <1>3, <1>6, <1>7, WalkKeeps

(* leaseNext finds nothing. *)
LEMMA LeaseNothingKeeps ==
  ASSUME IInv, LeaseNothing
  PROVE  IInv'
<1>1. /\ waiting \in Seq(Ids) /\ Lists(waiting, Pending(jobs)) /\ Len(waiting) \in Nat
  BY DEF IInv, TypeOK, ListedOnce
<1>2. /\ leasing' = [worker |-> Absent, left |-> 0] /\ waiting' = waiting
      /\ UNCHANGED <<jobs, results, belief, saved, minted, resumes>>
  BY DEF LeaseNothing
<1>3. LeasingSound'
  BY <1>1, <1>2 DEF LeasingSound
<1> QED
  BY <1>1, <1>2, <1>3, WalkKeeps

(* A job that leaseNext has taken from the list is leased or buried. *)
LEMMA TakeKeeps ==
  ASSUME IInv, NEW i \in Ids, Take(i), leasing.worker \in Workers \cup {Absent},
         jobs[i].state \in {"pending", "leased"},
         \A w \in Workers : belief[w][i] = 0,
         waiting' \in Seq(Ids), Lists(waiting', Pending(jobs) \ {i}),
         leasing.worker # Absent
  PROVE  IInv'
<1>0. /\ jobs[i] \in Job /\ jobs[i].attempts \in Nat /\ jobs[i].limit \in Nat
      /\ jobs[i].attempts <= jobs[i].limit /\ i \in minted
      /\ results[i] = jobs[i].result /\ results[i] = Absent
  BY JobType
<1>l. Len(waiting') \in Nat
  OBVIOUS
<1>t. results \in Found /\ minted \subseteq Ids /\ belief \in [Workers -> [Ids -> Nat]]
      /\ leasing \in [worker : Workers \cup {Absent}, left : Nat]
  BY DEF IInv, TypeOK
<1>1. CASE Exhausted(i)
  <2> DEFINE job == [Unleased(jobs[i]) EXCEPT !.state = "dead_letter"]
  <2>1. /\ jobs' = [jobs EXCEPT ![i] = job]
        /\ leasing' = [leasing EXCEPT !.left = Len(waiting')]
        /\ UNCHANGED <<results, belief, saved, minted, resumes>>
    BY <1>1 DEF Take, Bury
  <2>2. /\ job \in Job /\ job.state = "dead_letter" /\ job.expires = 0
        /\ job.attempts = jobs[i].attempts /\ job.limit = jobs[i].limit
        /\ job.result = jobs[i].result
    <3>1. "dead_letter" \in States /\ job = [Unleased(jobs[i]) EXCEPT !.state = "dead_letter"]
      BY DEF States
    <3> HIDE DEF job
    <3> QED
      BY <1>0, <3>1 DEF Unleased, Job
  <2> HIDE DEF job
  <2>3. Lists(waiting', Pending(jobs'))
    BY <2>1, <2>2, JobChanges
  <2>4. leasing' = [worker |-> leasing.worker, left |-> Len(waiting')]
    BY <1>t, <2>1
  <2>5. leasing' \in [worker : Workers \cup {Absent}, left : Nat] /\ LeasingSound'
    BY <1>l, <2>4 DEF LeasingSound
  <2>6. /\ results' \in Found /\ belief' \in [Workers -> [Ids -> Nat]]
        /\ minted' \subseteq Ids /\ minted \subseteq minted' /\ i \in minted'
        /\ results'[i] = job.result
        /\ (results'[i] # Absent <=> job.state = "completed")
        /\ \A j \in Ids \ {i} : results'[j] = results[j]
        /\ job.attempts <= job.limit
    BY <1>0, <1>t, <2>1, <2>2
  <2>8. /\ \A w \in Workers, j \in Ids \ {i} : belief'[w][j] = belief[w][j]
        /\ \A w \in Workers : belief'[w][i] > 0 =>
             job.owner = w /\ job.expires >= belief'[w][i]
    BY <2>1
  <2>7. UNCHANGED <<saved, resumes>>
    BY <2>1
  <2> QED
    BY <2>1, <2>2, <2>3, <2>5, <2>6, <2>7, <2>8, ChangeKeeps
<1>2. CASE ~ Exhausted(i)
  <2> DEFINE u   == leasing.worker
             n   == jobs[i].attempts + 1
             job == [jobs[i] EXCEPT !.state = "leased", !.owner = u, !.expires = Lease,
                                    !.attempts = n]
  <2>1. /\ jobs' = [jobs EXCEPT ![i] = job]
        /\ belief' = [belief EXCEPT ![u][i] = Lease]
        /\ leasing' = [worker |-> Absent, left |-> 0]
        /\ UNCHANGED <<results, saved, minted, resumes>>
    BY <1>2, <1>0 DEF Take, Grant, IInv, TypeOK, Table
  <2>2. /\ job \in Job /\ job.state = "leased" /\ job.owner = u /\ job.expires = Lease
        /\ job.attempts = jobs[i].attempts + 1 /\ job.limit = jobs[i].limit
        /\ job.result = jobs[i].result
    <3>1. Lease \in Nat /\ n \in Nat
      BY <1>0
    <3>3. job = [jobs[i] EXCEPT !.state = "leased", !.owner = u, !.expires = Lease,
                                !.attempts = n]
      OBVIOUS
    <3>4. u \in Workers \cup {Absent}
      OBVIOUS
    <3> HIDE DEF n, job, u
    <3>2. /\ job \in Job /\ job.state = "leased" /\ job.owner = u /\ job.expires = Lease
          /\ job.attempts = n /\ job.limit = jobs[i].limit /\ job.result = jobs[i].result
      BY <1>0, <3>1, <3>3, <3>4 DEF Job, States
    <3> QED
      BY <3>2 DEF n
  <2> HIDE DEF job
  <2>3. Lists(waiting', Pending(jobs'))
    BY <2>1, <2>2, JobChanges
  <2>4. leasing' \in [worker : Workers \cup {Absent}, left : Nat] /\ LeasingSound'
    BY <1>l, <2>1 DEF LeasingSound
  <2>5. /\ results' \in Found
        /\ minted' \subseteq Ids /\ minted \subseteq minted' /\ i \in minted'
        /\ results'[i] = job.result
        /\ (results'[i] # Absent <=> job.state = "completed")
        /\ \A j \in Ids \ {i} : results'[j] = results[j]
        /\ UNCHANGED <<saved, resumes>>
    BY <1>0, <1>t, <2>1, <2>2
  <2>6. /\ belief' \in [Workers -> [Ids -> Nat]]
        /\ \A w \in Workers, j \in Ids \ {i} : belief'[w][j] = belief[w][j]
        /\ \A w \in Workers : belief'[w][i] = IF w = u THEN Lease ELSE 0
    BY <1>t, <2>1
  <2>7. \A w \in Workers : belief'[w][i] > 0 =>
          job.owner = w /\ job.expires >= belief'[w][i]
    BY <2>2, <2>6
  <2>8. job.attempts <= job.limit /\ job.attempts > 0
    BY <1>0, <1>2, <2>2 DEF Exhausted
  <2> QED
    BY <2>1, <2>2, <2>3, <2>4, <2>5, <2>6, <2>7, <2>8, ChangeKeeps
<1> QED
  BY <1>1, <1>2

(* leaseNext takes a pending job that is due. *)
LEMMA TakePendingKeeps ==
  ASSUME IInv, TakePending
  PROVE  IInv'
<1> DEFINE i == Head(waiting)
<1>1. /\ i \in Ids /\ i \in Pending(jobs) /\ leasing.worker \in Workers
      /\ Tail(waiting) \in Seq(Ids) /\ Lists(Tail(waiting), Pending(jobs) \ {i})
  BY Scanning DEF TakePending
<1>2. waiting' = Tail(waiting) /\ Take(i)
  BY DEF TakePending
<1> HIDE DEF i
<1>3. jobs[i].state = "pending"
  BY <1>1 DEF Pending
<1>4. \A w \in Workers : belief[w][i] = 0
  BY <1>1, <1>3, NobodyBelieves
<1> QED
  BY <1>1, <1>2, <1>3, <1>4, TakeKeeps

(* leaseNext takes a lease that has expired. *)
LEMMA TakeExpiredKeeps ==
  ASSUME IInv, NEW i \in Ids, TakeExpired(i)
  PROVE  IInv'
<1>1. /\ jobs[i].state = "leased" /\ jobs[i].expires = 0 /\ leasing.worker # Absent
      /\ waiting' = waiting /\ Take(i)
  BY DEF TakeExpired, Expired
<1>2. /\ waiting \in Seq(Ids) /\ Lists(waiting, Pending(jobs))
      /\ leasing.worker \in Workers \cup {Absent}
  BY DEF IInv, TypeOK, ListedOnce
<1>3. Pending(jobs) \ {i} = Pending(jobs)
  BY <1>1 DEF Pending
<1>4. \A w \in Workers : belief[w][i] = 0
  BY <1>1, NobodyBelieves
<1>5. Lists(waiting', Pending(jobs) \ {i})
  BY <1>1, <1>2, <1>3
<1> QED
  BY <1>1, <1>2, <1>4, <1>5, TakeKeeps

(* Who holds a lease is the only one who believes so. *)
LEMMA Holding ==
  ASSUME IInv, NEW i \in Ids, NEW w \in Workers, Holds(i, w)
  PROVE  /\ jobs[i] \in Job /\ jobs[i].state = "leased" /\ jobs[i].owner = w
         /\ jobs[i].attempts > 0 /\ jobs[i].attempts \in Nat /\ jobs[i].limit \in Nat
         /\ jobs[i].attempts <= jobs[i].limit
         /\ i \in minted /\ minted \subseteq Ids
         /\ results[i] = jobs[i].result /\ results[i] = Absent /\ results \in Found
         /\ i \notin Pending(jobs) /\ Pending(jobs) \in SUBSET Ids
         /\ waiting \in Seq(Ids) /\ Lists(waiting, Pending(jobs))
         /\ leasing = Idle
         /\ belief \in [Workers -> [Ids -> Nat]]
         /\ \A v \in Workers \ {w} : belief[v][i] = 0
<1>1. jobs[i].state = "leased" /\ jobs[i].owner = w /\ leasing = Idle
  BY DEF Holds
<1>2. /\ i \notin Pending(jobs) /\ Pending(jobs) \in SUBSET Ids
      /\ waiting \in Seq(Ids) /\ Lists(waiting, Pending(jobs))
      /\ results \in Found /\ belief \in [Workers -> [Ids -> Nat]]
      /\ minted \subseteq Ids /\ jobs[i].attempts > 0
  BY <1>1 DEF IInv, TypeOK, ListedOnce, Pending, Sound
<1>3. ASSUME NEW v \in Workers \ {w}  PROVE belief[v][i] = 0
  <2>1. belief[v][i] \in Nat /\ ~ (belief[v][i] > 0)
    BY <1>1, <1>2 DEF IInv, OneHolder
  <2> QED
    BY <2>1
<1> QED
  BY <1>1, <1>2, <1>3, JobType

(* A lease is renewed. *)
LEMMA HeartbeatKeeps ==
  ASSUME IInv, NEW i \in Ids, NEW w \in Workers, Heartbeat(i, w)
  PROVE  IInv'
<1> DEFINE job == [jobs[i] EXCEPT !.expires = Lease]
<1>1. /\ jobs[i] \in Job /\ jobs[i].state = "leased" /\ jobs[i].owner = w
      /\ jobs[i].attempts > 0 /\ jobs[i].attempts <= jobs[i].limit
      /\ i \in minted /\ minted \subseteq Ids
      /\ results[i] = jobs[i].result /\ results[i] = Absent /\ results \in Found
      /\ i \notin Pending(jobs) /\ waiting \in Seq(Ids) /\ Lists(waiting, Pending(jobs))
      /\ leasing = Idle /\ belief \in [Workers -> [Ids -> Nat]]
      /\ \A v \in Workers \ {w} : belief[v][i] = 0
  BY Holding DEF Heartbeat
<1>2. /\ jobs' = [jobs EXCEPT ![i] = job]
      /\ belief' = [belief EXCEPT ![w][i] = Lease]
      /\ UNCHANGED <<results, waiting, leasing, saved, minted, resumes>>
  BY DEF Heartbeat
<1>3. /\ job \in Job /\ job.state = "leased" /\ job.owner = w /\ job.expires = Lease
      /\ job.attempts = jobs[i].attempts /\ job.limit = jobs[i].limit
      /\ job.result = jobs[i].result
  BY <1>1 DEF Job
<1> HIDE DEF job
<1>4. waiting' \in Seq(Ids) /\ Lists(waiting', Pending(jobs'))
  <2>0. Pending(jobs) \ {i} = Pending(jobs)
    BY <1>1
  <2>1. Pending(jobs') = Pending(jobs)
    BY <1>1, <1>2, <1>3, <2>0, JobChanges
  <2> QED
    BY <1>1, <1>2, <2>1
<1>5. /\ belief' \in [Workers -> [Ids -> Nat]]
      /\ \A v \in Workers, j \in Ids \ {i} : belief'[v][j] = belief[v][j]
      /\ \A v \in Workers : belief'[v][i] = IF v = w THEN Lease ELSE 0
  BY <1>1, <1>2
<1>6. \A v \in Workers : belief'[v][i] > 0 => job.owner = v /\ job.expires >= belief'[v][i]
  BY <1>3, <1>5
<1>7. leasing' \in [worker : Workers \cup {Absent}, left : Nat] /\ LeasingSound'
  BY <1>1, <1>2, <1>4 DEF LeasingSound
<1>8. /\ results' \in Found /\ results'[i] = job.result
      /\ (results'[i] # Absent <=> job.state = "completed")
      /\ \A j \in Ids \ {i} : results'[j] = results[j]
      /\ job.attempts > 0 /\ job.attempts <= job.limit
      /\ minted' \subseteq Ids /\ minted \subseteq minted' /\ i \in minted'
  BY <1>1, <1>2, <1>3
<1> QED
  BY <1>2, <1>3, <1>4, <1>5, <1>6, <1>7, <1>8, ChangeKeeps

(* A job is completed. *)
LEMMA CompleteKeeps ==
  ASSUME IInv, NEW i \in Ids, NEW w \in Workers, NEW r \in Results, Complete(i, w, r)
  PROVE  IInv'
<1> DEFINE job == [Unleased(jobs[i]) EXCEPT !.state = "completed", !.result = r]
<1>1. /\ jobs[i] \in Job
      /\ jobs[i].attempts > 0 /\ jobs[i].attempts <= jobs[i].limit
      /\ i \in minted /\ minted \subseteq Ids /\ results \in Found
      /\ i \notin Pending(jobs) /\ waiting \in Seq(Ids) /\ Lists(waiting, Pending(jobs))
      /\ leasing = Idle /\ belief \in [Workers -> [Ids -> Nat]]
      /\ \A v \in Workers \ {w} : belief[v][i] = 0
  BY Holding DEF Complete
<1>2. /\ jobs' = [jobs EXCEPT ![i] = job]
      /\ results' = [results EXCEPT ![i] = r]
      /\ belief' = [belief EXCEPT ![w][i] = 0]
      /\ UNCHANGED <<waiting, leasing, saved, minted, resumes>>
  BY DEF Complete
<1>3. /\ job \in Job /\ job.state = "completed" /\ job.expires = 0
      /\ job.attempts = jobs[i].attempts /\ job.limit = jobs[i].limit
      /\ job.result = r
  BY <1>1 DEF Job, States, Unleased
<1> HIDE DEF job
<1>4. waiting' \in Seq(Ids) /\ Lists(waiting', Pending(jobs'))
  <2>0. Pending(jobs) \ {i} = Pending(jobs)
    BY <1>1
  <2>1. Pending(jobs') = Pending(jobs)
    BY <1>1, <1>2, <1>3, <2>0, JobChanges
  <2> QED
    BY <1>1, <1>2, <2>1
<1>5. /\ belief' \in [Workers -> [Ids -> Nat]]
      /\ \A v \in Workers, j \in Ids \ {i} : belief'[v][j] = belief[v][j]
      /\ \A v \in Workers : belief'[v][i] = 0
  BY <1>1, <1>2
<1>7. leasing' \in [worker : Workers \cup {Absent}, left : Nat] /\ LeasingSound'
  BY <1>1, <1>2, <1>4 DEF LeasingSound
<1>8. /\ results' \in Found /\ results'[i] = r
      /\ \A j \in Ids \ {i} : results'[j] = results[j]
  BY <1>1, <1>2 DEF Found
<1>9. /\ results'[i] # Absent
      /\ job.attempts > 0 /\ job.attempts <= job.limit
      /\ minted' \subseteq Ids /\ minted \subseteq minted' /\ i \in minted'
  BY <1>1, <1>2, <1>3, <1>8
<1>10. \A v \in Workers : ~ (belief'[v][i] > 0)
  BY <1>5
<1> QED
  BY <1>2, <1>3, <1>4, <1>5, <1>7, <1>8, <1>9, <1>10, ChangeKeeps

(* A job fails: it waits, or it is dead. *)
LEMMA FailKeeps ==
  ASSUME IInv, NEW i \in Ids, NEW w \in Workers, NEW d \in Delays, Fail(i, w, d)
  PROVE  IInv'
<1>1. /\ jobs[i] \in Job
      /\ jobs[i].attempts > 0 /\ jobs[i].attempts <= jobs[i].limit
      /\ i \in minted /\ minted \subseteq Ids
      /\ results[i] = jobs[i].result /\ results[i] = Absent /\ results \in Found
      /\ i \notin Pending(jobs) /\ Pending(jobs) \in SUBSET Ids
      /\ waiting \in Seq(Ids) /\ Lists(waiting, Pending(jobs))
      /\ leasing = Idle /\ belief \in [Workers -> [Ids -> Nat]]
      /\ \A v \in Workers \ {w} : belief[v][i] = 0
  BY Holding DEF Fail
<1>2. /\ belief' = [belief EXCEPT ![w][i] = 0]
      /\ UNCHANGED <<results, leasing, saved, minted, resumes>>
  BY DEF Fail
<1>3. PICK job \in Job :
        /\ jobs' = [jobs EXCEPT ![i] = job]
        /\ job.expires = 0 /\ job.attempts = jobs[i].attempts
        /\ job.limit = jobs[i].limit /\ job.result = jobs[i].result
        /\ \/ job.state = "dead_letter" /\ waiting' = waiting
           \/ job.state = "pending" /\ waiting' = Append(waiting, i)
  <2>1. CASE Exhausted(i)
    <3> DEFINE job == [Unleased(jobs[i]) EXCEPT !.state = "dead_letter"]
    <3>1. jobs' = [jobs EXCEPT ![i] = job] /\ waiting' = waiting
      BY <2>1 DEF Fail
    <3>2. /\ job \in Job /\ job.state = "dead_letter" /\ job.expires = 0
          /\ job.attempts = jobs[i].attempts /\ job.limit = jobs[i].limit
          /\ job.result = jobs[i].result
      BY <1>1 DEF Job, States, Unleased
    <3> HIDE DEF job
    <3> QED
      BY <3>1, <3>2
  <2>2. CASE ~ Exhausted(i)
    <3> DEFINE job == [Unleased(jobs[i]) EXCEPT !.state = "pending", !.retry = d]
    <3>1. jobs' = [jobs EXCEPT ![i] = job] /\ waiting' = Append(waiting, i)
      BY <2>2 DEF Fail
    <3>2. /\ job \in Job /\ job.state = "pending" /\ job.expires = 0
          /\ job.attempts = jobs[i].attempts /\ job.limit = jobs[i].limit
          /\ job.result = jobs[i].result
      BY <1>1 DEF Job, States, Unleased
    <3> HIDE DEF job
    <3> QED
      BY <3>1, <3>2
  <2> QED
    BY <2>1, <2>2
<1>4. waiting' \in Seq(Ids) /\ Lists(waiting', Pending(jobs'))
  <2>1. CASE job.state = "dead_letter" /\ waiting' = waiting
    <3>0. Pending(jobs) \ {i} = Pending(jobs)
      BY <1>1
    <3>1. Pending(jobs') = Pending(jobs)
      BY <1>1, <1>3, <2>1, <3>0, JobChanges
    <3> QED
      BY <1>1, <2>1, <3>1
  <2>2. CASE job.state = "pending" /\ waiting' = Append(waiting, i)
    <3>1. Pending(jobs') = Pending(jobs) \cup {i}
      BY <1>1, <1>3, <2>2, JobChanges
    <3>2. /\ Append(waiting, i) \in Seq(Ids)
          /\ Lists(Append(waiting, i), Pending(jobs) \cup {i})
      BY <1>1, ListsAppend
    <3> QED
      BY <2>2, <3>1, <3>2
  <2> QED
    BY <1>3, <2>1, <2>2
<1>5. /\ belief' \in [Workers -> [Ids -> Nat]]
      /\ \A v \in Workers, j \in Ids \ {i} : belief'[v][j] = belief[v][j]
      /\ \A v \in Workers : belief'[v][i] = 0
  BY <1>1, <1>2
<1>6. \A v \in Workers : ~ (belief'[v][i] > 0)
  BY <1>5
<1>7. leasing' \in [worker : Workers \cup {Absent}, left : Nat] /\ LeasingSound'
  BY <1>1, <1>2, <1>4 DEF LeasingSound
<1>8. /\ results' \in Found /\ results'[i] = job.result
      /\ (results'[i] # Absent <=> job.state = "completed")
      /\ \A j \in Ids \ {i} : results'[j] = results[j]
      /\ job.attempts > 0 /\ job.attempts <= job.limit
      /\ minted' \subseteq Ids /\ minted \subseteq minted' /\ i \in minted'
      /\ job.state # "leased" /\ job.state # "none"
  BY <1>1, <1>2, <1>3
<1> QED
  BY <1>2, <1>3, <1>4, <1>5, <1>6, <1>7, <1>8, ChangeKeeps

(* Many jobs change, or none: what a restart, a shutdown and the passing of
   time have to leave behind. *)
Rebuilt ==
  /\ jobs' \in Table /\ results' \in Found
  /\ waiting' \in Seq(Ids) /\ Lists(waiting', Pending(jobs'))
  /\ leasing' = [worker |-> Absent, left |-> 0]
  /\ belief' \in [Workers -> [Ids -> Nat]]
  /\ saved' \in [jobs : Table, results : Found]
  /\ minted' = minted /\ resumes' \in 0 .. MaxResumes
  /\ Consistent(jobs', results') /\ Consistent(saved'.jobs, saved'.results)
  /\ \A w \in Workers, i \in Ids : belief'[w][i] > 0 =>
       jobs'[i].owner = w /\ jobs'[i].expires >= belief'[w][i]
  /\ Sound(jobs') /\ Sound(saved'.jobs)

LEMMA RebuiltKeeps ==
  ASSUME IInv, Rebuilt
  PROVE  IInv'
<1> USE DEF Rebuilt
<1>1. \A i \in Ids : jobs'[i].attempts <= jobs'[i].limit
  BY DEF Sound
<1>2. TypeOK'
  BY <1>1 DEF IInv, TypeOK
<1>3. ListedOnce'
  BY DEF ListedOnce
<1>4. ResultsAgree'
  BY DEF ResultsAgree
<1>5. OneHolder'
  BY DEF OneHolder
<1>6. Sound(jobs)'
  BY DEF Sound
<1>7. Sound(saved.jobs)'
  BY DEF Sound
<1>8. LeasingSound'
  BY DEF LeasingSound
<1> QED
  BY <1>2, <1>3, <1>4, <1>5, <1>6, <1>7, <1>8 DEF IInv

(* The parts of IInv, apart. *)
LEMMA Parts ==
  ASSUME IInv
  PROVE  /\ jobs \in Table /\ results \in Found
         /\ waiting \in Seq(Ids) /\ Lists(waiting, Pending(jobs))
         /\ Pending(jobs) \in SUBSET Ids
         /\ belief \in [Workers -> [Ids -> Nat]]
         /\ saved \in [jobs : Table, results : Found]
         /\ minted \subseteq Ids /\ resumes \in 0 .. MaxResumes
         /\ Consistent(jobs, results) /\ Consistent(saved.jobs, saved.results)
         /\ Sound(jobs) /\ Sound(saved.jobs)
         /\ \A w \in Workers, i \in Ids : belief[w][i] > 0 =>
              jobs[i].owner = w /\ jobs[i].expires >= belief[w][i]
  BY DEF IInv, TypeOK, ListedOnce, ResultsAgree, OneHolder, Pending

(* The snapshot is taken. *)
LEMMA SnapshotKeeps ==
  ASSUME IInv, Snapshot
  PROVE  IInv'
<1>1. /\ saved' = [jobs |-> jobs, results |-> results] /\ leasing' = [worker |-> Absent, left |-> 0]
      /\ UNCHANGED <<jobs, results, waiting, belief, minted, resumes>>
  BY DEF Snapshot
<1>2. Sound(saved'.jobs) /\ Sound(jobs')
  BY <1>1, Parts DEF Sound
<1>3. Consistent(jobs', results') /\ Consistent(saved'.jobs, saved'.results)
  BY <1>1, Parts
<1>4. Rebuilt
  BY <1>1, <1>2, <1>3, Parts DEF Rebuilt
<1> QED
  BY <1>4, RebuiltKeeps

(* The queue is resumed. *)
LEMMA ResumeKeeps ==
  ASSUME IInv, Resume
  PROVE  IInv'
<1>1. /\ jobs' = saved.jobs /\ results' = saved.results
      /\ waiting' \in Listings(Pending(saved.jobs)) /\ belief' = NoBelief
      /\ leasing' = [worker |-> Absent, left |-> 0]
      /\ UNCHANGED <<saved, minted>> /\ resumes' \in 0 .. MaxResumes
  BY Parts DEF Resume
<1>2. waiting' \in Seq(Ids) /\ Lists(waiting', Pending(jobs'))
  <2>1. Pending(saved.jobs) \in SUBSET Ids
    BY DEF Pending
  <2> QED
    BY <1>1, <2>1, ListingsAreLists
<1>3. /\ belief' \in [Workers -> [Ids -> Nat]]
      /\ \A w \in Workers, i \in Ids : ~ (belief'[w][i] > 0)
  BY <1>1 DEF NoBelief
<1>4. Sound(jobs') /\ Sound(saved'.jobs)
  BY <1>1, Parts DEF Sound
<1>5. Consistent(jobs', results') /\ Consistent(saved'.jobs, saved'.results)
  BY <1>1, Parts
<1>6. jobs' \in Table /\ results' \in Found /\ saved' \in [jobs : Table, results : Found]
  BY <1>1, Parts
<1>7. Rebuilt
  BY <1>1, <1>2, <1>3, <1>4, <1>5, <1>6 DEF Rebuilt
<1> QED
  BY <1>7, RebuiltKeeps

(* A table grows older: only what is left of leases and delays changes. *)
LEMMA Ageing ==
  ASSUME NEW table \in Table
  PROVE  /\ Aged(table) \in Table
         /\ \A i \in Ids :
              /\ Aged(table)[i].state = table[i].state
              /\ Aged(table)[i].owner = table[i].owner
              /\ Aged(table)[i].attempts = table[i].attempts
              /\ Aged(table)[i].limit = table[i].limit
              /\ Aged(table)[i].result = table[i].result
              /\ Aged(table)[i].expires = Less(table[i].expires)
         /\ Pending(Aged(table)) = Pending(table)
<1>1. ASSUME NEW i \in Ids, NEW job \in Job, job = table[i]
      PROVE  /\ Aged(table)[i] \in Job
             /\ Aged(table)[i].state = job.state
             /\ Aged(table)[i].owner = job.owner
             /\ Aged(table)[i].attempts = job.attempts
             /\ Aged(table)[i].limit = job.limit
             /\ Aged(table)[i].result = job.result
             /\ Aged(table)[i].expires = Less(job.expires)
  <2>1. Aged(table)[i] = [job EXCEPT !.expires = Less(@), !.retry = Less(@)]
    BY <1>1 DEF Aged
  <2>2. Less(job.expires) \in Nat /\ Less(job.retry) \in Nat
    BY DEF Job, Less
  <2> QED
    BY <2>1, <2>2 DEF Job
<1>2. ASSUME NEW i \in Ids
      PROVE  /\ Aged(table)[i] \in Job
             /\ Aged(table)[i].state = table[i].state
             /\ Aged(table)[i].owner = table[i].owner
             /\ Aged(table)[i].attempts = table[i].attempts
             /\ Aged(table)[i].limit = table[i].limit
             /\ Aged(table)[i].result = table[i].result
             /\ Aged(table)[i].expires = Less(table[i].expires)
  <2>1. table[i] \in Job
    BY DEF Table
  <2> QED
    BY <1>1, <2>1
<1>3. Aged(table) \in Table
  BY <1>2 DEF Table, Aged
<1>4. Pending(Aged(table)) = Pending(table)
  BY <1>2 DEF Pending
<1> QED
  BY <1>2, <1>3, <1>4

(* Ageing leaves a table sound, and in agreement with its results. *)
LEMMA AgeingKeeps ==
  ASSUME NEW table \in Table, NEW found \in Found, Sound(table), Consistent(table, found)
  PROVE  Sound(Aged(table)) /\ Consistent(Aged(table), found)
<1>1. \A i \in Ids : table[i].expires = 0 => Less(table[i].expires) = 0
  BY DEF Less
<1>2. Sound(Aged(table))
  BY <1>1, Ageing DEF Sound
<1>3. Consistent(Aged(table), found)
  BY Ageing DEF Consistent
<1> QED
  BY <1>2, <1>3

(* Time passes. *)
LEMMA TickKeeps ==
  ASSUME IInv, Tick
  PROVE  IInv'
<1>1. /\ jobs' = Aged(jobs) /\ saved' = [saved EXCEPT !.jobs = Aged(saved.jobs)]
      /\ belief' = [w \in Workers |-> [i \in Ids |-> Less(belief[w][i])]]
      /\ leasing' = [worker |-> Absent, left |-> 0]
      /\ UNCHANGED <<results, waiting, minted, resumes>>
  BY DEF Tick
<1>2. saved.jobs \in Table /\ saved.results \in Found /\ saved \in [jobs : Table, results : Found]
  BY Parts
<1>3. saved'.jobs = Aged(saved.jobs) /\ saved'.results = saved.results
  BY <1>1, <1>2
<1>4. saved' = [jobs |-> Aged(saved.jobs), results |-> saved.results]
  BY <1>1, <1>2
<1>5. saved' \in [jobs : Table, results : Found]
  BY <1>2, <1>4, Ageing
<1>6. /\ jobs' \in Table /\ waiting' \in Seq(Ids) /\ Lists(waiting', Pending(jobs'))
  BY <1>1, Parts, Ageing
<1>7. /\ Consistent(jobs', results') /\ Consistent(saved'.jobs, saved'.results)
      /\ Sound(jobs') /\ Sound(saved'.jobs)
  BY <1>1, <1>2, <1>3, Parts, AgeingKeeps
<1>8. belief' \in [Workers -> [Ids -> Nat]]
  BY <1>1, Parts DEF Less
<1>9. ASSUME NEW w \in Workers, NEW i \in Ids, belief'[w][i] > 0
      PROVE  jobs'[i].owner = w /\ jobs'[i].expires >= belief'[w][i]
  <2>1. belief'[w][i] = Less(belief[w][i]) /\ belief[w][i] \in Nat /\ jobs[i].expires \in Nat
    BY <1>1, Parts, JobType
  <2>2. belief[w][i] > 0
    BY <1>9, <2>1 DEF Less
  <2>3. jobs[i].owner = w /\ jobs[i].expires >= belief[w][i]
    BY <2>2, Parts
  <2>4. jobs'[i].owner = w /\ jobs'[i].expires = Less(jobs[i].expires)
    BY <1>1, <2>3, Parts, Ageing
  <2> QED
    BY <2>1, <2>3, <2>4 DEF Less
<1>10. Rebuilt
  BY <1>1, <1>5, <1>6, <1>7, <1>8, <1>9, Parts DEF Rebuilt
<1> QED
  BY <1>10, RebuiltKeeps

(* A worker gives back what it has leased. *)
LEMMA ShutdownKeeps ==
  ASSUME IInv, NEW w \in Workers, Shutdown(w)
  PROVE  IInv'
<1> DEFINE R == Released(w)
           Back(i) == [Unleased(jobs[i]) EXCEPT !.state = "pending", !.retry = 0]
<1>1. /\ \E s \in Listings(R) : waiting' = waiting \o s
      /\ jobs' = [i \in Ids |-> IF i \in R THEN Back(i) ELSE jobs[i]]
      /\ belief' = [belief EXCEPT ![w] = [i \in Ids |-> 0]]
      /\ leasing' = [worker |-> Absent, left |-> 0]
      /\ UNCHANGED <<results, saved, minted, resumes>>
  BY DEF Shutdown
<1>2. R \in SUBSET Ids /\ R \cap Pending(jobs) = {}
      /\ \A i \in R : jobs[i].state = "leased" /\ jobs[i].owner = w
  BY DEF Released, Pending
<1>3. ASSUME NEW i \in R
      PROVE  /\ Back(i) \in Job /\ Back(i).state = "pending" /\ Back(i).expires = 0
             /\ Back(i).attempts = jobs[i].attempts /\ Back(i).limit = jobs[i].limit
             /\ Back(i).result = jobs[i].result
  <2>1. jobs[i] \in Job
    BY <1>2, JobType
  <2> QED
    BY <2>1 DEF Job, States, Unleased
<1> HIDE DEF R, Back
<1>4. \A i \in Ids : jobs'[i] = IF i \in R THEN Back(i) ELSE jobs[i]
  BY <1>1
<1>5. jobs' \in Table
  BY <1>1, <1>2, <1>3, JobType DEF Table
<1>6. Pending(jobs') = Pending(jobs) \cup R
  BY <1>2, <1>3, <1>4 DEF Pending
<1>7. waiting' \in Seq(Ids) /\ Lists(waiting', Pending(jobs'))
  <2>1. PICK s \in Listings(R) : waiting' = waiting \o s
    BY <1>1
  <2>2. s \in Seq(Ids) /\ Lists(s, R)
    BY <1>2, ListingsAreLists
  <2>3. waiting \o s \in Seq(Ids) /\ Lists(waiting \o s, Pending(jobs) \cup R)
    BY <1>2, <2>2, Parts, ListsConcat
  <2> QED
    BY <1>6, <2>1, <2>3
<1>8. /\ belief' \in [Workers -> [Ids -> Nat]]
      /\ \A v \in Workers, i \in Ids : belief'[v][i] = IF v = w THEN 0 ELSE belief[v][i]
  BY <1>1, Parts
<1>9. ASSUME NEW v \in Workers, NEW i \in Ids, belief'[v][i] > 0
      PROVE  jobs'[i].owner = v /\ jobs'[i].expires >= belief'[v][i]
  <2>1. v # w /\ belief'[v][i] = belief[v][i]
    BY <1>8, <1>9
  <2>2. jobs[i].owner = v /\ jobs[i].expires >= belief[v][i]
    BY <1>9, <2>1, Parts
  <2>3. jobs'[i] = jobs[i]
    BY <1>2, <1>4, <2>1, <2>2
  <2> QED
    BY <2>1, <2>2, <2>3
<1>10. Sound(jobs') /\ Sound(saved'.jobs)
  <2>1. ASSUME NEW i \in Ids
        PROVE  /\ i \notin minted' => jobs'[i].state = "none"
               /\ jobs'[i].state = "none" => jobs'[i].attempts = 0 /\ jobs'[i].limit = 0
               /\ jobs'[i].state = "leased" => jobs'[i].attempts > 0
               /\ jobs'[i].state # "leased" => jobs'[i].expires = 0
               /\ jobs'[i].attempts <= jobs'[i].limit
    <3>1. CASE i \in R
      BY <1>1, <1>2, <1>3, <1>4, <3>1, Parts DEF Sound
    <3>2. CASE i \notin R
      BY <1>1, <1>4, <3>2, Parts DEF Sound
    <3> QED
      BY <3>1, <3>2
  <2>2. Sound(jobs')
    BY <1>1, <2>1 DEF Sound
  <2>3. Sound(saved'.jobs)
    BY <1>1, Parts DEF Sound
  <2> QED
    BY <2>2, <2>3
<1>11. Consistent(jobs', results') /\ Consistent(saved'.jobs, saved'.results)
  <2>1. ASSUME NEW i \in Ids
        PROVE  results'[i] = jobs'[i].result /\ (results'[i] # Absent <=> jobs'[i].state = "completed")
    <3>1. CASE i \in R
      BY <1>1, <1>2, <1>3, <1>4, <3>1, Parts DEF Consistent
    <3>2. CASE i \notin R
      BY <1>1, <1>4, <3>2, Parts DEF Consistent
    <3> QED
      BY <3>1, <3>2
  <2> QED
    BY <1>1, <2>1, Parts DEF Consistent
<1>12. Rebuilt
  BY <1>1, <1>5, <1>7, <1>8, <1>9, <1>10, <1>11, Parts DEF Rebuilt
<1> QED
  BY <1>12, RebuiltKeeps

LEMMA NextKeeps == IInv /\ [Next]_vars => IInv'
<1> SUFFICES ASSUME IInv, [Next]_vars  PROVE IInv'
  OBVIOUS
<1>1. CASE UNCHANGED vars
  <2>1. /\ UNCHANGED <<jobs, results, belief, saved, minted, resumes>>
        /\ waiting' = waiting /\ leasing' = leasing
    BY <1>1 DEF vars
  <2>2. /\ waiting \in Seq(Ids) /\ Lists(waiting, Pending(jobs)) /\ LeasingSound
        /\ leasing \in [worker : Workers \cup {Absent}, left : Nat]
    BY DEF IInv, TypeOK, ListedOnce
  <2>3. LeasingSound'
    BY <2>1, <2>2 DEF LeasingSound
  <2> QED
    BY <2>1, <2>2, <2>3, WalkKeeps
<1>2. ASSUME NEW i \in Ids, NEW w \in Workers, Work(i, w)  PROVE IInv'
  BY <1>2, HeartbeatKeeps, CompleteKeeps, FailKeeps DEF Work
<1>3. CASE Scan
  BY <1>3, SkipKeeps, TakePendingKeeps, LeaseNothingKeeps, TakeExpiredKeeps DEF Scan
<1>4. ASSUME NEW w \in Workers, LeaseCall(w) \/ Shutdown(w)  PROVE IInv'
  BY <1>4, LeaseCallKeeps, ShutdownKeeps
<1>5. ASSUME NEW k \in Keys, NEW n \in Limits, Enqueue(k, n)  PROVE IInv'
  BY <1>5, EnqueueKeeps
<1>6. CASE Snapshot \/ Resume \/ Tick
  BY <1>6, SnapshotKeeps, ResumeKeeps, TickKeeps
<1> QED
  BY <1>1, <1>2, <1>3, <1>4, <1>5, <1>6 DEF Next

-----------------------------------------------------------------------------
(***************************************************************************)
(* Part 3: safety                                                          *)
(***************************************************************************)

(* The jobs, their results, the list and the leases agree after every step
   of every call, and after every restart. *)
THEOREM QueueInvariant == Spec => []IInv
<1>1. Init => IInv
  BY InitIsSound
<1>2. IInv /\ [Next]_vars => IInv'
  BY NextKeeps
<1> QED
  BY <1>1, <1>2, PTL DEF Spec

(* The variables keep their types, and no job is attempted more often than
   its limit allows (leaseNext). *)
THEOREM QueueTyped == Spec => []TypeOK
<1>1. IInv => TypeOK
  BY DEF IInv
<1> QED
  BY <1>1, QueueInvariant, PTL

(* From the cursor on, the list holds every pending job, once (leaseNext,
   fail, gracefulShutdown, resume). *)
THEOREM PendingJobsAreListed == Spec => []ListedOnce
<1>1. IInv => ListedOnce
  BY DEF IInv
<1> QED
  BY <1>1, QueueInvariant, PTL

(* A job has a result exactly if it is completed, and the result kept for it
   is the job's own (complete, snapshot, resume). *)
THEOREM ResultsAlwaysAgree == Spec => []ResultsAgree
<1>1. IInv => ResultsAgree
  BY DEF IInv
<1> QED
  BY <1>1, QueueInvariant, PTL

(* Whoever believes to hold a lease holds it, alone, and as long as it
   believes (leaseNext, heartbeat). *)
THEOREM LeasesAreExclusive == Spec => []OneHolder
<1>1. IInv => OneHolder
  BY DEF IInv
<1> QED
  BY <1>1, QueueInvariant, PTL

-----------------------------------------------------------------------------
(***************************************************************************)
(* Part 4: the promise of LearningJobs                                     *)
(***************************************************************************)

Same == Board(jobs') = Board(jobs) /\ Board(saved'.jobs) = Board(saved.jobs)

(* One job changes on the board. *)
LEMMA BoardChanges ==
  ASSUME IInv, NEW i \in Ids, NEW job, jobs' = [jobs EXCEPT ![i] = job]
  PROVE  /\ Board(jobs') = [Board(jobs) EXCEPT ![i] = Entry(job)]
         /\ Board(jobs)[i] = Entry(jobs[i])
<1>1. \A j \in Ids : jobs'[j] = IF j = i THEN job ELSE jobs[j]
  BY Parts DEF Table
<1>2. Board(jobs') = [j \in Ids |-> IF j = i THEN Entry(job) ELSE Entry(jobs[j])]
  BY <1>1 DEF Board
<1>3. Board(jobs) = [j \in Ids |-> Entry(jobs[j])]
  BY DEF Board
<1> QED
  BY <1>2, <1>3

(* A job that is neither new nor ended is open. *)
LEMMA OpenOnBoard ==
  ASSUME IInv, NEW i \in Ids, jobs[i].state \in {"pending", "leased"}
  PROVE  /\ Entry(jobs[i]).outcome = "open"
         /\ Entry(jobs[i]).attempts = jobs[i].attempts
         /\ Entry(jobs[i]).limit = jobs[i].limit
         /\ jobs[i].attempts \in Nat /\ jobs[i].limit \in Nat
         /\ jobs[i].attempts <= jobs[i].limit
  BY JobType DEF Entry, Outcome

LEMMA EnqueueSubmits ==
  ASSUME IInv, NEW k \in Keys, NEW n \in Limits, Enqueue(k, n)
  PROVE  \E i \in Ids : Outcomes!Submit(i, n)
<1> DEFINE i == Fresh
           job == [NoJob EXCEPT !.state = "pending", !.key = k, !.limit = n]
<1>1. i \in Ids /\ i \notin minted
  BY DEF Fresh, Enqueue, IInv, TypeOK
<1>2. jobs' = [jobs EXCEPT ![i] = job] /\ saved' = saved
  BY DEF Enqueue
<1>3. Entry(job) = [outcome |-> "open", attempts |-> 0, limit |-> n]
  BY DEF Entry, Outcome, NoJob
<1> HIDE DEF i, job
<1>4. jobs[i].state = "none" /\ jobs[i].attempts = 0 /\ jobs[i].limit = 0
  BY <1>1, Parts DEF Sound
<1>5. Entry(jobs[i]) = Outcomes!None
  BY <1>4 DEF Entry, Outcome, Outcomes!None
<1>6. Outcomes!Submit(i, n)
  BY <1>1, <1>2, <1>3, <1>5, BoardChanges DEF Outcomes!Submit, Outcomes!Change
<1> QED
  BY <1>1, <1>6

(* What leaseNext takes is attempted once more, or dead. *)
LEMMA TakeImplements ==
  ASSUME IInv, NEW i \in Ids, Take(i), jobs[i].state \in {"pending", "leased"}
  PROVE  Outcomes!Attempt(i) \/ Outcomes!Bury(i)
<1>1. CASE Exhausted(i)
  <2> DEFINE job == [Unleased(jobs[i]) EXCEPT !.state = "dead_letter"]
  <2>1. jobs' = [jobs EXCEPT ![i] = job] /\ saved' = saved
    BY <1>1 DEF Take, Bury
  <2>2. Entry(job) = [Entry(jobs[i]) EXCEPT !.outcome = "dead"]
    BY JobType DEF Entry, Outcome, Unleased, Job
  <2> HIDE DEF job
  <2>3. jobs[i].attempts = jobs[i].limit
    BY <1>1, OpenOnBoard DEF Exhausted
  <2>4. /\ Board(jobs') = [Board(jobs) EXCEPT ![i] = [Board(jobs)[i] EXCEPT !.outcome = "dead"]]
        /\ Board(jobs)[i].outcome = "open"
        /\ Board(jobs)[i].attempts = Board(jobs)[i].limit
    <3>1. Board(jobs') = [Board(jobs) EXCEPT ![i] = Entry(job)] /\ Board(jobs)[i] = Entry(jobs[i])
      BY <2>1, BoardChanges
    <3> QED
      BY <2>2, <2>3, <3>1, OpenOnBoard
  <2> QED
    BY <2>1, <2>4 DEF Outcomes!Bury, Outcomes!Change
<1>2. CASE ~ Exhausted(i)
  <2> DEFINE n   == jobs[i].attempts + 1
             job == [jobs[i] EXCEPT !.state = "leased", !.owner = leasing.worker,
                                    !.expires = Lease, !.attempts = n]
  <2>0. jobs[i] \in Job /\ n \in Nat
    BY JobType
  <2>1. jobs' = [jobs EXCEPT ![i] = job] /\ saved' = saved
    BY <1>2, Parts DEF Take, Grant, Table
  <2>2. Entry(job) = [Entry(jobs[i]) EXCEPT !.attempts = n]
    <3> HIDE DEF n
    <3> QED
      BY <2>0 DEF Entry, Outcome, Job
  <2> HIDE DEF job
  <2>3. jobs[i].attempts < jobs[i].limit
    BY <1>2, OpenOnBoard DEF Exhausted
  <2>4. /\ Board(jobs') = [Board(jobs) EXCEPT ![i] = [Board(jobs)[i] EXCEPT !.attempts = n]]
        /\ Board(jobs)[i].outcome = "open"
        /\ Board(jobs)[i].attempts = jobs[i].attempts /\ Board(jobs)[i].limit = jobs[i].limit
    <3> HIDE DEF n
    <3>1. Board(jobs') = [Board(jobs) EXCEPT ![i] = Entry(job)] /\ Board(jobs)[i] = Entry(jobs[i])
      BY <2>1, BoardChanges
    <3> QED
      BY <2>2, <3>1, OpenOnBoard
  <2>5. n = Board(jobs)[i].attempts + 1
    BY <2>4
  <2> HIDE DEF n
  <2>6. Board(jobs') = [Board(jobs) EXCEPT ![i] = [Board(jobs)[i] EXCEPT
                                                     !.attempts = Board(jobs)[i].attempts + 1]]
    BY <2>4, <2>5
  <2> QED
    BY <2>1, <2>3, <2>4, <2>6 DEF Outcomes!Attempt, Outcomes!Change
<1> QED
  BY <1>1, <1>2

LEMMA ScanImplements ==
  ASSUME IInv, Scan
  PROVE  Same \/ \E i \in Ids : Outcomes!Attempt(i) \/ Outcomes!Bury(i)
<1>1. CASE Skip \/ LeaseNothing
  BY <1>1 DEF Skip, LeaseNothing, Same
<1>2. CASE TakePending
  <2>1. Head(waiting) \in Ids /\ jobs[Head(waiting)].state = "pending" /\ Take(Head(waiting))
    BY <1>2, Scanning DEF TakePending, Pending
  <2> QED
    BY <2>1, TakeImplements
<1>3. ASSUME NEW i \in Ids, TakeExpired(i)
      PROVE  Outcomes!Attempt(i) \/ Outcomes!Bury(i)
  BY <1>3, TakeImplements DEF TakeExpired, Expired
<1> QED
  BY <1>1, <1>2, <1>3 DEF Scan

LEMMA WorkImplements ==
  ASSUME IInv, NEW i \in Ids, NEW w \in Workers, Work(i, w)
  PROVE  Same \/ Outcomes!Complete(i) \/ Outcomes!Bury(i)
<1>1. CASE Heartbeat(i, w)
  <2> DEFINE job == [jobs[i] EXCEPT !.expires = Lease]
  <2>1. jobs' = [jobs EXCEPT ![i] = job] /\ saved' = saved
    BY <1>1 DEF Heartbeat
  <2>2. Entry(job) = Entry(jobs[i])
    BY JobType DEF Entry, Outcome, Job
  <2> HIDE DEF job
  <2>3. Board(jobs') = Board(jobs)
    BY <2>1, <2>2, BoardChanges DEF Board
  <2> QED
    BY <2>1, <2>3 DEF Same
<1>2. ASSUME NEW r \in Results, Complete(i, w, r)  PROVE Outcomes!Complete(i)
  <2> DEFINE job == [Unleased(jobs[i]) EXCEPT !.state = "completed", !.result = r]
  <2>1. jobs' = [jobs EXCEPT ![i] = job] /\ saved' = saved
    BY <1>2 DEF Complete
  <2>2. Entry(job) = [Entry(jobs[i]) EXCEPT !.outcome = "completed"]
    BY JobType DEF Entry, Outcome, Unleased, Job
  <2> HIDE DEF job
  <2>3. jobs[i].state = "leased" /\ jobs[i].attempts > 0
    BY <1>2, Holding DEF Complete
  <2>4. /\ Board(jobs') = [Board(jobs) EXCEPT ![i] = [Board(jobs)[i] EXCEPT !.outcome = "completed"]]
        /\ Board(jobs)[i].outcome = "open" /\ Board(jobs)[i].attempts > 0
    <3>1. Board(jobs') = [Board(jobs) EXCEPT ![i] = Entry(job)] /\ Board(jobs)[i] = Entry(jobs[i])
      BY <2>1, BoardChanges
    <3> QED
      BY <2>2, <2>3, <3>1, OpenOnBoard
  <2> QED
    BY <2>1, <2>4 DEF Outcomes!Complete, Outcomes!Change
<1>3. ASSUME NEW d \in Delays, Fail(i, w, d)  PROVE Same \/ Outcomes!Bury(i)
  <2>1. jobs[i].state = "leased" /\ jobs[i].attempts <= jobs[i].limit
    BY <1>3, Holding DEF Fail
  <2>2. CASE Exhausted(i)
    <3> DEFINE job == [Unleased(jobs[i]) EXCEPT !.state = "dead_letter"]
    <3>1. jobs' = [jobs EXCEPT ![i] = job] /\ saved' = saved
      BY <1>3, <2>2 DEF Fail
    <3>2. Entry(job) = [Entry(jobs[i]) EXCEPT !.outcome = "dead"]
      BY JobType DEF Entry, Outcome, Unleased, Job
    <3> HIDE DEF job
    <3>3. jobs[i].attempts = jobs[i].limit
      BY <2>1, <2>2, OpenOnBoard DEF Exhausted
    <3>4. /\ Board(jobs') = [Board(jobs) EXCEPT ![i] = [Board(jobs)[i] EXCEPT !.outcome = "dead"]]
          /\ Board(jobs)[i].outcome = "open"
          /\ Board(jobs)[i].attempts = Board(jobs)[i].limit
      <4>1. Board(jobs') = [Board(jobs) EXCEPT ![i] = Entry(job)] /\ Board(jobs)[i] = Entry(jobs[i])
        BY <3>1, BoardChanges
      <4> QED
        BY <2>1, <3>2, <3>3, <4>1, OpenOnBoard
    <3> QED
      BY <3>1, <3>4 DEF Outcomes!Bury, Outcomes!Change
  <2>3. CASE ~ Exhausted(i)
    <3> DEFINE job == [Unleased(jobs[i]) EXCEPT !.state = "pending", !.retry = d]
    <3>1. jobs' = [jobs EXCEPT ![i] = job] /\ saved' = saved
      BY <1>3, <2>3 DEF Fail
    <3>2. Entry(job) = Entry(jobs[i])
      BY <2>1, JobType DEF Entry, Outcome, Unleased, Job
    <3> HIDE DEF job
    <3>3. Board(jobs') = Board(jobs)
      BY <3>1, <3>2, BoardChanges DEF Board
    <3> QED
      BY <3>1, <3>3 DEF Same
  <2> QED
    BY <2>2, <2>3
<1> QED
  BY <1>1, <1>2, <1>3 DEF Work

LEMMA ShutdownIsSame ==
  ASSUME IInv, NEW w \in Workers, Shutdown(w)
  PROVE  Same
<1>1. /\ jobs' = [i \in Ids |-> IF i \in Released(w)
                                THEN [Unleased(jobs[i]) EXCEPT !.state = "pending", !.retry = 0]
                                ELSE jobs[i]]
      /\ saved' = saved
  BY DEF Shutdown
<1>2. ASSUME NEW i \in Ids  PROVE Entry(jobs'[i]) = Entry(jobs[i])
  <2>1. CASE i \in Released(w)
    <3>1. jobs[i] \in Job /\ jobs[i].state = "leased"
      BY <2>1, JobType DEF Released
    <3>2. jobs'[i] = [Unleased(jobs[i]) EXCEPT !.state = "pending", !.retry = 0]
      BY <1>1, <2>1
    <3> QED
      BY <3>1, <3>2 DEF Entry, Outcome, Unleased, Job
  <2>2. CASE i \notin Released(w)
    BY <1>1, <2>2
  <2> QED
    BY <2>1, <2>2
<1> QED
  BY <1>1, <1>2 DEF Same, Board

LEMMA TickIsSame ==
  ASSUME IInv, Tick
  PROVE  Same
<1>1. /\ jobs' = Aged(jobs) /\ saved' = [saved EXCEPT !.jobs = Aged(saved.jobs)]
  BY DEF Tick
<1>2. saved.jobs \in Table /\ jobs \in Table /\ saved \in [jobs : Table, results : Found]
  BY Parts
<1>3. saved'.jobs = Aged(saved.jobs)
  BY <1>1, <1>2
<1>4. ASSUME NEW table \in Table  PROVE Board(Aged(table)) = Board(table)
  BY <1>4, Ageing DEF Board, Entry
<1> QED
  BY <1>1, <1>2, <1>3, <1>4 DEF Same

(* A job is attempted within its limit, ends at most once and only changes
   back when the queue is resumed: the queue implements LearningJobs. *)
THEOREM QueueImplementsJobs == Spec => ImplementsJobs
<1>1. Init => Outcomes!Init
  <2> SUFFICES ASSUME Init  PROVE Outcomes!Init
    OBVIOUS
  <2>1. /\ jobs = [i \in Ids |-> NoJob] /\ saved.jobs = jobs
    BY DEF Init
  <2>2. Entry(NoJob) = Outcomes!None
    BY DEF Entry, Outcome, NoJob, Outcomes!None
  <2> QED
    BY <2>1, <2>2 DEF Outcomes!Init, Board
<1>2. IInv /\ [Next]_vars => [Outcomes!Next]_<<Board(jobs), Board(saved.jobs)>>
  <2> SUFFICES ASSUME IInv, [Next]_vars
               PROVE  [Outcomes!Next]_<<Board(jobs), Board(saved.jobs)>>
    OBVIOUS
  <2>0. Same => [Outcomes!Next]_<<Board(jobs), Board(saved.jobs)>>
    BY DEF Same, Board
  <2>1. ASSUME NEW k \in Keys, NEW n \in Limits, Enqueue(k, n)  PROVE Outcomes!Next
    BY <2>1, EnqueueSubmits DEF Outcomes!Next
  <2>2. CASE Scan
    BY <2>0, <2>2, ScanImplements DEF Outcomes!Next
  <2>3. ASSUME NEW i \in Ids, NEW w \in Workers, Work(i, w)
        PROVE  [Outcomes!Next]_<<Board(jobs), Board(saved.jobs)>>
    BY <2>0, <2>3, WorkImplements DEF Outcomes!Next
  <2>4. ASSUME NEW w \in Workers, LeaseCall(w) \/ Shutdown(w)
        PROVE  Same
    BY <2>4, ShutdownIsSame DEF LeaseCall, Same
  <2>5. CASE Snapshot
    <3>1. saved'.jobs = jobs /\ jobs' = jobs
      BY <2>5 DEF Snapshot
    <3> QED
      BY <3>1 DEF Outcomes!Next, Outcomes!Save, Board
  <2>6. CASE Resume
    <3>1. saved' = saved /\ jobs' = saved.jobs
      BY <2>6 DEF Resume
    <3> QED
      BY <3>1 DEF Outcomes!Next, Outcomes!Restore, Board
  <2>7. CASE Tick
    BY <2>0, <2>7, TickIsSame
  <2>8. CASE UNCHANGED vars
    BY <2>0, <2>8 DEF vars, Same
  <2> QED
    BY <2>0, <2>1, <2>2, <2>3, <2>4, <2>5, <2>6, <2>7, <2>8 DEF Next
<1> QED
  BY <1>1, <1>2, QueueInvariant, PTL DEF Spec, ImplementsJobs, Outcomes!Spec
=============================================================================
