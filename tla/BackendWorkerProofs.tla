------------------------ MODULE BackendWorkerProofs ------------------------
(***************************************************************************)
(* Proofs about BackendWorker for every queue limit, number of VFOs, set   *)
(* of operations and number of submissions: no key-down outlives a release *)
(* of its VFO, the worker releases at shutdown, implements Keying, keeps   *)
(* the cached transmit state true, and keeps its queue to its bound, its   *)
(* order and one poll per VFO.                                             *)
(***************************************************************************)
EXTENDS BackendWorker, ListsProofs

----------------------------------------------------------------------------
(* The list helpers *)

\* The elements of a list of jobs are jobs.
LEMMA ElemsInSet ==
  ASSUME NEW X, NEW q \in Seq(X)
  PROVE  Elems(q) \subseteq X
  BY DEF Elems

\* Pushing a job at the head of a list.
LEMMA PushHead ==
  ASSUME NEW X, NEW q \in Seq(X), NEW e \in X
  PROVE  /\ <<e>> \o q \in Seq(X)
         /\ Len(<<e>> \o q) = Len(q) + 1
         /\ Elems(<<e>> \o q) = Elems(q) \cup {e}
<1> DEFINE r == <<e>> \o q
<1>1. <<e>> \in Seq(X) /\ Len(<<e>>) = 1 /\ <<e>>[1] = e /\ Len(q) \in Nat
  OBVIOUS
<1>2. /\ r \in Seq(X)
      /\ Len(r) = 1 + Len(q)
      /\ \A i \in 1..(1 + Len(q)) : r[i] = IF i <= 1 THEN <<e>>[i] ELSE q[i - 1]
  BY <1>1, ConcatProperties
<1> HIDE DEF r
<1>3. Elems(r) \subseteq Elems(q) \cup {e}
  <2> SUFFICES ASSUME NEW i \in 1..(1 + Len(q)) PROVE r[i] \in Elems(q) \cup {e}
    BY <1>2 DEF Elems
  <2>1. CASE i = 1
    BY <2>1, <1>1, <1>2
  <2>2. CASE i # 1
    <3>1. i - 1 \in 1..Len(q) /\ r[i] = q[i - 1]
      BY <2>2, <1>1, <1>2
    <3> QED
      BY <3>1 DEF Elems
  <2> QED
    BY <2>1, <2>2
<1>4. e \in Elems(r)
  <2>1. 1 \in 1..Len(r) /\ r[1] = e
    BY <1>1, <1>2
  <2> QED
    BY <2>1 DEF Elems
<1>5. Elems(q) \subseteq Elems(r)
  <2> SUFFICES ASSUME NEW i \in 1..Len(q) PROVE q[i] \in Elems(r)
    BY DEF Elems
  <2>1. i + 1 \in 1..Len(r) /\ r[i + 1] = q[i]
    BY <1>1, <1>2
  <2> QED
    BY <2>1 DEF Elems
<1> QED
  BY <1>1, <1>2, <1>3, <1>4, <1>5 DEF r

\* Taking the job at the head of a list.
LEMMA TakeHead ==
  ASSUME NEW X, NEW q \in Seq(X), q # <<>>
  PROVE  /\ Head(q) \in X /\ Tail(q) \in Seq(X)
         /\ Len(Tail(q)) = Len(q) - 1 /\ Len(q) \in Nat
         /\ Head(q) \in Elems(q)
         /\ Elems(Tail(q)) \subseteq Elems(q)
<1>1. /\ Head(q) \in X /\ Tail(q) \in Seq(X)
      /\ Len(Tail(q)) = Len(q) - 1 /\ Len(q) \in Nat
      /\ \A i \in 1..Len(Tail(q)) : Tail(q)[i] = q[i + 1]
  BY HeadTailProperties
<1>2. 1 \in 1..Len(q) /\ Head(q) = q[1]
  OBVIOUS
<1> QED
  BY <1>1, <1>2 DEF Elems

\* A control is inserted in front of the first poll.
LEMMA BeforePollsProperties ==
  ASSUME NEW q \in Seq(Job)
  PROVE  /\ BeforePolls(q) \in 0..Len(q)
         /\ \A i \in 1..BeforePolls(q) : q[i].op # "poll"
         /\ BeforePolls(q) < Len(q) => q[BeforePolls(q) + 1].op = "poll"
<1> DEFINE P == {i \in 1..Len(q) : q[i].op = "poll"}
<1>1. Len(q) \in Nat
  OBVIOUS
<1>2. P \subseteq 1..Len(q) /\ P \in SUBSET Nat /\ IsFiniteSet(P)
  BY <1>1, IntervalSize, FS_Subset
<1>3. CASE P = {}
  BY <1>1, <1>3 DEF BeforePolls
<1>4. CASE P # {}
  <2> DEFINE m == Nth(P, 1)
  <2>1. Cardinality(P) \in Nat /\ Cardinality(P) # 0
    BY <1>2, <1>4, FS_CardinalityType, FS_EmptySet
  <2>2. 1 \in 1..Cardinality(P)
    BY <2>1
  <2>3. m \in P /\ Rank(P, m) = 1
    BY <1>2, <2>2, NthExists
  <2>4. BeforePolls(q) = m - 1
    BY <1>4 DEF BeforePolls
  <2> HIDE DEF m
  <2>5. m \in 1..Len(q) /\ q[m].op = "poll"
    BY <2>3
  <2>6. ASSUME NEW i \in 1..(m - 1), q[i].op = "poll" PROVE FALSE
    <3>1. i \in P /\ i < m
      BY <1>1, <2>5, <2>6
    <3> HIDE DEF P
    <3>2. Rank(P, i) < Rank(P, m)
      BY <1>2, <2>3, <3>1, RankMonotonic
    <3>3. {k \in P : k <= i} \in SUBSET P /\ i \in {k \in P : k <= i}
      BY <1>1, <1>2, <3>1
    <3>4. /\ IsFiniteSet({k \in P : k <= i})
          /\ {k \in P : k <= i} # {}
      BY <1>2, <3>3, FS_Subset
    <3>5. Rank(P, i) \in Nat /\ Rank(P, i) # 0
      BY <3>4, FS_CardinalityType, FS_EmptySet DEF Rank
    <3> QED
      BY <2>3, <3>2, <3>5
  <2> HIDE DEF P
  <2> QED
    BY <1>1, <2>4, <2>5, <2>6
<1> QED
  BY <1>3, <1>4

\* submit() puts its job at one place of the queue and shifts what is behind.
LEMMA EnqueuePlaces ==
  ASSUME NEW q \in Seq(Job), NEW j \in Job
  PROVE  \E n \in 0..Len(q) :
           /\ Enqueue(q, j) \in Seq(Job)
           /\ Len(Enqueue(q, j)) = Len(q) + 1
           /\ \A i \in 1..(Len(q) + 1) : Enqueue(q, j)[i] =
                IF i <= n THEN q[i] ELSE IF i = n + 1 THEN j ELSE q[i - 1]
           /\ j.op = "poll" => n = Len(q)
           /\ j.op # "poll" => /\ \A i \in 1..n : q[i].op # "poll"
                               /\ n < Len(q) => q[n + 1].op = "poll"
<1> DEFINE n == IF j.op = "poll" THEN Len(q) ELSE BeforePolls(q)
<1>1. n \in 0..Len(q) /\ Len(q) \in Nat
  BY BeforePollsProperties
<1>0. /\ j.op = "poll" => n = Len(q)
      /\ j.op # "poll" => /\ \A i \in 1..n : q[i].op # "poll"
                          /\ n < Len(q) => q[n + 1].op = "poll"
  BY BeforePollsProperties
<1>2. Enqueue(q, j) = SubSeq(q, 1, n) \o <<j>> \o SubSeq(q, n + 1, Len(q))
  BY DEF Enqueue
<1> HIDE DEF n
<1> DEFINE a == SubSeq(q, 1, n)
           b == SubSeq(q, n + 1, Len(q))
           r == a \o <<j>> \o b
<1>3. /\ a \in Seq(Job) /\ Len(a) = n
      /\ \A i \in 1..n : a[i] = q[i]
  BY <1>1
<1>4. /\ b \in Seq(Job) /\ Len(b) = Len(q) - n
      /\ \A i \in 1..(Len(q) - n) : b[i] = q[n + i]
  BY <1>1
<1> HIDE DEF a, b
<1>5. /\ r \in Seq(Job) /\ Len(r) = Len(q) + 1
      /\ \A i \in 1..(Len(q) + 1) :
            r[i] = IF i <= n THEN q[i] ELSE IF i = n + 1 THEN j ELSE q[i - 1]
  <2> DEFINE ab == a \o <<j>>
  <2>1. <<j>> \in Seq(Job) /\ Len(<<j>>) = 1 /\ <<j>>[1] = j
    OBVIOUS
  <2>2. /\ ab \in Seq(Job) /\ Len(ab) = n + 1
        /\ \A i \in 1..(n + 1) : ab[i] = IF i <= n THEN a[i] ELSE <<j>>[i - n]
    BY <1>1, <1>3, <2>1, ConcatProperties
  <2>3. r = ab \o b
    OBVIOUS
  <2> HIDE DEF r, ab
  <2>4. /\ r \in Seq(Job) /\ Len(r) = Len(ab) + Len(b)
        /\ \A i \in 1..(Len(ab) + Len(b)) :
              r[i] = IF i <= Len(ab) THEN ab[i] ELSE b[i - Len(ab)]
    BY <1>4, <2>2, <2>3, ConcatProperties
  <2>5. Len(ab) + Len(b) = Len(q) + 1
    BY <1>1, <1>4, <2>2
  <2> SUFFICES ASSUME NEW i \in 1..(Len(q) + 1)
               PROVE  r[i] = IF i <= n THEN q[i] ELSE IF i = n + 1 THEN j ELSE q[i - 1]
    BY <2>4, <2>5
  <2>6. CASE i <= n
    <3>1. i \in 1..n /\ i \in 1..(n + 1)
      BY <1>1, <2>6
    <3>2. r[i] = ab[i] /\ ab[i] = a[i] /\ a[i] = q[i]
      BY <1>1, <1>3, <2>2, <2>4, <2>5, <2>6, <3>1
    <3> QED
      BY <2>6, <3>2
  <2>7. CASE i = n + 1
    <3>1. r[i] = ab[i] /\ ab[i] = <<j>>[1]
      BY <1>1, <2>2, <2>4, <2>5, <2>7
    <3> QED
      BY <1>1, <2>1, <2>7, <3>1
  <2>8. CASE i > n + 1
    <3>1. i - (n + 1) \in 1..(Len(q) - n)
      BY <1>1, <2>8
    <3>2. r[i] = b[i - (n + 1)]
      BY <1>1, <2>2, <2>4, <2>5, <2>8
    <3>3. b[i - (n + 1)] = q[n + (i - (n + 1))] /\ n + (i - (n + 1)) = i - 1
      BY <1>1, <1>4, <3>1
    <3> QED
      BY <1>1, <2>8, <3>2, <3>3
  <2> QED
    BY <1>1, <2>6, <2>7, <2>8
<1>6. Enqueue(q, j) = r
  BY <1>2 DEF a, b
<1> HIDE DEF r
<1> QED
  BY <1>0, <1>1, <1>5, <1>6

\* submit() adds its job to the queue and disturbs no other.
LEMMA EnqueueProperties ==
  ASSUME NEW q \in Seq(Job), NEW j \in Job
  PROVE  /\ Enqueue(q, j) \in Seq(Job)
         /\ Len(Enqueue(q, j)) = Len(q) + 1
         /\ Elems(Enqueue(q, j)) = Elems(q) \cup {j}
<1> DEFINE r == Enqueue(q, j)
<1>0. PICK n \in 0..Len(q) :
        /\ r \in Seq(Job) /\ Len(r) = Len(q) + 1
        /\ \A i \in 1..(Len(q) + 1) :
             r[i] = IF i <= n THEN q[i] ELSE IF i = n + 1 THEN j ELSE q[i - 1]
  BY EnqueuePlaces
<1>1. n \in 0..Len(q) /\ Len(q) \in Nat
  OBVIOUS
<1> HIDE DEF r
<1>5. /\ r \in Seq(Job) /\ Len(r) = Len(q) + 1
      /\ \A i \in 1..(Len(q) + 1) :
            r[i] = IF i <= n THEN q[i] ELSE IF i = n + 1 THEN j ELSE q[i - 1]
  BY <1>0
<1>6. Elems(r) \subseteq Elems(q) \cup {j}
  <2> SUFFICES ASSUME NEW i \in 1..(Len(q) + 1) PROVE r[i] \in Elems(q) \cup {j}
    BY <1>5 DEF Elems
  <2>1. CASE i <= n
    BY <2>1, <1>1, <1>5 DEF Elems
  <2>2. CASE i = n + 1
    BY <2>2, <1>1, <1>5
  <2>3. CASE i > n + 1
    <3>1. i - 1 \in 1..Len(q) /\ r[i] = q[i - 1]
      BY <2>3, <1>1, <1>5
    <3> QED
      BY <3>1 DEF Elems
  <2> QED
    BY <1>1, <2>1, <2>2, <2>3
<1>7. j \in Elems(r)
  <2>1. n + 1 \in 1..Len(r) /\ r[n + 1] = j
    BY <1>1, <1>5
  <2> QED
    BY <2>1 DEF Elems
<1>8. Elems(q) \subseteq Elems(r)
  <2> SUFFICES ASSUME NEW i \in 1..Len(q) PROVE q[i] \in Elems(r)
    BY DEF Elems
  <2>1. CASE i <= n
    <3>1. i \in 1..Len(r) /\ r[i] = q[i]
      BY <2>1, <1>1, <1>5
    <3> QED
      BY <3>1 DEF Elems
  <2>2. CASE i > n
    <3>1. i + 1 \in 1..Len(r) /\ r[i + 1] = q[i]
      BY <2>2, <1>1, <1>5
    <3> QED
      BY <3>1 DEF Elems
  <2> QED
    BY <1>1, <2>1, <2>2
<1> QED
  BY <1>5, <1>6, <1>7, <1>8 DEF r

\* Filling in the outcome of a job gives a job.
LEMMA OutcomeType ==
  ASSUME NEW j \in Job, NEW f \in BOOLEAN, NEW c \in BOOLEAN, NEW p \in BOOLEAN
  PROVE  /\ Outcome(j, f, c, p) \in Job
         /\ Outcome(j, f, c, p).id = j.id
         /\ Outcome(j, f, c, p).op = j.op
         /\ Outcome(j, f, c, p).vfo = j.vfo
  BY DEF Outcome, Job

\* Cancelled jobs are the same number of jobs.
LEMMA CancelledType ==
  ASSUME NEW q \in Seq(Job)
  PROVE  Cancelled(q) \in Seq(Job) /\ Len(Cancelled(q)) = Len(q)
<1>1. \A k \in 1..Len(q) : q[k] \in Job
  OBVIOUS
<1>2. \A k \in 1..Len(q) : q[k].ptt \in BOOLEAN
  BY <1>1 DEF Job
<1>3. \A k \in 1..Len(q) : Outcome(q[k], TRUE, TRUE, q[k].ptt) \in Job
  BY <1>1, <1>2, OutcomeType
<1>4. Len(q) \in Nat
  OBVIOUS
<1> DEFINE c(k) == Outcome(q[k], TRUE, TRUE, q[k].ptt)
<1>5. Cancelled(q) = [k \in 1..Len(q) |-> c(k)]
  BY DEF Cancelled
<1>6. \A k \in 1..Len(q) : c(k) \in Job
  BY <1>3
<1> HIDE DEF c
<1> QED
  BY <1>4, <1>5, <1>6

\* Followers take over the outcome of the release they share.
LEMMA InheritType ==
  ASSUME NEW q \in Seq(Job), NEW j \in Job
  PROVE  Inherit(q, j) \in Seq(Job) /\ Len(Inherit(q, j)) = Len(q)
<1>1. \A k \in 1..Len(q) : q[k] \in Job
  OBVIOUS
<1>2. j.failed \in BOOLEAN /\ j.cancelled \in BOOLEAN /\ j.ptt \in BOOLEAN
  BY DEF Job
<1>3. \A k \in 1..Len(q) : Outcome(q[k], j.failed, j.cancelled, j.ptt) \in Job
  BY <1>1, <1>2, OutcomeType
<1>4. Len(q) \in Nat
  OBVIOUS
<1> QED
  BY <1>3, <1>4 DEF Inherit

----------------------------------------------------------------------------
(* The inductive invariant *)

\* The worker holds a job exactly between taking and finishing it.
WorkerState ==
  running_job = NoJob <=> worker \in {"idle", "final", "exited"}

\* Releases are numbered by submit(), so none is newer than the newest job.
Numbered == \A v \in VFO : last_off[v] <= submitted

\* A release that was sent to the radio and is about to be finished has taken
\* the VFO off the air, unless the radio reported a failure.
ReleaseSent ==
  worker = "finish" /\ IsRelease(running_job) =>
    ~tx[running_job.vfo] \/ off_failed[running_job.vfo]

\* No more results are waiting than the limit and the shutdown releases allow.
Bounded == outstanding <= QueueLimit + MaxVfos + final

IInv ==
  /\ TypeOK
  /\ Accounting
  /\ WorkerState
  /\ Numbered
  /\ Bounded
  /\ NoStaleKeyDown
  /\ ReleaseSent
  /\ ReleasedStaysReleased

\* The placeholder of an idle worker is not a job.
LEMMA NoJobNotJob == NoJob \notin Job
<1>1. NoJob.id = -1
  BY DEF NoJob
<1>2. \A j \in Job : j.id \in Nat
  BY DEF Job
<1> QED
  BY <1>1, <1>2

\* A freshly submitted job is a job with its number, operation and VFO.
LEMMA NewJobType ==
  ASSUME NEW n \in Nat, NEW op \in AllOperations, NEW v \in VFO
  PROVE  /\ NewJob(n, op, v) \in Job
         /\ NewJob(n, op, v).id = n
         /\ NewJob(n, op, v).op = op
         /\ NewJob(n, op, v).vfo = v
  BY DEF NewJob, Job

\* finish_job_locked moves one job and its followers to the done list, loses
\* none, and clears off_jobs only for the VFO of a release.
LEMMA FinishProperties ==
  ASSUME TypeOK, NEW j \in Job, FinishJobLocked(j)
  PROVE  /\ done' \in Seq(Job) /\ followers' \in Seq(Job)
         /\ off_jobs' \in [VFO -> Nat]
         /\ Len(done') + Len(followers') = Len(done) + Len(followers) + 1
         /\ \A v \in VFO : off_jobs'[v] = off_jobs[v] \/ (IsRelease(j) /\ v = j.vfo)
<1>0. /\ done \in Seq(Job) /\ followers \in Seq(Job) /\ off_jobs \in [VFO -> Nat]
      /\ Len(done) \in Nat /\ Len(followers) \in Nat /\ j.vfo \in VFO
  BY DEF TypeOK, Job
<1>1. Append(done, j) \in Seq(Job) /\ Len(Append(done, j)) = Len(done) + 1
  BY <1>0, AppendProperties
<1>2. CASE IsParent(j)
  <2> DEFINE F == Filter(followers, FollowersOf(j))
             W == Without(followers, FollowersOf(j))
             G == Inherit(F, j)
  <2>1. F \in Seq(Job) /\ W \in Seq(Job) /\ Len(F) + Len(W) = Len(followers)
    BY <1>0, FilterProperties, WithoutProperties, FilterWithoutLen
  <2>2. G \in Seq(Job) /\ Len(G) = Len(F)
    BY <2>1, InheritType
  <2>3. /\ off_jobs' = [off_jobs EXCEPT ![j.vfo] = 0]
        /\ done' = Append(done, j) \o G
        /\ followers' = W
    BY <1>2 DEF FinishJobLocked
  <2>4. Len(F) \in Nat /\ Len(W) \in Nat
    BY <2>1
  <2> HIDE DEF F, W, G
  <2>5. done' \in Seq(Job) /\ Len(done') = Len(done) + 1 + Len(G)
    <3>1. /\ Append(done, j) \o G \in Seq(Job)
          /\ Len(Append(done, j) \o G) = Len(Append(done, j)) + Len(G)
      BY <1>1, <2>2, ConcatProperties
    <3> QED
      BY <1>1, <2>3, <3>1
  <2>6. off_jobs' \in [VFO -> Nat] /\ \A v \in VFO : off_jobs'[v] = off_jobs[v] \/ v = j.vfo
    BY <1>0, <2>3
  <2>7. IsRelease(j)
    BY <1>2 DEF IsParent
  <2>8. Len(done') + Len(followers') = Len(done) + Len(followers) + 1
    <3>1. Len(followers') = Len(W)
      BY <2>3
    <3>2. Len(done') = Len(done) + 1 + Len(F)
      BY <2>2, <2>5
    <3>3. Len(followers) = Len(F) + Len(W)
      BY <2>1
    <3>4. Len(done) \in Nat /\ Len(F) \in Nat /\ Len(W) \in Nat
      BY <1>0, <2>4
    <3> QED
      BY <3>1, <3>2, <3>3, <3>4
  <2> QED
    BY <2>1, <2>3, <2>5, <2>6, <2>7, <2>8
<1>3. CASE ~IsParent(j)
  <2>1. done' = Append(done, j) /\ off_jobs' = off_jobs /\ followers' = followers
    BY <1>3 DEF FinishJobLocked
  <2> QED
    BY <1>0, <1>1, <2>1
<1> QED
  BY <1>2, <1>3

\* The worker starts in the invariant.
LEMMA InitIInv == Init => IInv
<1> SUFFICES ASSUME Init PROVE IInv
  OBVIOUS
<1> USE DEF Init
<1>1. TypeOK
  <2>1. /\ queue \in Seq(Job) /\ done \in Seq(Job)
        /\ followers \in Seq(Job) /\ jobs \in Seq(Job)
        /\ running_job \in Job \cup {NoJob}
    OBVIOUS
  <2>2. final \in 0..MaxVfos
    BY ConstantsAssumption
  <2>3. /\ off_jobs \in [VFO -> Nat] /\ last_off \in [VFO -> Nat]
        /\ keyed_by \in [VFO -> Nat]
        /\ outstanding \in Nat /\ submitted \in Nat
    OBVIOUS
  <2>4. /\ polls \in [VFO -> BOOLEAN] /\ keyed \in [VFO -> BOOLEAN]
        /\ cache \in [VFO -> BOOLEAN] /\ tx \in [VFO -> BOOLEAN]
        /\ off_failed \in [VFO -> BOOLEAN]
        /\ stopping \in BOOLEAN /\ halted \in BOOLEAN
    BY Zenon
  <2> QED
    BY <2>1, <2>2, <2>3, <2>4 DEF TypeOK
<1>2. Accounting
  BY DEF Accounting
<1>3. WorkerState /\ Numbered
  BY DEF WorkerState, Numbered
<1>4. Bounded
  BY ConstantsAssumption DEF Bounded
<1>5. NoStaleKeyDown
  BY DEF NoStaleKeyDown, Elems
<1>6. ReleaseSent /\ ReleasedStaysReleased
  BY DEF ReleaseSent, ReleasedStaysReleased
<1> QED
  BY <1>1, <1>2, <1>3, <1>4, <1>5, <1>6 DEF IInv

\* Every step of the worker, of the server or of the emergency stop keeps the
\* invariant.
LEMMA NextIInv == IInv /\ [Next]_vars => IInv'
<1> SUFFICES ASSUME IInv, [Next]_vars PROVE IInv'
  OBVIOUS
<1> USE ConstantsAssumption
<1>a. TypeOK /\ Accounting /\ WorkerState /\ Numbered /\ Bounded /\ NoStaleKeyDown
        /\ ReleaseSent /\ ReleasedStaysReleased
  BY DEF IInv
<1>b. /\ Len(queue) \in Nat /\ Len(done) \in Nat /\ Len(followers) \in Nat
      /\ Len(jobs) \in Nat
  BY <1>a DEF TypeOK
<1>c. \A j \in Job : /\ j.id \in Nat /\ j.op \in AllOperations /\ j.vfo \in VFO
                     /\ j.failed \in BOOLEAN /\ j.cancelled \in BOOLEAN /\ j.ptt \in BOOLEAN
  BY DEF Job
<1>1. ASSUME NEW v \in VFO, NEW op \in Operations, SubmitNormal(op, v) PROVE IInv'
  <2> USE <1>1 DEF SubmitNormal, thread, radio, history
  <2> DEFINE j == NewJob(submitted + 1, op, v)
  <2>1. j \in Job /\ j.id = submitted + 1 /\ j.op = op /\ j.vfo = v
    BY <1>a, NewJobType DEF TypeOK
  <2>2. /\ queue' \in Seq(Job) /\ Len(queue') = Len(queue) + 1
        /\ Elems(queue') = Elems(queue) \cup {j}
    <3>1. queue \in Seq(Job) /\ queue' = Enqueue(queue, j)
      BY <1>a DEF TypeOK
    <3> HIDE DEF j
    <3> QED
      BY <2>1, <3>1, EnqueueProperties
  <2> HIDE DEF j
  <2>3. polls' \in [VFO -> BOOLEAN]
    BY <1>a DEF TypeOK
  <2>4. TypeOK'
    BY <1>a, <2>2, <2>3 DEF TypeOK
  <2>5. Accounting'
    BY <1>a, <1>b, <2>2 DEF Accounting
  <2>6. WorkerState' /\ ReleaseSent' /\ ReleasedStaysReleased'
    BY <1>a DEF WorkerState, ReleaseSent, ReleasedStaysReleased
  <2>7. Numbered' /\ Bounded'
    BY <1>a DEF Numbered, Bounded, TypeOK, Refused
  <2>8. NoStaleKeyDown'
    BY <1>a, <2>1, <2>2 DEF NoStaleKeyDown, Numbered, TypeOK
  <2> QED
    BY <2>4, <2>5, <2>6, <2>7, <2>8 DEF IInv
<1>2. ASSUME NEW v \in VFO, SubmitRelease(v) PROVE IInv'
  <2> USE <1>2 DEF thread, radio
  <2> DEFINE j == NewJob(submitted + 1, "ptt_off", v)
             rest == Without(queue, Superseded(v))
             cut == Filter(queue, Superseded(v))
  <2>1. j \in Job /\ j.id = submitted + 1 /\ j.op = "ptt_off" /\ j.vfo = v
    BY <1>a, NewJobType DEF TypeOK, AllOperations
  <2>2. /\ rest \in Seq(Job) /\ cut \in Seq(Job) /\ Len(rest) \in Nat /\ Len(cut) \in Nat
        /\ Len(cut) + Len(rest) = Len(queue)
        /\ Elems(rest) = Elems(queue) \ Superseded(v)
    <3>1. queue \in Seq(Job)
      BY <1>a DEF TypeOK
    <3> HIDE DEF rest, cut
    <3>2. rest \in Seq(Job) /\ Elems(rest) = Elems(queue) \ Superseded(v)
      BY <3>1, WithoutProperties DEF rest
    <3>3. cut \in Seq(Job)
      BY <3>1, FilterProperties DEF cut
    <3>4. Len(cut) + Len(rest) = Len(queue)
      BY <3>1, FilterWithoutLen DEF cut, rest
    <3> QED
      BY <3>2, <3>3, <3>4
  <2>3. Cancelled(cut) \in Seq(Job) /\ Len(Cancelled(cut)) = Len(cut)
    <3> HIDE DEF cut
    <3> QED BY <2>2, CancelledType
  <2>4. /\ done' = done \o Cancelled(cut)
        /\ outstanding' = outstanding + 1
        /\ submitted' = submitted + 1
        /\ last_off' = [last_off EXCEPT ![v] = j.id]
        /\ UNCHANGED <<polls, stopping, worker, running_job, keyed, final, server, jobs,
                       cache, halted, tx, keyed_by, off_failed, last_call>>
        /\ outstanding < QueueLimit + MaxVfos
    BY <1>a DEF SubmitRelease, Refused, TypeOK
  <2>5. \/ /\ off_jobs[v] # 0 /\ queue' = rest
           /\ followers' = <<j>> \o followers /\ off_jobs' = off_jobs
        \/ /\ queue' = <<j>> \o rest /\ followers' = followers
           /\ off_jobs' = [off_jobs EXCEPT ![v] = j.id]
    BY DEF SubmitRelease
  <2> HIDE <1>2
  <2> HIDE DEF j, rest, cut
  <2>6. done' \in Seq(Job) /\ Len(done') = Len(done) + Len(cut)
    <3>1. done \in Seq(Job)
      BY <1>a DEF TypeOK
    <3>2. /\ done \o Cancelled(cut) \in Seq(Job)
          /\ Len(done \o Cancelled(cut)) = Len(done) + Len(Cancelled(cut))
      BY <2>3, <3>1, ConcatProperties
    <3> QED
      BY <2>3, <2>4, <3>2
  <2>7. /\ <<j>> \o followers \in Seq(Job) /\ Len(<<j>> \o followers) = Len(followers) + 1
        /\ <<j>> \o rest \in Seq(Job) /\ Len(<<j>> \o rest) = Len(rest) + 1
        /\ Elems(<<j>> \o rest) = Elems(rest) \cup {j}
    <3>1. followers \in Seq(Job)
      BY <1>a DEF TypeOK
    <3> QED
      BY <2>1, <2>2, <3>1, PushHead
  <2>8. /\ queue' \in Seq(Job) /\ followers' \in Seq(Job)
        /\ Len(queue') + Len(followers') = Len(rest) + Len(followers) + 1
        /\ Elems(queue') \subseteq Elems(rest) \cup {j}
    <3>1. followers \in Seq(Job) /\ Len(followers) \in Nat /\ Len(rest) \in Nat
      BY <1>a, <1>b, <2>2 DEF TypeOK
    <3>2. CASE queue' = rest /\ followers' = <<j>> \o followers
      <4>1. Len(queue') = Len(rest) /\ Len(followers') = Len(followers) + 1
        BY <2>7, <3>2
      <4> QED
        BY <2>2, <2>7, <3>1, <3>2, <4>1
    <3>3. CASE queue' = <<j>> \o rest /\ followers' = followers
      <4>1. Len(queue') = Len(rest) + 1 /\ Len(followers') = Len(followers)
        BY <2>7, <3>3
      <4> QED
        BY <2>7, <3>1, <3>3, <4>1, SMTT(30)
    <3> QED
      BY <2>5, <3>2, <3>3
  <2>9. off_jobs' \in [VFO -> Nat] /\ off_jobs'[v] # 0
        /\ \A w \in VFO : off_jobs[w] # 0 => off_jobs'[w] # 0
    <3>1. off_jobs \in [VFO -> Nat] /\ j.id \in Nat /\ j.id # 0
      BY <1>a, <2>1 DEF TypeOK
    <3>2. CASE off_jobs[v] # 0 /\ off_jobs' = off_jobs
      BY <3>1, <3>2
    <3>3. CASE off_jobs' = [off_jobs EXCEPT ![v] = j.id]
      BY <3>1, <3>3
    <3> QED
      BY <2>5, <3>2, <3>3
  <2>10. TypeOK'
    <3>1. submitted' \in Nat /\ outstanding' \in Nat
      BY <1>a, <2>4 DEF TypeOK
    <3>2. last_off' \in [VFO -> Nat]
      BY <1>a, <2>1, <2>4 DEF TypeOK
    <3> QED
      BY <1>a, <2>4, <2>6, <2>8, <2>9, <3>1, <3>2 DEF TypeOK
  <2>11. Accounting'
    <3> DEFINE r == IF running_job = NoJob THEN 0 ELSE 1
    <3>1. r \in Nat /\ outstanding = Len(queue) + Len(followers) + Len(done) + Len(jobs) + r
      BY <1>a DEF Accounting
    <3>2. Len(queue') \in Nat /\ Len(followers') \in Nat
      BY <2>8
    <3>3. Len(jobs') = Len(jobs) /\ running_job' = running_job
      BY <2>4
    <3> HIDE DEF r
    <3>4. outstanding' = Len(queue') + Len(followers') + Len(done') + Len(jobs') + r
      <4>1. Len(cut) + Len(rest) = Len(queue) /\ Len(cut) \in Nat /\ Len(rest) \in Nat
        BY <2>2
      <4>2. outstanding' = outstanding + 1 /\ Len(done') = Len(done) + Len(cut)
        BY <2>4, <2>6
      <4>3. Len(queue') + Len(followers') = Len(rest) + Len(followers) + 1
        BY <2>8
      <4> QED
        BY <1>b, <3>1, <3>2, <3>3, <4>1, <4>2, <4>3, SMTT(30)
    <3> QED
      BY <3>3, <3>4 DEF Accounting, r
  <2>12. WorkerState' /\ Numbered' /\ Bounded'
    BY <1>a, <2>1, <2>4 DEF WorkerState, Numbered, Bounded, TypeOK
  <2>13. NoStaleKeyDown'
    <3>1. \A w \in VFO : \A k \in Elems(queue') :
            IsKeyDown(k) /\ k.vfo = w => k.id > last_off'[w]
      <4> SUFFICES ASSUME NEW w \in VFO, NEW k \in Elems(queue'), IsKeyDown(k), k.vfo = w
                   PROVE  k.id > last_off'[w]
        OBVIOUS
      <4>1. k \in Elems(queue) /\ k \notin Superseded(v)
        BY <2>1, <2>2, <2>8 DEF IsKeyDown
      <4>2. w # v
        BY <4>1 DEF Superseded
      <4>3. last_off'[w] = last_off[w]
        BY <1>a, <2>4, <4>2 DEF TypeOK
      <4> QED
        BY <1>a, <4>1, <4>3 DEF NoStaleKeyDown
    <3>2. ASSUME NEW w \in VFO, running_job' # NoJob, IsKeyDown(running_job'),
                 running_job'.vfo = w, running_job'.id < last_off'[w]
          PROVE  off_jobs'[w] # 0
      <4>1. CASE w = v
        BY <2>9, <4>1
      <4>2. CASE w # v
        <5>1. last_off'[w] = last_off[w] /\ running_job' = running_job
          BY <1>a, <2>4, <4>2 DEF TypeOK
        <5>2. off_jobs[w] # 0
          BY <1>a, <3>2, <5>1 DEF NoStaleKeyDown
        <5> QED
          BY <2>9, <5>2
      <4> QED
        BY <4>1, <4>2
    <3> QED
      BY <3>1, <3>2 DEF NoStaleKeyDown
  <2>14. ReleaseSent'
    BY <1>a, <2>4 DEF ReleaseSent
  <2>15. ReleasedStaysReleased'
    BY <1>a, <2>4, <2>9 DEF ReleasedStaysReleased, TypeOK
  <2> QED
    BY <2>10, <2>11, <2>12, <2>13, <2>14, <2>15 DEF IInv
<1>3. ASSUME Take PROVE IInv'
  <2> USE <1>3 DEF Take, main, radio, history
  <2>1. /\ running_job' \in Job /\ running_job' \in Elems(queue)
        /\ queue' \in Seq(Job) /\ Len(queue') = Len(queue) - 1
        /\ Elems(queue') \subseteq Elems(queue)
    BY <1>a, TakeHead DEF TypeOK
  <2>2. running_job = NoJob /\ running_job' # NoJob
    BY <1>a, <2>1, NoJobNotJob DEF WorkerState
  <2>3. TypeOK'
    BY <1>a, <2>1 DEF TypeOK
  <2>4. Accounting'
    <3>1. outstanding = Len(queue) + Len(followers) + Len(done) + Len(jobs) + 0
      BY <1>a, <2>2 DEF Accounting
    <3>2. outstanding' = Len(queue') + Len(followers') + Len(done') + Len(jobs') + 1
      BY <1>b, <2>1, <3>1
    <3> QED
      BY <2>2, <3>2 DEF Accounting
  <2>5. WorkerState' /\ Numbered' /\ Bounded' /\ ReleaseSent' /\ ReleasedStaysReleased'
    BY <1>a, <2>2 DEF WorkerState, Numbered, Bounded, ReleaseSent, ReleasedStaysReleased
  <2>6. NoStaleKeyDown'
    <3>1. \A w \in VFO : IsKeyDown(running_job') /\ running_job'.vfo = w
                           => running_job'.id > last_off[w]
      BY <1>a, <2>1 DEF NoStaleKeyDown
    <3>2. \A w \in VFO : last_off[w] \in Nat
      BY <1>a DEF TypeOK
    <3>3. running_job'.id \in Nat
      BY <1>c, <2>1
    <3> QED
      BY <1>a, <2>1, <3>1, <3>2, <3>3 DEF NoStaleKeyDown
  <2> QED
    BY <2>3, <2>4, <2>5, <2>6 DEF IInv
<1>4. ASSUME CheckHalted PROVE IInv'
  <2> USE <1>4 DEF CheckHalted, locked, main, radio, history
  <2>1. running_job \in Job /\ running_job # NoJob
    BY <1>a, NoJobNotJob DEF WorkerState, TypeOK
  <2>2. /\ running_job' \in Job
        /\ running_job'.id = running_job.id
        /\ running_job'.op = running_job.op
        /\ running_job'.vfo = running_job.vfo
        /\ worker' \in {"finish", "call"}
        /\ worker' = "finish" => running_job.op # "ptt_off"
    <3>1. keyed[running_job.vfo] \in BOOLEAN
      BY <1>a, <1>c, <2>1 DEF TypeOK
    <3>2. CASE halted /\ running_job.op \notin ReadOnly \cup {"ptt_off"}
      <4>1. /\ worker' = "finish"
            /\ running_job' = Outcome(running_job, TRUE, FALSE, keyed[running_job.vfo])
        BY <3>2
      <4> QED
        BY <2>1, <3>1, <3>2, <4>1, OutcomeType
    <3>3. CASE ~(halted /\ running_job.op \notin ReadOnly \cup {"ptt_off"})
      BY <2>1, <3>3
    <3> QED
      BY <3>2, <3>3
  <2>3. running_job' # NoJob
    BY <2>2, NoJobNotJob
  <2>4. UNCHANGED <<locked, keyed, final, main, radio, history>>
    OBVIOUS
  <2> HIDE <1>4
  <2> HIDE DEF CheckHalted
  <2>5. TypeOK'
    BY <1>a, <2>2, <2>4 DEF TypeOK
  <2>6. Accounting' /\ WorkerState' /\ Numbered' /\ Bounded'
    BY <1>a, <2>1, <2>2, <2>3, <2>4 DEF Accounting, WorkerState, Numbered, Bounded
  <2>7. NoStaleKeyDown'
    BY <1>a, <2>1, <2>2, <2>4 DEF NoStaleKeyDown, IsKeyDown
  <2>8. ReleaseSent' /\ ReleasedStaysReleased'
    BY <1>a, <2>2, <2>4 DEF ReleaseSent, ReleasedStaysReleased, IsRelease
  <2> QED
    BY <2>5, <2>6, <2>7, <2>8 DEF IInv
<1>5. ASSUME Call PROVE IInv'
  <2> DEFINE j == running_job
             v == running_job.vfo
  <2>1. j \in Job /\ j # NoJob /\ v \in VFO /\ j.id \in Nat
    BY <1>5, <1>a, <1>c, NoJobNotJob DEF Call, WorkerState, TypeOK
  <2>2. PICK failed \in BOOLEAN :
          /\ IF j.op \in {"ptt_on", "ptt_off"}
               THEN PttSet(v, j.op = "ptt_on", failed)
               ELSE /\ \/ UNCHANGED keyed
                       \/ ~failed /\ keyed' = [keyed EXCEPT ![v] = tx[v]]
                    /\ UNCHANGED <<tx, last_call>>
          /\ running_job' = Outcome(j, failed, FALSE, keyed'[v])
          /\ keyed_by' = IF IsKeyDown(j) THEN [keyed_by EXCEPT ![v] = j.id] ELSE keyed_by
          /\ off_failed' = IF IsRelease(j) THEN [off_failed EXCEPT ![v] = failed] ELSE off_failed
    BY <1>5 DEF Call
  <2>3. /\ UNCHANGED <<locked, final, main, halted, last_off>>
        /\ worker = "call" /\ worker' = "finish"
    BY <1>5 DEF Call
  <2> USE DEF locked, main
  <2>4. /\ tx' \in [VFO -> BOOLEAN] /\ keyed' \in [VFO -> BOOLEAN]
        /\ last_call' \in [VFO -> {"none", "on", "off"}]
        /\ keyed_by' \in [VFO -> Nat] /\ off_failed' \in [VFO -> BOOLEAN]
    <3>1. keyed_by' \in [VFO -> Nat]
      BY <1>a, <2>1, <2>2 DEF TypeOK
    <3>2. off_failed' \in [VFO -> BOOLEAN]
      BY <1>a, <2>1, <2>2 DEF TypeOK
    <3>3. CASE j.op \in {"ptt_on", "ptt_off"}
      <4> DEFINE on == (j.op = "ptt_on")
      <4>1. PttSet(v, on, failed)
        BY <2>2, <3>3
      <4>2. on \in BOOLEAN
        OBVIOUS
      <4> HIDE DEF on
      <4>3. tx' \in [VFO -> BOOLEAN]
        BY <1>a, <2>1, <4>1, <4>2 DEF PttSet, TypeOK
      <4>4. keyed' \in [VFO -> BOOLEAN]
        BY <1>a, <2>1, <4>1, <4>2 DEF PttSet, TypeOK
      <4>5. last_call' \in [VFO -> {"none", "on", "off"}]
        BY <1>a, <2>1, <4>1, <4>2 DEF PttSet, TypeOK
      <4> QED
        BY <3>1, <3>2, <4>3, <4>4, <4>5
    <3>4. CASE j.op \notin {"ptt_on", "ptt_off"}
      BY <1>a, <2>1, <2>2, <3>1, <3>2, <3>4, ZenonT(60) DEF TypeOK
    <3> QED
      BY <3>3, <3>4
  <2>5. /\ running_job' \in Job /\ running_job'.id = j.id
        /\ running_job'.op = j.op /\ running_job'.vfo = v
    <3>1. keyed'[v] \in BOOLEAN
      BY <2>1, <2>4
    <3>2. running_job' = Outcome(j, failed, FALSE, keyed'[v])
      BY <2>2
    <3> HIDE DEF j, v
    <3>3. /\ Outcome(j, failed, FALSE, keyed'[v]) \in Job
          /\ Outcome(j, failed, FALSE, keyed'[v]).id = j.id
          /\ Outcome(j, failed, FALSE, keyed'[v]).op = j.op
          /\ Outcome(j, failed, FALSE, keyed'[v]).vfo = j.vfo
      BY <2>1, <3>1, OutcomeType, ZenonT(60)
    <3>4. j.vfo = v
      BY DEF j, v
    <3> QED
      BY <3>2, <3>3, <3>4
  <2>6. running_job' # NoJob
    BY <2>5, NoJobNotJob
  <2>7. TypeOK'
    BY <1>a, <2>3, <2>4, <2>5 DEF TypeOK
  <2>8. Accounting' /\ WorkerState' /\ Numbered' /\ Bounded'
    BY <1>a, <2>1, <2>3, <2>6 DEF Accounting, WorkerState, Numbered, Bounded
  <2>9. NoStaleKeyDown'
    BY <1>a, <2>1, <2>3, <2>5 DEF NoStaleKeyDown, IsKeyDown
  <2>10. IsRelease(j) => ~tx'[v] \/ off_failed'[v]
    <3> SUFFICES ASSUME j.op = "ptt_off" PROVE ~tx'[v] \/ off_failed'[v]
      BY DEF IsRelease
    <3>1. PttSet(v, FALSE, failed) /\ off_failed' = [off_failed EXCEPT ![v] = failed]
      BY <2>2 DEF IsRelease
    <3>2. CASE failed
      BY <1>a, <2>1, <3>1, <3>2 DEF TypeOK
    <3>3. CASE ~failed
      BY <1>a, <2>1, <3>1, <3>3 DEF TypeOK, PttSet
    <3> QED
      BY <3>2, <3>3
  <2>11. ReleaseSent'
    BY <2>3, <2>5, <2>10 DEF ReleaseSent, IsRelease
  <2>12. ReleasedStaysReleased'
    <3> SUFFICES ASSUME NEW w \in VFO, tx'[w], last_off'[w] > keyed_by'[w]
                 PROVE  off_jobs'[w] # 0 \/ off_failed'[w]
      BY DEF ReleasedStaysReleased
    <3>1. last_off' = last_off /\ off_jobs' = off_jobs /\ last_off[w] \in Nat
      BY <1>a, <2>3 DEF TypeOK
    <3>2. CASE w # v
      <4>1. keyed_by'[w] = keyed_by[w] /\ off_failed'[w] = off_failed[w]
        BY <1>a, <2>1, <2>2, <3>2 DEF TypeOK
      <4>2. tx'[w] = tx[w]
        <5>1. CASE j.op \in {"ptt_on", "ptt_off"}
          <6> DEFINE on == (j.op = "ptt_on")
          <6>1. PttSet(v, on, failed)
            BY <2>2, <5>1
          <6> HIDE DEF on
          <6> QED
            BY <1>a, <2>1, <3>2, <6>1 DEF TypeOK, PttSet
        <5>2. CASE j.op \notin {"ptt_on", "ptt_off"}
          BY <2>2, <5>2
        <5> QED
          BY <5>1, <5>2
      <4> QED
        BY <1>a, <3>1, <4>1, <4>2 DEF ReleasedStaysReleased
    <3>3. CASE w = v /\ IsRelease(j)
      BY <2>10, <3>3
    <3>4. CASE w = v /\ IsKeyDown(j)
      <4>1. keyed_by'[w] = j.id
        BY <1>a, <2>1, <2>2, <3>4 DEF TypeOK
      <4>2. j.id < last_off[w]
        BY <2>1, <3>1, <4>1
      <4> QED
        BY <1>a, <2>1, <3>1, <3>4, <4>2 DEF NoStaleKeyDown
    <3>5. CASE w = v /\ ~IsRelease(j) /\ ~IsKeyDown(j)
      <4>1. tx' = tx /\ keyed_by' = keyed_by /\ off_failed' = off_failed
        BY <2>2, <3>5 DEF IsRelease, IsKeyDown
      <4> QED
        BY <1>a, <3>1, <4>1 DEF ReleasedStaysReleased
    <3> QED
      BY <3>2, <3>3, <3>4, <3>5
  <2> QED
    BY <2>7, <2>8, <2>9, <2>11, <2>12 DEF IInv
<1>6. ASSUME Finish PROVE IInv'
  <2>1. running_job \in Job /\ running_job # NoJob
    BY <1>6, <1>a, NoJobNotJob DEF Finish, WorkerState, TypeOK
  <2>2. /\ done' \in Seq(Job) /\ followers' \in Seq(Job)
        /\ off_jobs' \in [VFO -> Nat]
        /\ Len(done') + Len(followers') = Len(done) + Len(followers) + 1
        /\ \A w \in VFO : off_jobs'[w] = off_jobs[w]
                            \/ (IsRelease(running_job) /\ w = running_job.vfo)
    BY <1>6, <1>a, <2>1, FinishProperties DEF Finish
  <2>3. /\ worker = "finish" /\ worker' = "idle" /\ running_job' = NoJob
        /\ UNCHANGED <<queue, polls, outstanding, stopping, keyed, final, main, radio, history>>
    BY <1>6 DEF Finish
  <2> USE DEF main, radio, history
  <2>4. TypeOK'
    BY <1>a, <2>2, <2>3 DEF TypeOK
  <2>5. Accounting'
    <3>1. outstanding = Len(queue) + Len(followers) + Len(done) + Len(jobs) + 1
      BY <1>a, <2>1 DEF Accounting
    <3>2. Len(done') \in Nat /\ Len(followers') \in Nat
      BY <2>2
    <3>3. Len(queue') = Len(queue) /\ Len(jobs') = Len(jobs) /\ outstanding' = outstanding
      BY <2>3
    <3>4. outstanding' = Len(queue') + Len(followers') + Len(done') + Len(jobs') + 0
      <4>1. Len(done') + Len(followers') = Len(done) + Len(followers) + 1
        BY <2>2
      <4> QED
        BY <1>b, <3>1, <3>2, <3>3, <4>1
    <3> QED
      BY <2>3, <3>4 DEF Accounting
  <2>6. WorkerState' /\ Numbered' /\ Bounded' /\ ReleaseSent'
    BY <1>a, <2>3 DEF WorkerState, Numbered, Bounded, ReleaseSent
  <2>7. NoStaleKeyDown'
    BY <1>a, <2>3 DEF NoStaleKeyDown
  <2>8. ReleasedStaysReleased'
    <3> SUFFICES ASSUME NEW w \in VFO, tx[w], last_off[w] > keyed_by[w]
                 PROVE  off_jobs'[w] # 0 \/ off_failed[w]
      BY <2>3 DEF ReleasedStaysReleased
    <3>1. off_jobs[w] # 0 \/ off_failed[w]
      BY <1>a DEF ReleasedStaysReleased
    <3>2. CASE off_jobs'[w] = off_jobs[w]
      BY <3>1, <3>2
    <3>3. CASE IsRelease(running_job) /\ w = running_job.vfo
      BY <1>a, <2>3, <3>3 DEF ReleaseSent
    <3> QED
      BY <2>2, <3>2, <3>3
  <2> QED
    BY <2>4, <2>5, <2>6, <2>7, <2>8 DEF IInv
<1>7. ASSUME LeaveLoop \/ WorkerExit PROVE IInv'
  <2>1. /\ worker \in {"idle", "final"} /\ worker' \in {"final", "exited"}
        /\ UNCHANGED <<locked, running_job, keyed, final, main, radio, history>>
    BY <1>7 DEF LeaveLoop, WorkerExit
  <2> USE DEF locked, main, radio, history
  <2>2. TypeOK'
    BY <1>a, <2>1 DEF TypeOK
  <2> QED
    BY <1>a, <2>1, <2>2 DEF IInv, Accounting, WorkerState, Numbered, Bounded,
       NoStaleKeyDown, ReleaseSent, ReleasedStaysReleased
<1>8. ASSUME FinalRelease PROVE IInv'
  <2>1. /\ worker = "final" /\ worker' = worker /\ final < MaxVfos /\ final' = final + 1
        /\ UNCHANGED <<queue, off_jobs, followers, polls, stopping, running_job, keyed,
                       main, halted, last_off, keyed_by>>
    BY <1>8 DEF FinalRelease
  <2> USE DEF main
  <2>2. final \in VFO /\ running_job = NoJob
    BY <1>a, <2>1 DEF TypeOK, VFO, WorkerState
  <2>3. CASE keyed[final]
    <3> DEFINE j == NewJob(0, "poll", final)
    <3>1. j \in Job
      BY <2>2, NewJobType DEF AllOperations
    <3>2. done' = Append(done, j) /\ outstanding' = outstanding + 1
          /\ last_call' = [last_call EXCEPT ![final] = "off"]
      BY <1>8, <2>3 DEF FinalRelease
    <3>3. PICK failed \in BOOLEAN :
            /\ tx' = [tx EXCEPT ![final] = FALSE] \/ (failed /\ UNCHANGED tx)
            /\ off_failed' = [off_failed EXCEPT ![final] = failed]
      BY <1>8, <2>3 DEF FinalRelease
    <3> HIDE DEF j
    <3>4. done' \in Seq(Job) /\ Len(done') = Len(done) + 1
      BY <1>a, <3>1, <3>2, AppendProperties DEF TypeOK
    <3>5. tx' \in [VFO -> BOOLEAN] /\ off_failed' \in [VFO -> BOOLEAN]
      BY <1>a, <2>2, <3>3 DEF TypeOK
    <3>6. TypeOK'
      <4>1. final' \in 0..MaxVfos /\ outstanding' \in Nat
        BY <1>a, <2>1, <3>2 DEF TypeOK
      <4>2. last_call' \in [VFO -> {"none", "on", "off"}]
        BY <1>a, <2>2, <3>2 DEF TypeOK
      <4> QED
        BY <1>a, <2>1, <3>4, <3>5, <4>1, <4>2 DEF TypeOK
    <3>7. Accounting'
      BY <1>a, <1>b, <2>1, <3>2, <3>4 DEF Accounting
    <3>8. WorkerState' /\ Numbered' /\ ReleaseSent'
      BY <1>a, <2>1 DEF WorkerState, Numbered, ReleaseSent
    <3>9. Bounded'
      BY <1>a, <2>1, <3>2 DEF Bounded, TypeOK
    <3>10. NoStaleKeyDown'
      BY <1>a, <2>1 DEF NoStaleKeyDown
    <3>11. ReleasedStaysReleased'
      <4> SUFFICES ASSUME NEW w \in VFO, tx'[w], last_off[w] > keyed_by[w]
                   PROVE  off_jobs[w] # 0 \/ off_failed'[w]
        BY <2>1 DEF ReleasedStaysReleased
      <4>1. CASE w # final
        <5>1. tx'[w] = tx[w] /\ off_failed'[w] = off_failed[w]
          BY <1>a, <2>2, <3>3, <4>1 DEF TypeOK
        <5> QED
          BY <1>a, <5>1 DEF ReleasedStaysReleased
      <4>2. CASE w = final
        <5>1. off_failed'[w] = failed
          BY <1>a, <2>2, <3>3, <4>2 DEF TypeOK
        <5>2. CASE tx' = [tx EXCEPT ![final] = FALSE]
          BY <1>a, <2>2, <4>2, <5>2 DEF TypeOK
        <5> QED
          BY <3>3, <5>1, <5>2
      <4> QED
        BY <4>1, <4>2
    <3> QED
      BY <3>6, <3>7, <3>8, <3>9, <3>10, <3>11 DEF IInv
  <2>4. CASE ~keyed[final]
    <3>1. UNCHANGED <<tx, off_failed, last_call, done, outstanding>>
      BY <1>8, <2>4 DEF FinalRelease
    <3>2. TypeOK'
      <4>1. final' \in 0..MaxVfos
        BY <1>a, <2>1 DEF TypeOK
      <4> QED
        BY ZenonT(40), <1>a, <2>1, <3>1, <4>1 DEF TypeOK
    <3>3. Bounded'
      BY <1>a, <2>1, <3>1 DEF Bounded, TypeOK
    <3> QED
      BY <1>a, <2>1, <3>1, <3>2, <3>3 DEF IInv, Accounting, WorkerState, Numbered,
         NoStaleKeyDown, ReleaseSent, ReleasedStaysReleased
  <2> QED
    BY <2>3, <2>4
<1>9. ASSUME DrainTake PROVE IInv'
  <2> USE <1>9 DEF DrainTake, thread, radio, history
  <2>1. TypeOK'
    BY <1>a DEF TypeOK
  <2>2. Accounting'
    <3>1. Len(jobs) = 0 /\ Len(done') = 0 /\ Len(jobs') = Len(done)
      OBVIOUS
    <3> QED
      BY <1>a, <1>b, <3>1 DEF Accounting
  <2> QED
    BY <1>a, <2>1, <2>2 DEF IInv, WorkerState, Numbered, Bounded,
       NoStaleKeyDown, ReleaseSent, ReleasedStaysReleased
<1>10. ASSUME DrainJob PROVE IInv'
  <2> USE <1>10 DEF thread, radio, history
  <2>1. /\ jobs # <<>> /\ jobs' = Tail(jobs) /\ outstanding' = outstanding - 1
        /\ UNCHANGED <<queue, done, off_jobs, followers, stopping, thread, server,
                       submitted, radio, history>>
    BY DEF DrainJob
  <2>2. Head(jobs) \in Job /\ jobs' \in Seq(Job) /\ Len(jobs') = Len(jobs) - 1
    BY <1>a, <2>1, TakeHead DEF TypeOK
  <2> DEFINE j == Delivered(Head(jobs))
  <2>3. j \in Job
    <3>1. Head(jobs).ptt \in BOOLEAN
      BY <1>c, <2>2
    <3>2. Outcome(Head(jobs), TRUE, TRUE, Head(jobs).ptt) \in Job
      BY <2>2, <3>1, OutcomeType
    <3> QED
      BY <2>2, <3>2 DEF Delivered
  <2>4. /\ cache' = IF j.cancelled THEN cache ELSE [cache EXCEPT ![j.vfo] = j.ptt]
        /\ polls' = IF j.op = "poll" THEN [polls EXCEPT ![j.vfo] = FALSE] ELSE polls
    BY DEF DrainJob
  <2> HIDE DEF j
  <2>5. cache' \in [VFO -> BOOLEAN] /\ polls' \in [VFO -> BOOLEAN]
    BY <1>a, <1>c, <2>3, <2>4 DEF TypeOK
  <2>6. Accounting'
    <3>1. running_job' = running_job /\ Len(jobs) \in Nat \ {0}
      BY <1>a, <2>1 DEF TypeOK
    <3> QED
      BY <1>a, <1>b, <2>1, <2>2, <3>1 DEF Accounting
  <2>7. outstanding' \in Nat
    <3>1. /\ Len(queue') \in Nat /\ Len(followers') \in Nat /\ Len(done') \in Nat
          /\ Len(jobs') \in Nat
      BY <1>b, <2>1, <2>2
    <3> QED
      BY <2>6, <3>1 DEF Accounting
  <2>8. TypeOK'
    BY <1>a, <2>1, <2>2, <2>5, <2>7 DEF TypeOK
  <2>9. Bounded'
    BY <1>a, <2>1 DEF Bounded, TypeOK
  <2> QED
    BY <1>a, <2>1, <2>6, <2>8, <2>9 DEF IInv, WorkerState, Numbered,
       NoStaleKeyDown, ReleaseSent, ReleasedStaysReleased
<1>11. ASSUME Stop PROVE IInv'
  <2> DEFINE normal == {k \in Elems(queue) : ~IsRelease(k)}
             cut == Filter(queue, normal)
  <2>1. /\ stopping' = TRUE /\ server' = "join"
        /\ queue' = Without(queue, normal) /\ done' = done \o Cancelled(cut)
        /\ UNCHANGED <<off_jobs, followers, polls, outstanding, thread, jobs, cache,
                       submitted, radio, history>>
    BY <1>11 DEF Stop
  <2> USE DEF thread, radio, history
  <2> HIDE DEF normal
  <2>2. /\ queue' \in Seq(Job) /\ cut \in Seq(Job) /\ Len(cut) \in Nat /\ Len(queue') \in Nat
        /\ Elems(queue') \subseteq Elems(queue)
    BY <1>a, <2>1, FilterProperties, WithoutProperties DEF TypeOK
  <2>3. Len(cut) + Len(queue') = Len(queue)
    BY <1>a, <2>1, FilterWithoutLen DEF TypeOK
  <2> HIDE DEF cut
  <2>4. Cancelled(cut) \in Seq(Job) /\ Len(Cancelled(cut)) = Len(cut)
    BY <2>2, CancelledType
  <2>5. done' \in Seq(Job) /\ Len(done') = Len(done) + Len(cut)
    <3>1. /\ done \o Cancelled(cut) \in Seq(Job)
          /\ Len(done \o Cancelled(cut)) = Len(done) + Len(Cancelled(cut))
      BY <1>a, <2>4, ConcatProperties DEF TypeOK
    <3> QED
      BY <2>1, <2>4, <3>1
  <2>6. TypeOK'
    BY <1>a, <2>1, <2>2, <2>5 DEF TypeOK
  <2>7. Accounting'
    <3> DEFINE r == IF running_job = NoJob THEN 0 ELSE 1
    <3>1. r \in Nat /\ outstanding = Len(queue) + Len(followers) + Len(done) + Len(jobs) + r
      BY <1>a DEF Accounting
    <3>2. /\ Len(followers') = Len(followers) /\ Len(jobs') = Len(jobs)
          /\ running_job' = running_job /\ outstanding' = outstanding
      BY <2>1
    <3> HIDE DEF r
    <3>3. outstanding' = Len(queue') + Len(followers') + Len(done') + Len(jobs') + r
      BY <1>b, <2>2, <2>3, <2>5, <3>1, <3>2
    <3> QED
      BY <3>2, <3>3 DEF Accounting, r
  <2>8. NoStaleKeyDown'
    BY <1>a, <2>1, <2>2 DEF NoStaleKeyDown
  <2> QED
    BY <1>a, <2>1, <2>6, <2>7, <2>8 DEF IInv, WorkerState, Numbered, Bounded,
       ReleaseSent, ReleasedStaysReleased
<1>12. ASSUME Free \/ SetHalted \/ Freed \/ UNCHANGED vars PROVE IInv'
  <2> USE <1>12 DEF Free, SetHalted, Freed, vars, locked, thread, main, radio, history
  <2>1. TypeOK'
    BY <1>a DEF TypeOK
  <2>2. /\ UNCHANGED <<queue, done, off_jobs, followers, outstanding, worker, running_job,
                       jobs, submitted, tx, final, last_off, keyed_by, off_failed>>
    OBVIOUS
  <2> HIDE <1>12
  <2> HIDE DEF Free, SetHalted, Freed
  <2> QED
    BY <1>a, <2>1, <2>2 DEF IInv, Accounting, WorkerState, Numbered, Bounded,
       NoStaleKeyDown, ReleaseSent, ReleasedStaysReleased
<1> QED
  BY <1>1, <1>2, <1>3, <1>4, <1>5, <1>6, <1>7, <1>8, <1>9, <1>10, <1>11, <1>12
     DEF Next, Submit, WorkerStep, DrainStep

\* The inductive invariant holds in every state the worker and the server
\* reach, whatever the queue limit, the VFOs and the order of submissions.
THEOREM WorkerInvariant == Spec => []IInv
  BY InitIInv, NextIInv, PTL DEF Spec

\* Lists, counters and flags of backend.worker.c keep their types.
THEOREM WorkerTypeOK == Spec => []TypeOK
<1>1. IInv => TypeOK
  BY DEF IInv
<1> QED
  BY <1>1, WorkerInvariant, PTL

\* outstanding counts exactly the jobs in all lists: submit(), cancellation,
\* sharing, finishing and drain() neither lose nor duplicate one.
THEOREM WorkerAccounting == Spec => []Accounting
<1>1. IInv => Accounting
  BY DEF IInv
<1> QED
  BY <1>1, WorkerInvariant, PTL

\* An accepted release overtakes every older key-down of its VFO.
THEOREM WorkerNoStaleKeyDown == Spec => []NoStaleKeyDown
<1>1. IInv => NoStaleKeyDown
  BY DEF IInv
<1> QED
  BY <1>1, WorkerInvariant, PTL

\* A transmitter whose release was accepted is off the air, about to be
\* released, or known to the radio link as failed to release.
THEOREM WorkerReleasedStaysReleased == Spec => []ReleasedStaysReleased
<1>1. IInv => ReleasedStaysReleased
  BY DEF IInv
<1> QED
  BY <1>1, WorkerInvariant, PTL

----------------------------------------------------------------------------
(* The invariant of the queue *)

\* What a job may be queued in front of.
Before(a, b) ==
  /\ IsRelease(b) => IsRelease(a)
  /\ a.op = "poll" => b.op = "poll"
  /\ ~IsRelease(a) /\ b.op # "poll" => a.id < b.id
  /\ ~(IsRelease(a) /\ IsRelease(b) /\ a.vfo = b.vfo)

Ordered(q) == \A i, k \in 1..Len(q) : i < k => Before(q[i], q[k])

\* Queued jobs carry numbers that submit() gave out.
QueueNumbered == \A j \in Elems(queue) : j.id <= submitted

\* A release that is queued or running is the one off_jobs names.
ReleaseNamed ==
  /\ \A j \in Elems(queue) :
       IsRelease(j) => j.id # 0 /\ off_jobs[j.vfo] = j.id
  /\ running_job # NoJob /\ IsRelease(running_job) =>
       running_job.id # 0 /\ off_jobs[running_job.vfo] = running_job.id

\* A release that off_jobs names is queued or running ...
ReleasePending ==
  \A v \in VFO : off_jobs[v] # 0 =>
    \/ \E j \in Elems(queue) : IsRelease(j) /\ j.vfo = v
    \/ running_job # NoJob /\ IsRelease(running_job) /\ running_job.vfo = v

\* ... and not both.
ReleaseOnce ==
  running_job # NoJob /\ IsRelease(running_job) =>
    \A j \in Elems(queue) : ~(IsRelease(j) /\ j.vfo = running_job.vfo)

\* The worker leaves its loop only after stop(), with nothing queued.
Leaving ==
  /\ stopping <=> server # "run"
  /\ worker \in {"final", "exited"} => stopping /\ queue = <<>>

\* How far the last releases have come: those already made reached the radio
\* or were reported as failed.
FinalSent ==
  /\ worker \notin {"final", "exited"} => final = 0
  /\ worker = "exited" => final = MaxVfos
  /\ \A v \in VFO : v < final /\ keyed[v] => ~tx[v] \/ off_failed[v]

QInv ==
  /\ Ordered(queue)
  /\ QueueNumbered
  /\ ReleaseNamed
  /\ ReleasePending
  /\ ReleaseOnce
  /\ Leaving
  /\ FinalSent

----------------------------------------------------------------------------
(* The order of the queue *)

\* Taking the head keeps the order of the rest.
LEMMA TailOrdered ==
  ASSUME NEW q \in Seq(Job), q # <<>>, Ordered(q)
  PROVE  /\ Ordered(Tail(q))
         /\ \A x \in Elems(Tail(q)) : Before(Head(q), x)
         /\ Elems(q) = Elems(Tail(q)) \cup {Head(q)}
<1> DEFINE t == Tail(q)
<1>1. /\ t \in Seq(Job) /\ Len(t) = Len(q) - 1 /\ Len(q) \in Nat /\ Len(q) # 0
      /\ \A i \in 1..Len(t) : t[i] = q[i + 1]
      /\ Head(q) = q[1]
  BY HeadTailProperties
<1> HIDE DEF t
<1>2. Ordered(t)
  <2> SUFFICES ASSUME NEW i \in 1..Len(t), NEW k \in 1..Len(t), i < k
               PROVE  Before(t[i], t[k])
    BY DEF Ordered
  <2>1. i + 1 \in 1..Len(q) /\ k + 1 \in 1..Len(q) /\ i + 1 < k + 1
    BY <1>1
  <2>2. Before(q[i + 1], q[k + 1])
    BY <2>1 DEF Ordered
  <2> QED
    BY <1>1, <2>2
<1>3. ASSUME NEW i \in 1..Len(t) PROVE Before(Head(q), t[i])
  <2>1. 1 \in 1..Len(q) /\ i + 1 \in 1..Len(q) /\ 1 < i + 1
    BY <1>1
  <2>2. Before(q[1], q[i + 1])
    BY <2>1 DEF Ordered
  <2> QED
    BY <1>1, <2>2
<1>4. Elems(q) \subseteq Elems(t) \cup {Head(q)}
  <2> SUFFICES ASSUME NEW i \in 1..Len(q) PROVE q[i] \in Elems(t) \cup {Head(q)}
    BY DEF Elems
  <2>1. CASE i = 1
    BY <1>1, <2>1
  <2>2. CASE i # 1
    <3>1. i - 1 \in 1..Len(t) /\ t[i - 1] = q[i]
      BY <1>1, <2>2
    <3> QED
      BY <3>1 DEF Elems
  <2> QED
    BY <2>1, <2>2
<1>5. Head(q) \in Elems(q) /\ Elems(t) \subseteq Elems(q)
  BY TakeHead DEF t
<1> QED
  BY <1>2, <1>3, <1>4, <1>5 DEF t, Elems

\* Unlinking jobs keeps the order of the others.
LEMMA WithoutOrdered ==
  ASSUME NEW q \in Seq(Job), NEW S, Ordered(q)
  PROVE  Ordered(Without(q, S))
<1> DEFINE r == Without(q, S)
           P == Positions(q, Elems(q) \ S)
<1>1. /\ \A k \in 1..Len(r) : Nth(P, k) \in P /\ r[k] = q[Nth(P, k)]
      /\ \A k, m \in 1..Len(r) : k < m => Nth(P, k) < Nth(P, m)
  BY FilterProperties DEF Without
<1>2. P \subseteq 1..Len(q)
  BY DEF Positions
<1> HIDE DEF r, P
<1>3. Ordered(r)
  BY <1>1, <1>2 DEF Ordered
<1> QED
  BY <1>3 DEF r

\* A control in front of the first poll, or a poll at the tail, fits in.
LEMMA EnqueueOrdered ==
  ASSUME NEW q \in Seq(Job), NEW j \in Job, Ordered(q), ~IsRelease(j),
         \A x \in Elems(q) : x.id < j.id
  PROVE  Ordered(Enqueue(q, j))
<1> DEFINE r == Enqueue(q, j)
<1>1. PICK n \in 0..Len(q) :
        /\ Len(r) = Len(q) + 1
        /\ \A i \in 1..(Len(q) + 1) :
             r[i] = IF i <= n THEN q[i] ELSE IF i = n + 1 THEN j ELSE q[i - 1]
        /\ j.op = "poll" => n = Len(q)
        /\ j.op # "poll" => /\ \A i \in 1..n : q[i].op # "poll"
                            /\ n < Len(q) => q[n + 1].op = "poll"
  BY EnqueuePlaces, ZenonT(60)
<1>2. Len(q) \in Nat /\ \A i \in 1..Len(q) : q[i] \in Elems(q)
  BY DEF Elems
<1> HIDE DEF r
<1> SUFFICES ASSUME NEW i \in 1..(Len(q) + 1), NEW k \in 1..(Len(q) + 1), i < k
             PROVE  Before(r[i], r[k])
  BY <1>1 DEF r, Ordered
<1>3. CASE k <= n
  <2>1. i \in 1..Len(q) /\ k \in 1..Len(q) /\ r[i] = q[i] /\ r[k] = q[k]
    BY <1>1, <1>2, <1>3
  <2> QED
    BY <2>1 DEF Ordered
<1>4. CASE k = n + 1
  <2>1. i \in 1..n /\ i \in 1..Len(q) /\ r[i] = q[i] /\ r[k] = j
    BY <1>1, <1>2, <1>4
  <2>2. q[i].id < j.id
    BY <1>2, <2>1
  <2> QED
    BY <1>1, <2>1, <2>2 DEF Before, IsRelease
<1>5. CASE k > n + 1 /\ i = n + 1
  <2>1. r[i] = j /\ r[k] = q[k - 1] /\ k - 1 \in 1..Len(q) /\ n < Len(q)
    BY <1>1, <1>2, <1>5
  <2>2. j.op # "poll" /\ n + 1 \in 1..Len(q) /\ q[n + 1].op = "poll"
    BY <1>1, <1>2, <2>1
  <2>3. q[k - 1].op = "poll"
    <3>1. CASE k - 1 = n + 1
      BY <2>2, <3>1
    <3>2. CASE n + 1 < k - 1
      BY <2>1, <2>2, <3>2 DEF Ordered, Before
    <3> QED
      BY <1>5, <2>1, <2>2, <3>1, <3>2
  <2> QED
    BY <2>1, <2>2, <2>3 DEF Before, IsRelease
<1>6. CASE k > n + 1 /\ i <= n
  <2>1. /\ r[i] = q[i] /\ r[k] = q[k - 1] /\ i \in 1..Len(q) /\ k - 1 \in 1..Len(q)
        /\ i < k - 1
    BY <1>1, <1>2, <1>6
  <2> QED
    BY <2>1 DEF Ordered
<1>7. CASE k > n + 1 /\ i > n + 1
  <2>1. /\ r[i] = q[i - 1] /\ r[k] = q[k - 1]
        /\ i - 1 \in 1..Len(q) /\ k - 1 \in 1..Len(q) /\ i - 1 < k - 1
    BY <1>1, <1>2, <1>7
  <2> QED
    BY <2>1 DEF Ordered
<1> QED
  BY <1>2, <1>3, <1>4, <1>5, <1>6, <1>7

\* A release at the head fits in when no other of its VFO is queued.
LEMMA PushOrdered ==
  ASSUME NEW q \in Seq(Job), NEW j \in Job, Ordered(q), IsRelease(j),
         \A x \in Elems(q) : ~(IsRelease(x) /\ x.vfo = j.vfo)
  PROVE  Ordered(<<j>> \o q)
<1> DEFINE r == <<j>> \o q
<1>1. <<j>> \in Seq(Job) /\ Len(<<j>>) = 1 /\ <<j>>[1] = j /\ Len(q) \in Nat
  OBVIOUS
<1>2. /\ Len(r) = 1 + Len(q)
      /\ \A i \in 1..(1 + Len(q)) : r[i] = IF i <= 1 THEN <<j>>[i] ELSE q[i - 1]
  BY <1>1, ConcatProperties
<1> HIDE DEF r
<1> SUFFICES ASSUME NEW i \in 1..(1 + Len(q)), NEW k \in 1..(1 + Len(q)), i < k
             PROVE  Before(r[i], r[k])
  BY <1>2 DEF r, Ordered
<1>3. k - 1 \in 1..Len(q) /\ r[k] = q[k - 1] /\ q[k - 1] \in Elems(q)
  BY <1>1, <1>2 DEF Elems
<1>4. CASE i = 1
  <2>1. r[i] = j
    BY <1>1, <1>2, <1>4
  <2> QED
    BY <1>3, <2>1 DEF Before, IsRelease
<1>5. CASE i # 1
  <2>1. i - 1 \in 1..Len(q) /\ r[i] = q[i - 1] /\ i - 1 < k - 1
    BY <1>1, <1>2, <1>5
  <2> QED
    BY <1>3, <2>1 DEF Ordered
<1> QED
  BY <1>4, <1>5

----------------------------------------------------------------------------
(* The invariant is inductive *)

\* The worker starts in the invariant.
LEMMA InitQInv == Init => QInv
<1> SUFFICES ASSUME Init PROVE QInv
  OBVIOUS
<1>1. queue = <<>> /\ Len(queue) = 0 /\ Elems(queue) = {}
  BY DEF Init, Elems
<1>2. /\ running_job = NoJob /\ worker = "idle" /\ final = 0 /\ stopping = FALSE
      /\ server = "run" /\ off_jobs = [v \in VFO |-> 0]
  BY DEF Init
<1>3. Ordered(queue)
  BY <1>1 DEF Ordered
<1>4. QueueNumbered /\ ReleaseNamed /\ ReleaseOnce
  BY <1>1, <1>2 DEF QueueNumbered, ReleaseNamed, ReleaseOnce
<1>5. ReleasePending /\ Leaving
  BY <1>2 DEF ReleasePending, Leaving
<1>6. FinalSent
  BY <1>2, ConstantsAssumption DEF FinalSent, VFO
<1> QED
  BY <1>3, <1>4, <1>5, <1>6 DEF QInv

\* Steps that change neither the queue nor the releases nor the shutdown.
LEMMA QuietQInv ==
  ASSUME QInv,
         UNCHANGED <<queue, off_jobs, stopping, server, worker, running_job,
                     keyed, final, tx, off_failed>>,
         submitted' = submitted
  PROVE  QInv'
<1>1. Ordered(queue)'
  BY DEF QInv, Ordered
<1>2. QueueNumbered' /\ ReleaseNamed' /\ ReleasePending' /\ ReleaseOnce'
  BY DEF QInv, QueueNumbered, ReleaseNamed, ReleasePending, ReleaseOnce
<1>3. Leaving' /\ FinalSent'
  BY DEF QInv, Leaving, FinalSent
<1> QED
  BY <1>1, <1>2, <1>3 DEF QInv

\* What a hardware call leaves alone: the operation, number and VFO of the job.
LEMMA SameJobQInv ==
  ASSUME IInv, QInv, running_job # NoJob, running_job' # NoJob,
         running_job'.id = running_job.id, running_job'.op = running_job.op,
         running_job'.vfo = running_job.vfo,
         worker' \notin {"final", "exited"}, worker \notin {"final", "exited"},
         UNCHANGED <<queue, off_jobs, stopping, server, final, submitted>>
  PROVE  QInv'
<1>1. Ordered(queue)' /\ QueueNumbered'
  BY DEF QInv, Ordered, QueueNumbered
<1>2. ReleaseNamed' /\ ReleasePending' /\ ReleaseOnce'
  BY DEF QInv, ReleaseNamed, ReleasePending, ReleaseOnce, IsRelease
<1>3. Leaving'
  BY DEF QInv, Leaving
<1>4. final = 0
  BY DEF QInv, FinalSent
<1>5. FinalSent'
  BY <1>4, ConstantsAssumption DEF FinalSent, VFO
<1> QED
  BY <1>1, <1>2, <1>3, <1>5 DEF QInv

\* Every step of the worker, of the server or of the emergency stop keeps the
\* invariant.
LEMMA NextQInv == IInv /\ QInv /\ [Next]_vars => QInv'
<1> SUFFICES ASSUME IInv, QInv, [Next]_vars PROVE QInv'
  OBVIOUS
<1> USE ConstantsAssumption
<1>a. /\ queue \in Seq(Job) /\ off_jobs \in [VFO -> Nat] /\ submitted \in Nat
      /\ running_job \in Job \cup {NoJob} /\ WorkerState /\ final \in 0..MaxVfos
      /\ tx \in [VFO -> BOOLEAN] /\ off_failed \in [VFO -> BOOLEAN]
      /\ keyed \in [VFO -> BOOLEAN]
  BY DEF IInv, TypeOK
<1>b. /\ Ordered(queue) /\ QueueNumbered /\ ReleaseNamed /\ ReleasePending
      /\ ReleaseOnce /\ Leaving /\ FinalSent
  BY DEF QInv
<1>c. /\ \A j \in Job : j.id \in Nat /\ j.op \in AllOperations /\ j.vfo \in VFO
      /\ Elems(queue) \subseteq Job
  BY <1>a, ElemsInSet DEF Job
<1>1. ASSUME NEW v \in VFO, NEW op \in Operations, SubmitNormal(op, v) PROVE QInv'
  <2> DEFINE j == NewJob(submitted + 1, op, v)
  <2>1. /\ submitted' = submitted + 1 /\ queue' = Enqueue(queue, j)
        /\ op # "ptt_off" /\ ~stopping
        /\ UNCHANGED <<off_jobs, stopping, server, thread, radio, history>>
    BY <1>1 DEF SubmitNormal, Refused
  <2>2. j \in Job /\ j.id = submitted + 1 /\ ~IsRelease(j)
    BY <1>a, <2>1, NewJobType DEF IsRelease
  <2> HIDE DEF j
  <2>3. Elems(queue') = Elems(queue) \cup {j}
    BY <1>a, <2>1, <2>2, EnqueueProperties
  <2>4. Ordered(queue')
    <3>1. \A x \in Elems(queue) : x.id < j.id
      BY <1>a, <1>b, <1>c, <2>2 DEF QueueNumbered
    <3> QED
      BY <1>a, <1>b, <2>1, <2>2, <3>1, EnqueueOrdered
  <2>5. QueueNumbered'
    BY <1>a, <1>b, <1>c, <2>1, <2>2, <2>3 DEF QueueNumbered
  <2>6. ReleaseNamed' /\ ReleasePending' /\ ReleaseOnce'
    BY <1>b, <2>1, <2>2, <2>3 DEF ReleaseNamed, ReleasePending, ReleaseOnce, thread
  <2>7. Leaving' /\ FinalSent'
    BY <1>b, <2>1 DEF Leaving, FinalSent, thread, radio, history
  <2> QED
    BY <2>4, <2>5, <2>6, <2>7 DEF QInv
<1>2. ASSUME NEW v \in VFO, SubmitRelease(v) PROVE QInv'
  <2> DEFINE j == NewJob(submitted + 1, "ptt_off", v)
             rest == Without(queue, Superseded(v))
  <2>1. /\ submitted' = submitted + 1 /\ ~stopping
        /\ UNCHANGED <<stopping, server, thread, radio, keyed_by, off_failed, last_call>>
    BY <1>2 DEF SubmitRelease, Refused
  <2>2. \/ off_jobs[v] # 0 /\ queue' = rest /\ off_jobs' = off_jobs
        \/ /\ off_jobs[v] = 0 /\ queue' = <<j>> \o rest
           /\ off_jobs' = [off_jobs EXCEPT ![v] = j.id]
    BY <1>2 DEF SubmitRelease
  <2>3. j \in Job /\ j.id = submitted + 1 /\ IsRelease(j) /\ j.vfo = v
    BY <1>a, NewJobType DEF IsRelease, AllOperations
  <2> HIDE DEF j, rest
  <2>4. rest \in Seq(Job) /\ Ordered(rest) /\ Elems(rest) = Elems(queue) \ Superseded(v)
    BY <1>a, <1>b, WithoutProperties, WithoutOrdered DEF rest
  <2>5. \A k \in Elems(queue) : IsRelease(k) => k \in Elems(rest)
    BY <2>4 DEF Superseded, IsRelease, IsKeyDown
  <2>6. Leaving' /\ FinalSent'
    BY <1>b, <2>1 DEF Leaving, FinalSent, thread, radio
  <2>7. CASE off_jobs[v] # 0 /\ queue' = rest /\ off_jobs' = off_jobs
    <3>1. Ordered(queue)' /\ QueueNumbered'
      <4>1. \A x \in Elems(queue) : x.id <= submitted' 
        BY <1>a, <1>b, <1>c, <2>1 DEF QueueNumbered
      <4> QED
        BY <2>4, <2>7, <4>1 DEF QueueNumbered
    <3>2. ReleaseNamed' /\ ReleasePending' /\ ReleaseOnce'
      BY <1>b, <2>1, <2>4, <2>5, <2>7 DEF ReleaseNamed, ReleasePending, ReleaseOnce, thread
    <3> QED
      BY <2>6, <3>1, <3>2 DEF QInv
  <2>8. CASE /\ off_jobs[v] = 0 /\ queue' = <<j>> \o rest
             /\ off_jobs' = [off_jobs EXCEPT ![v] = j.id]
    <3>1. \A x \in Elems(queue) : ~(IsRelease(x) /\ x.vfo = v)
      BY <1>b, <2>8 DEF ReleaseNamed
    <3>2. ~(running_job # NoJob /\ IsRelease(running_job) /\ running_job.vfo = v)
      BY <1>b, <2>8 DEF ReleaseNamed
    <3>3. Elems(queue') = Elems(rest) \cup {j}
      BY <2>3, <2>4, <2>8, PushHead
    <3>4. Ordered(queue')
      BY <2>3, <2>4, <2>8, <3>1, PushOrdered
    <3>5. QueueNumbered'
      BY <1>a, <1>b, <1>c, <2>1, <2>3, <2>4, <3>3 DEF QueueNumbered
    <3>6. /\ off_jobs'[v] = j.id /\ j.id # 0
          /\ \A w \in VFO : w # v => off_jobs'[w] = off_jobs[w]
      BY <1>a, <2>3, <2>8
    <3>7. ReleaseNamed'
      <4>1. \A k \in Elems(queue') :
              IsRelease(k) => k.id # 0 /\ off_jobs'[k.vfo] = k.id
        <5> SUFFICES ASSUME NEW k \in Elems(queue'), IsRelease(k)
                     PROVE  k.id # 0 /\ off_jobs'[k.vfo] = k.id
          OBVIOUS
        <5>1. CASE k = j
          BY <2>3, <3>6, <5>1
        <5>2. CASE k # j
          <6>1. k \in Elems(queue) /\ k.vfo \in VFO /\ k.vfo # v
            BY <1>c, <2>4, <3>1, <3>3, <5>2
          <6> QED
            BY <1>b, <3>6, <6>1 DEF ReleaseNamed
        <5> QED
          BY <5>1, <5>2
      <4>2. running_job' = running_job
        BY <2>1 DEF thread
      <4>3. running_job # NoJob /\ IsRelease(running_job) =>
              running_job.id # 0 /\ off_jobs'[running_job.vfo] = running_job.id
        BY <1>a, <1>b, <1>c, <3>2, <3>6 DEF ReleaseNamed
      <4> QED
        BY <4>1, <4>2, <4>3 DEF ReleaseNamed
    <3>8. ReleasePending'
      <4> SUFFICES ASSUME NEW w \in VFO, off_jobs'[w] # 0
                   PROVE  \/ \E k \in Elems(queue') : IsRelease(k) /\ k.vfo = w
                          \/ /\ running_job' # NoJob /\ IsRelease(running_job')
                             /\ running_job'.vfo = w
        BY DEF ReleasePending
      <4>1. CASE w = v
        BY <2>3, <3>3, <4>1
      <4>2. CASE w # v
        BY <1>b, <2>1, <2>5, <3>3, <3>6, <4>2 DEF ReleasePending, thread
      <4> QED
        BY <4>1, <4>2
    <3>9. ReleaseOnce'
      BY <1>b, <2>1, <2>3, <2>4, <3>2, <3>3 DEF ReleaseOnce, thread
    <3> QED
      BY <2>6, <3>4, <3>5, <3>7, <3>8, <3>9 DEF QInv
  <2> QED
    BY <2>2, <2>7, <2>8
<1>3. ASSUME Take PROVE QInv'
  <2>1. /\ worker = "idle" /\ queue # <<>> /\ running_job' = Head(queue)
        /\ queue' = Tail(queue) /\ worker' = "check"
        /\ UNCHANGED <<off_jobs, stopping, keyed, final, main, radio, history>>
    BY <1>3 DEF Take
  <2>2. running_job = NoJob
    BY <1>a, <2>1 DEF WorkerState
  <2>3. /\ Ordered(queue') /\ \A x \in Elems(queue') : Before(running_job', x)
        /\ Elems(queue) = Elems(queue') \cup {running_job'}
    BY <1>a, <1>b, <2>1, TailOrdered
  <2>4. running_job' \in Elems(queue) /\ running_job' # NoJob
    BY <1>c, <2>3, NoJobNotJob
  <2>5. QueueNumbered' /\ ReleaseNamed' /\ ReleasePending'
    BY <1>b, <2>1, <2>2, <2>3, <2>4 DEF QueueNumbered, ReleaseNamed, ReleasePending, main
  <2>6. ReleaseOnce'
    BY <2>3 DEF ReleaseOnce, Before
  <2>7. Leaving' /\ FinalSent'
    BY <1>b, <2>1 DEF Leaving, FinalSent, main, radio, history
  <2> QED
    BY <2>3, <2>5, <2>6, <2>7 DEF QInv
<1>4. ASSUME CheckHalted PROVE QInv'
  <2>1. /\ worker = "check" /\ UNCHANGED <<locked, final, main>>
        /\ worker' \in {"finish", "call"}
    BY <1>4 DEF CheckHalted
  <2>2. running_job \in Job /\ running_job # NoJob
    BY <1>a, <2>1, NoJobNotJob DEF WorkerState
  <2>3. keyed[running_job.vfo] \in BOOLEAN
    BY <1>a, <1>c, <2>2
  <2>4. /\ running_job' \in Job
        /\ running_job'.id = running_job.id /\ running_job'.op = running_job.op
        /\ running_job'.vfo = running_job.vfo
    <3>1. CASE halted /\ running_job.op \notin ReadOnly \cup {"ptt_off"}
      <4>1. running_job' = Outcome(running_job, TRUE, FALSE, keyed[running_job.vfo])
        BY <1>4, <3>1 DEF CheckHalted
      <4> QED
        BY <2>2, <2>3, <4>1, OutcomeType
    <3>2. CASE ~(halted /\ running_job.op \notin ReadOnly \cup {"ptt_off"})
      <4>1. running_job' = running_job
        BY <1>4, <3>2 DEF CheckHalted
      <4> QED
        BY <2>2, <4>1
    <3> QED
      BY <3>1, <3>2
  <2>5. running_job' # NoJob
    BY <2>4, NoJobNotJob
  <2> QED
    BY <2>1, <2>2, <2>4, <2>5, SameJobQInv DEF locked, main
<1>5. ASSUME Call PROVE QInv'
  <2>1. worker = "call" /\ worker' = "finish" /\ UNCHANGED <<locked, final, main>>
    BY <1>5 DEF Call
  <2>2. running_job \in Job /\ running_job # NoJob
    BY <1>a, <2>1, NoJobNotJob DEF WorkerState
  <2>3. PICK failed \in BOOLEAN :
          running_job' = Outcome(running_job, failed, FALSE, keyed'[running_job.vfo])
    BY <1>5 DEF Call
  <2>4. /\ running_job'.id = running_job.id /\ running_job'.op = running_job.op
        /\ running_job'.vfo = running_job.vfo
    BY <2>3 DEF Outcome
  <2>5. running_job' # NoJob
    <3>1. running_job'.id \in Nat
      BY <1>c, <2>2, <2>4
    <3> QED
      BY <3>1 DEF NoJob
  <2> QED
    BY <2>1, <2>2, <2>4, <2>5, SameJobQInv DEF locked, main
<1>6. ASSUME Finish PROVE QInv'
  <2> DEFINE j == running_job
  <2>1. /\ worker = "finish" /\ worker' = "idle" /\ running_job' = NoJob
        /\ FinishJobLocked(j)
        /\ UNCHANGED <<queue, stopping, keyed, final, main, radio, history>>
    BY <1>6 DEF Finish
  <2>2. j \in Job /\ j # NoJob /\ j.vfo \in VFO
    BY <1>a, <1>c, <2>1, NoJobNotJob DEF WorkerState
  <2>3. IsRelease(j) => off_jobs' = [off_jobs EXCEPT ![j.vfo] = 0]
    BY <1>b, <2>1, <2>2 DEF FinishJobLocked, IsParent, ReleaseNamed
  <2>4. ~IsRelease(j) => off_jobs' = off_jobs
    BY <2>1 DEF FinishJobLocked, IsParent
  <2>5. Ordered(queue)' /\ QueueNumbered' /\ ReleaseOnce'
    BY <1>b, <2>1 DEF Ordered, QueueNumbered, ReleaseOnce, main
  <2>6. Leaving' /\ FinalSent'
    BY <1>b, <2>1 DEF Leaving, FinalSent, main, radio, history
  <2>7. CASE IsRelease(j)
    <3>1. \A x \in Elems(queue) : ~(IsRelease(x) /\ x.vfo = j.vfo)
      BY <1>b, <2>2, <2>7 DEF ReleaseOnce
    <3>2. /\ off_jobs'[j.vfo] = 0
          /\ \A w \in VFO : w # j.vfo => off_jobs'[w] = off_jobs[w]
      BY <1>a, <2>2, <2>3, <2>7
    <3>3. ReleaseNamed'
      BY <1>b, <1>c, <2>1, <3>1, <3>2 DEF ReleaseNamed
    <3>4. ReleasePending'
      BY <1>b, <2>1, <3>2 DEF ReleasePending
    <3> QED
      BY <2>5, <2>6, <3>3, <3>4 DEF QInv
  <2>8. CASE ~IsRelease(j)
    <3>1. ReleaseNamed' /\ ReleasePending'
      BY <1>b, <2>1, <2>4, <2>8 DEF ReleaseNamed, ReleasePending
    <3> QED
      BY <2>5, <2>6, <3>1 DEF QInv
  <2> QED
    BY <2>7, <2>8
<1>7. ASSUME LeaveLoop \/ WorkerExit PROVE QInv'
  <2>1. UNCHANGED <<locked, running_job, keyed, final, main, radio, history>>
    BY <1>7 DEF LeaveLoop, WorkerExit
  <2>2. Ordered(queue)' /\ QueueNumbered'
    BY <1>b, <2>1 DEF Ordered, QueueNumbered, locked, main
  <2>3. ReleaseNamed' /\ ReleasePending' /\ ReleaseOnce'
    BY <1>b, <2>1 DEF ReleaseNamed, ReleasePending, ReleaseOnce, locked
  <2>4. Leaving'
    BY <1>7, <1>b, <2>1 DEF Leaving, LeaveLoop, WorkerExit, locked, main
  <2>5. FinalSent'
    BY <1>7, <1>b, <2>1 DEF FinalSent, LeaveLoop, WorkerExit, radio, history
  <2> QED
    BY <2>2, <2>3, <2>4, <2>5 DEF QInv
<1>8. ASSUME FinalRelease PROVE QInv'
  <2>1. /\ worker = "final" /\ final < MaxVfos /\ final' = final + 1
        /\ UNCHANGED <<queue, off_jobs, stopping, worker, running_job, keyed, main>>
    BY <1>8 DEF FinalRelease
  <2>2. Ordered(queue)' /\ QueueNumbered'
    BY <1>b, <2>1 DEF Ordered, QueueNumbered, main
  <2>3. ReleaseNamed' /\ ReleasePending' /\ ReleaseOnce'
    BY <1>b, <2>1 DEF ReleaseNamed, ReleasePending, ReleaseOnce
  <2>4. Leaving'
    BY <1>b, <2>1 DEF Leaving, main
  <2>5. final \in VFO
    BY <1>a, <2>1 DEF VFO
  <2>6. ASSUME NEW w \in VFO, w < final + 1, keyed[w] PROVE ~tx'[w] \/ off_failed'[w]
    <3>1. CASE w = final
      <4>1. PICK failed \in BOOLEAN :
              /\ tx' = [tx EXCEPT ![final] = FALSE] \/ (failed /\ UNCHANGED tx)
              /\ off_failed' = [off_failed EXCEPT ![final] = failed]
        BY <1>8, <2>6, <3>1 DEF FinalRelease
      <4>2. off_failed'[w] = failed
        BY <1>a, <2>5, <3>1, <4>1
      <4>3. CASE tx' = [tx EXCEPT ![final] = FALSE]
        BY <1>a, <2>5, <3>1, <4>3
      <4> QED
        BY <4>1, <4>2, <4>3
    <3>2. CASE w # final
      <4>1. w < final /\ w \in Int
        BY <1>a, <2>6, <3>2 DEF VFO
      <4>2. ~tx[w] \/ off_failed[w]
        BY <1>b, <2>6, <4>1 DEF FinalSent
      <4>3. tx'[w] = tx[w] /\ off_failed'[w] = off_failed[w]
        <5>1. CASE keyed[final]
          BY <1>8, <1>a, <2>5, <3>2, <5>1 DEF FinalRelease
        <5>2. CASE ~keyed[final]
          BY <1>8, <5>2 DEF FinalRelease
        <5> QED
          BY <5>1, <5>2
      <4> QED
        BY <4>2, <4>3
    <3> QED
      BY <3>1, <3>2
  <2>7. FinalSent'
    BY <2>1, <2>6 DEF FinalSent
  <2> QED
    BY <2>2, <2>3, <2>4, <2>7 DEF QInv
<1>9. ASSUME Stop PROVE QInv'
  <2> DEFINE normal == {k \in Elems(queue) : ~IsRelease(k)}
  <2>1. /\ server' = "join" /\ stopping' = TRUE /\ queue' = Without(queue, normal)
        /\ UNCHANGED <<off_jobs, thread, submitted, radio, history>>
    BY <1>9 DEF Stop
  <2>2. server = "run"
    BY <1>9 DEF Stop
  <2> HIDE DEF normal
  <2>3. Ordered(queue') /\ Elems(queue') = Elems(queue) \ normal
    BY <1>a, <1>b, <2>1, WithoutProperties, WithoutOrdered
  <2>4. \A k \in Elems(queue) : IsRelease(k) => k \in Elems(queue')
    BY <2>3 DEF normal
  <2>5. QueueNumbered' /\ ReleaseNamed' /\ ReleasePending' /\ ReleaseOnce'
    BY <1>b, <2>1, <2>3, <2>4 DEF QueueNumbered, ReleaseNamed, ReleasePending, ReleaseOnce, thread
  <2>6. Leaving'
    BY <1>b, <2>1, <2>2 DEF Leaving, thread
  <2>7. FinalSent'
    BY <1>b, <2>1 DEF FinalSent, thread, radio, history
  <2> QED
    BY <2>3, <2>5, <2>6, <2>7 DEF QInv
<1>10. ASSUME Free PROVE QInv'
  <2>1. /\ server = "join" /\ server' = "freed"
        /\ UNCHANGED <<locked, thread, submitted, radio, history>>
    BY <1>10 DEF Free
  <2>2. Ordered(queue)' /\ QueueNumbered'
    BY <1>b, <2>1 DEF Ordered, QueueNumbered, locked
  <2>3. ReleaseNamed' /\ ReleasePending' /\ ReleaseOnce'
    BY <1>b, <2>1 DEF ReleaseNamed, ReleasePending, ReleaseOnce, locked, thread
  <2>4. Leaving' /\ FinalSent'
    BY <1>b, <2>1 DEF Leaving, FinalSent, locked, thread, radio, history
  <2> QED
    BY <2>2, <2>3, <2>4 DEF QInv
<1>11. ASSUME DrainTake \/ DrainJob \/ SetHalted \/ Freed \/ UNCHANGED vars PROVE QInv'
  <2>1. UNCHANGED <<queue, off_jobs, stopping, server, worker, running_job, keyed, final,
                    tx, off_failed, submitted>>
    BY <1>11 DEF DrainTake, DrainJob, SetHalted, Freed, vars, locked, thread, main, radio,
       history
  <2> QED
    BY <2>1, QuietQInv
<1> QED
  BY <1>1, <1>2, <1>3, <1>4, <1>5, <1>6, <1>7, <1>8, <1>9, <1>10, <1>11
     DEF Next, Submit, WorkerStep, DrainStep

\* Order, naming of releases and shutdown progress hold in every reachable
\* state, whatever is submitted, cancelled and drained in which order.
THEOREM KeyingInvariant == Spec => [](IInv /\ QInv)
<1>1. Init => IInv /\ QInv
  BY InitIInv, InitQInv
<1>2. (IInv /\ QInv) /\ [Next]_vars => (IInv /\ QInv)'
  BY NextIInv, NextQInv
<1> QED
  BY <1>1, <1>2, PTL DEF Spec

\* worker_main exits with no tracked or released transmitter on the air
\* unless the radio reported that the last release of it failed.
THEOREM WorkerShutdownUnkeys == Spec => []ShutdownUnkeys
<1>1. IInv /\ QInv => ShutdownUnkeys
  <2> SUFFICES ASSUME IInv, QInv, worker = "exited", NEW v \in VFO, tx[v],
                      keyed[v] \/ last_off[v] > keyed_by[v]
               PROVE  off_failed[v]
    BY DEF ShutdownUnkeys
  <2>1. Elems(queue) = {} /\ running_job = NoJob
    BY DEF IInv, QInv, WorkerState, Leaving, Elems
  <2>2. off_jobs[v] = 0
    BY <2>1 DEF QInv, ReleasePending
  <2>3. CASE keyed[v]
    <3>1. v < final
      BY ConstantsAssumption DEF QInv, FinalSent, VFO
    <3> QED
      BY <2>3, <3>1 DEF QInv, FinalSent
  <2>4. CASE last_off[v] > keyed_by[v]
    BY <2>2, <2>4 DEF IInv, ReleasedStaysReleased
  <2> QED
    BY <2>3, <2>4
<1> QED
  BY <1>1, KeyingInvariant, PTL

----------------------------------------------------------------------------
(* The worker implements Keying *)

\* A state function of the mapping that a step leaves alone.
LEMMA SameCommand ==
  ASSUME UNCHANGED <<worker, running_job>>
  PROVE  CommandInHand' = CommandInHand
  BY DEF CommandInHand, IsKeyDown

\* Every step of the worker and the server is a step of Keying or none.
LEMMA StepKeepsPromise ==
  IInv /\ QInv /\ [Next]_vars => [Promise!Next]_Promise!vars
<1> SUFFICES ASSUME IInv, QInv, [Next]_vars PROVE [Promise!Next]_Promise!vars
  OBVIOUS
<1> USE ConstantsAssumption
<1> DEFINE Quiet == UNCHANGED <<stopping, KeyDownsQueued, ReleasesOwed, CommandInHand, tx>>
<1>0. Quiet => UNCHANGED Promise!vars
  BY DEF Promise!vars
<1>a. /\ queue \in Seq(Job) /\ off_jobs \in [VFO -> Nat] /\ submitted \in Nat
      /\ running_job \in Job \cup {NoJob} /\ WorkerState /\ final \in 0..MaxVfos
      /\ tx \in [VFO -> BOOLEAN] /\ keyed \in [VFO -> BOOLEAN]
      /\ stopping \in BOOLEAN
  BY DEF IInv, TypeOK
<1>b. /\ Ordered(queue) /\ ReleaseNamed /\ ReleasePending /\ Leaving
  BY DEF QInv
<1>c. /\ \A j \in Job : j.id \in Nat /\ j.op \in AllOperations /\ j.vfo \in VFO
      /\ Elems(queue) \subseteq Job
  BY <1>a, ElemsInSet DEF Job
<1>1. ASSUME NEW v \in VFO, NEW op \in Operations, SubmitNormal(op, v)
      PROVE  Promise!AskOn(v) \/ Quiet
  <2> DEFINE j == NewJob(submitted + 1, op, v)
  <2>1. /\ queue' = Enqueue(queue, j) /\ ~stopping
        /\ UNCHANGED <<off_jobs, stopping, worker, running_job, tx>>
    BY <1>1 DEF SubmitNormal, Refused, thread, radio
  <2>2. j \in Job /\ j.op = op /\ j.vfo = v
    BY <1>a, NewJobType
  <2> HIDE DEF j
  <2>3. Elems(queue') = Elems(queue) \cup {j}
    BY <1>a, <2>1, <2>2, EnqueueProperties
  <2>4. UNCHANGED <<ReleasesOwed, CommandInHand>>
    BY <2>1, SameCommand DEF ReleasesOwed
  <2>5. CASE op = "ptt_on"
    <3>1. KeyDownsQueued' = KeyDownsQueued \cup {v}
      BY <2>2, <2>3, <2>5 DEF KeyDownsQueued, IsKeyDown
    <3> QED
      BY <2>1, <2>4, <3>1 DEF Promise!AskOn
  <2>6. CASE op # "ptt_on"
    <3>1. KeyDownsQueued' = KeyDownsQueued
      BY <2>2, <2>3, <2>6 DEF KeyDownsQueued, IsKeyDown
    <3> QED
      BY <2>1, <2>4, <3>1
  <2> QED
    BY <2>5, <2>6
<1>2. ASSUME NEW v \in VFO, SubmitRelease(v) PROVE Promise!AskOff(v)
  <2> DEFINE j == NewJob(submitted + 1, "ptt_off", v)
             rest == Without(queue, Superseded(v))
  <2>1. ~stopping /\ UNCHANGED <<stopping, worker, running_job, tx>>
    BY <1>2 DEF SubmitRelease, Refused, thread, radio
  <2>2. \/ off_jobs[v] # 0 /\ queue' = rest /\ off_jobs' = off_jobs
        \/ /\ off_jobs[v] = 0 /\ queue' = <<j>> \o rest
           /\ off_jobs' = [off_jobs EXCEPT ![v] = j.id]
    BY <1>2 DEF SubmitRelease
  <2>3. j \in Job /\ j.id = submitted + 1 /\ ~IsKeyDown(j) /\ j.id # 0
    BY <1>a, NewJobType DEF IsKeyDown, AllOperations
  <2> HIDE DEF j, rest
  <2>4. rest \in Seq(Job) /\ Elems(rest) = Elems(queue) \ Superseded(v)
    BY <1>a, WithoutProperties DEF rest
  <2>5. {k \in Elems(queue') : IsKeyDown(k)} = {k \in Elems(rest) : IsKeyDown(k)}
    <3>1. CASE queue' = rest
      BY <3>1
    <3>2. CASE queue' = <<j>> \o rest
      <4>1. Elems(queue') = Elems(rest) \cup {j}
        BY <2>3, <2>4, <3>2, PushHead
      <4> QED
        BY <2>3, <4>1
    <3> QED
      BY <2>2, <3>1, <3>2
  <2>6. {k \in Elems(rest) : IsKeyDown(k)}
          = {k \in {m \in Elems(queue) : IsKeyDown(m)} : k.vfo # v}
    BY <2>4 DEF Superseded
  <2>7. KeyDownsQueued' = KeyDownsQueued \ {v}
    BY <2>5, <2>6 DEF KeyDownsQueued
  <2>8. ReleasesOwed' = ReleasesOwed \cup {v}
    <3>1. CASE off_jobs[v] # 0 /\ off_jobs' = off_jobs
      BY <3>1 DEF ReleasesOwed
    <3>2. CASE off_jobs' = [off_jobs EXCEPT ![v] = j.id]
      BY <1>a, <2>3, <3>2 DEF ReleasesOwed
    <3> QED
      BY <2>2, <3>1, <3>2
  <2> QED
    BY <2>1, <2>7, <2>8, SameCommand DEF Promise!AskOff
<1>3. ASSUME Take
      PROVE  Quiet \/ \E v \in VFO : Promise!BeginOn(v) \/ Promise!BeginOff(v)
  <2> DEFINE h == running_job'
  <2>1. /\ worker = "idle" /\ queue # <<>> /\ h = Head(queue)
        /\ queue' = Tail(queue) /\ worker' = "check"
        /\ UNCHANGED <<off_jobs, stopping, tx>>
    BY <1>3 DEF Take, radio
  <2>2. CommandInHand = Promise!NoCommand /\ running_job = NoJob
    BY <1>a, <2>1 DEF CommandInHand, WorkerState, Promise!NoCommand
  <2>3. /\ \A x \in Elems(queue') : Before(h, x)
        /\ Elems(queue) = Elems(queue') \cup {h}
    BY <1>a, <1>b, <2>1, TailOrdered
  <2>4. h \in Job /\ h # NoJob /\ h.vfo \in VFO
    BY <1>c, <2>3, NoJobNotJob
  <2>5. UNCHANGED ReleasesOwed
    BY <2>1 DEF ReleasesOwed
  <2>6. CASE IsKeyDown(h)
    <3>1. CommandInHand' = [vfo |-> h.vfo, on |-> TRUE, state |-> "begun"]
      BY <2>1, <2>4, <2>6 DEF CommandInHand, IsKeyDown
    <3>2. \A x \in Elems(queue) : ~IsRelease(x)
      BY <2>3, <2>6 DEF Before, IsRelease, IsKeyDown
    <3>3. ReleasesOwed = {}
      BY <1>b, <2>2, <3>2 DEF ReleasesOwed, ReleasePending
    <3>4. KeyDownsQueued = KeyDownsQueued' \cup {h.vfo}
      BY <2>3, <2>6 DEF KeyDownsQueued
    <3>5. /\ h.vfo \in KeyDownsQueued
          /\ KeyDownsQueued' \in {KeyDownsQueued, KeyDownsQueued \ {h.vfo}}
      BY <3>4
    <3>6. Promise!BeginOn(h.vfo)
      BY <2>1, <2>2, <2>5, <3>1, <3>3, <3>5 DEF Promise!BeginOn
    <3> QED
      BY <2>4, <3>6
  <2>7. CASE IsRelease(h)
    <3>1. CommandInHand' = [vfo |-> h.vfo, on |-> FALSE, state |-> "begun"]
      BY <2>1, <2>4, <2>7 DEF CommandInHand, IsRelease, IsKeyDown
    <3>2. h.vfo \in ReleasesOwed
      BY <1>b, <2>3, <2>4, <2>7 DEF ReleasesOwed, ReleaseNamed
    <3>3. KeyDownsQueued' = KeyDownsQueued
      BY <2>3, <2>7 DEF KeyDownsQueued, IsKeyDown, IsRelease
    <3>4. Promise!BeginOff(h.vfo)
      BY <2>1, <2>2, <2>5, <3>1, <3>2, <3>3 DEF Promise!BeginOff
    <3> QED
      BY <2>4, <3>4
  <2>8. CASE ~IsKeyDown(h) /\ ~IsRelease(h)
    <3>1. CommandInHand' = CommandInHand
      BY <2>2, <2>8 DEF CommandInHand, IsRelease, IsKeyDown, Promise!NoCommand
    <3>2. KeyDownsQueued' = KeyDownsQueued
      BY <2>3, <2>8 DEF KeyDownsQueued
    <3> QED
      BY <2>1, <2>5, <3>1, <3>2
  <2> QED
    BY <2>6, <2>7, <2>8
<1>4. ASSUME CheckHalted PROVE Quiet \/ Promise!Send
  <2>1. /\ worker = "check" /\ UNCHANGED <<queue, off_jobs, stopping, tx>>
    BY <1>4 DEF CheckHalted, locked, radio
  <2>2. running_job \in Job /\ running_job # NoJob
    BY <1>a, <2>1, NoJobNotJob DEF WorkerState
  <2>3. UNCHANGED <<KeyDownsQueued, ReleasesOwed>>
    BY <2>1 DEF KeyDownsQueued, ReleasesOwed
  <2>4. CASE ~(halted /\ running_job.op \notin ReadOnly \cup {"ptt_off"})
    <3>1. worker' = "call" /\ running_job' = running_job
      BY <1>4, <2>4 DEF CheckHalted
    <3>2. CommandInHand' = CommandInHand
      BY <2>1, <3>1 DEF CommandInHand, IsKeyDown
    <3> QED
      BY <2>1, <2>3, <3>2
  <2>5. CASE halted /\ running_job.op \notin ReadOnly \cup {"ptt_off"}
    <3>1. /\ worker' = "finish"
          /\ running_job' = Outcome(running_job, TRUE, FALSE, keyed[running_job.vfo])
      BY <1>4, <2>5 DEF CheckHalted
    <3>2. keyed[running_job.vfo] \in BOOLEAN
      BY <1>a, <1>c, <2>2
    <3>3. /\ running_job' \in Job /\ running_job'.op = running_job.op
          /\ running_job'.vfo = running_job.vfo
      BY <2>2, <3>1, <3>2, OutcomeType
    <3>4. running_job' # NoJob /\ running_job'.failed = TRUE
      BY <3>1, <3>3, NoJobNotJob DEF Outcome
    <3>5. CASE running_job.op # "ptt_on"
      <4>1. CommandInHand' = CommandInHand
        BY <2>5, <3>3, <3>5 DEF CommandInHand
      <4> QED
        BY <2>1, <2>3, <4>1
    <3>6. CASE running_job.op = "ptt_on"
      <4> DEFINE on == IsKeyDown(running_job)
      <4>1. CommandInHand = [vfo |-> running_job.vfo, on |-> on, state |-> "begun"]
        BY <2>1, <2>2, <3>6 DEF CommandInHand
      <4>2. CommandInHand' = [vfo |-> running_job.vfo, on |-> on, state |-> "failed"]
        BY <3>1, <3>3, <3>4, <3>6 DEF CommandInHand, IsKeyDown
      <4> HIDE DEF on
      <4>3. /\ CommandInHand # Promise!NoCommand /\ CommandInHand.state = "begun"
            /\ CommandInHand' = [CommandInHand EXCEPT !.state = "failed"]
        BY <4>1, <4>2 DEF Promise!NoCommand
      <4> QED
        BY <2>1, <2>3, <4>3 DEF Promise!Send
    <3> QED
      BY <3>5, <3>6
  <2> QED
    BY <2>4, <2>5
<1>5. ASSUME Call PROVE Quiet \/ Promise!Send
  <2> DEFINE v == running_job.vfo
             on == IsKeyDown(running_job)
  <2>1. /\ worker = "call" /\ worker' = "finish"
        /\ UNCHANGED <<queue, off_jobs, stopping>>
    BY <1>5 DEF Call, locked
  <2>2. running_job \in Job /\ running_job # NoJob
    BY <1>a, <2>1, NoJobNotJob DEF WorkerState
  <2>3. UNCHANGED <<KeyDownsQueued, ReleasesOwed>>
    BY <2>1 DEF KeyDownsQueued, ReleasesOwed
  <2>4. PICK failed \in BOOLEAN :
          /\ IF running_job.op \in {"ptt_on", "ptt_off"}
               THEN PttSet(v, running_job.op = "ptt_on", failed)
               ELSE UNCHANGED tx
          /\ running_job' = Outcome(running_job, failed, FALSE, keyed'[v])
    BY <1>5 DEF Call
  <2>5. /\ running_job'.op = running_job.op /\ running_job'.vfo = v
        /\ running_job'.id = running_job.id /\ running_job'.failed = failed
    BY <2>4 DEF Outcome
  <2>6. running_job' # NoJob
    <3>1. running_job'.id \in Nat
      BY <1>c, <2>2, <2>5
    <3> QED
      BY <3>1 DEF NoJob
  <2>7. CASE running_job.op \notin {"ptt_on", "ptt_off"}
    <3>1. CommandInHand' = CommandInHand
      BY <2>5, <2>7 DEF CommandInHand
    <3> QED
      BY <2>1, <2>3, <2>4, <2>7, <3>1
  <2>8. CASE running_job.op \in {"ptt_on", "ptt_off"}
    <3> DEFINE state == IF failed THEN "failed" ELSE "ok"
    <3>1. CommandInHand = [vfo |-> v, on |-> on, state |-> "begun"]
      BY <2>1, <2>2, <2>8 DEF CommandInHand
    <3>2. CommandInHand' = [vfo |-> v, on |-> on, state |-> state]
      BY <2>1, <2>5, <2>6, <2>8 DEF CommandInHand, IsKeyDown
    <3>3. tx' = [tx EXCEPT ![v] = on] \/ (failed /\ UNCHANGED tx)
      BY <2>4, <2>8 DEF PttSet, IsKeyDown
    <3>4. state \in {"ok", "failed"} /\ (failed => state = "failed")
      OBVIOUS
    <3> HIDE DEF state, v, on
    <3>5. /\ CommandInHand # Promise!NoCommand /\ CommandInHand.state = "begun"
          /\ CommandInHand.vfo = v /\ CommandInHand.on = on
          /\ CommandInHand' = [CommandInHand EXCEPT !.state = state]
      BY <3>1, <3>2 DEF Promise!NoCommand
    <3>6. \/ tx' = [tx EXCEPT ![CommandInHand.vfo] = CommandInHand.on]
          \/ state = "failed" /\ UNCHANGED tx
      BY <3>3, <3>4, <3>5
    <3> QED
      BY <2>1, <2>3, <3>4, <3>5, <3>6 DEF Promise!Send
  <2> QED
    BY <2>7, <2>8
<1>6. ASSUME Finish PROVE Quiet \/ Promise!End
  <2> DEFINE j == running_job
  <2>1. /\ worker = "finish" /\ worker' = "idle" /\ running_job' = NoJob
        /\ FinishJobLocked(j) /\ UNCHANGED <<queue, stopping, tx>>
    BY <1>6 DEF Finish, radio
  <2>2. j \in Job /\ j # NoJob /\ j.vfo \in VFO
    BY <1>a, <1>c, <2>1, NoJobNotJob DEF WorkerState
  <2>3. UNCHANGED KeyDownsQueued /\ CommandInHand' = Promise!NoCommand
    BY <2>1 DEF KeyDownsQueued, CommandInHand, Promise!NoCommand
  <2>4. CASE j.op \notin {"ptt_on", "ptt_off"}
    <3>1. CommandInHand = Promise!NoCommand
      BY <2>4 DEF CommandInHand, Promise!NoCommand
    <3>2. off_jobs' = off_jobs
      BY <2>1, <2>4 DEF FinishJobLocked, IsParent, IsRelease
    <3> QED
      BY <2>1, <2>3, <3>1, <3>2 DEF ReleasesOwed
  <2>5. CASE j.op \in {"ptt_on", "ptt_off"}
    <3> DEFINE state == IF j.failed THEN "failed" ELSE "ok"
    <3>1. CommandInHand = [vfo |-> j.vfo, on |-> IsKeyDown(j), state |-> state]
      BY <2>1, <2>2, <2>5 DEF CommandInHand
    <3>2. state # "begun"
      OBVIOUS
    <3> HIDE DEF state
    <3>3. /\ CommandInHand # Promise!NoCommand /\ CommandInHand.state # "begun"
          /\ CommandInHand.vfo = j.vfo /\ CommandInHand.on = IsKeyDown(j)
      BY <3>1, <3>2 DEF Promise!NoCommand
    <3>4. CASE IsKeyDown(j)
      <4>1. off_jobs' = off_jobs
        BY <2>1, <3>4 DEF FinishJobLocked, IsParent, IsRelease, IsKeyDown
      <4>2. ReleasesOwed' = ReleasesOwed
        BY <4>1 DEF ReleasesOwed
      <4> QED
        BY <2>1, <2>3, <3>3, <3>4, <4>2 DEF Promise!End
    <3>5. CASE ~IsKeyDown(j)
      <4>1. IsRelease(j)
        BY <2>5, <3>5 DEF IsRelease, IsKeyDown
      <4>2. off_jobs' = [off_jobs EXCEPT ![j.vfo] = 0]
        BY <1>b, <2>1, <2>2, <4>1 DEF FinishJobLocked, IsParent, ReleaseNamed
      <4>3. ReleasesOwed' = ReleasesOwed \ {j.vfo}
        BY <1>a, <2>2, <4>2 DEF ReleasesOwed
      <4> QED
        BY <2>1, <2>3, <3>3, <3>5, <4>3 DEF Promise!End
    <3> QED
      BY <3>4, <3>5
  <2> QED
    BY <2>4, <2>5
<1>7. ASSUME LeaveLoop \/ WorkerExit PROVE Quiet
  <2>1. /\ worker \in {"idle", "final"} /\ worker' \in {"final", "exited"}
        /\ UNCHANGED <<queue, off_jobs, stopping, running_job, tx>>
    BY <1>7 DEF LeaveLoop, WorkerExit, locked, radio
  <2>2. running_job = NoJob
    BY <1>a, <2>1 DEF WorkerState
  <2> QED
    BY <2>1, <2>2 DEF KeyDownsQueued, ReleasesOwed, CommandInHand
<1>8. ASSUME FinalRelease PROVE Quiet \/ \E v \in VFO : Promise!FinalOff(v)
  <2>1. /\ worker = "final" /\ final < MaxVfos
        /\ UNCHANGED <<queue, off_jobs, stopping, worker, running_job>>
    BY <1>8 DEF FinalRelease
  <2>2. final \in VFO /\ running_job = NoJob /\ stopping /\ Elems(queue) = {}
    BY <1>a, <1>b, <2>1 DEF VFO, WorkerState, Leaving, Elems
  <2>3. UNCHANGED <<KeyDownsQueued, ReleasesOwed, CommandInHand>>
    BY <2>1, SameCommand DEF KeyDownsQueued, ReleasesOwed
  <2>4. ReleasesOwed = {} /\ CommandInHand = Promise!NoCommand
    BY <1>b, <2>2 DEF ReleasesOwed, ReleasePending, CommandInHand, Promise!NoCommand
  <2>5. tx' = [tx EXCEPT ![final] = FALSE] \/ UNCHANGED tx
    BY <1>8 DEF FinalRelease
  <2>6. CASE UNCHANGED tx
    BY <2>1, <2>3, <2>6
  <2>7. CASE tx' = [tx EXCEPT ![final] = FALSE]
    <3>1. Promise!FinalOff(final)
      BY <2>1, <2>2, <2>3, <2>4, <2>7 DEF Promise!FinalOff
    <3> QED
      BY <2>2, <3>1
  <2> QED
    BY <2>5, <2>6, <2>7
<1>9. ASSUME Stop PROVE Promise!Close
  <2> DEFINE normal == {k \in Elems(queue) : ~IsRelease(k)}
  <2>1. /\ server = "run" /\ stopping' = TRUE /\ queue' = Without(queue, normal)
        /\ UNCHANGED <<off_jobs, worker, running_job, tx>>
    BY <1>9 DEF Stop, thread, radio
  <2>2. ~stopping
    BY <1>b, <2>1 DEF Leaving
  <2>3. Elems(queue') = Elems(queue) \ normal
    BY <1>a, <2>1, WithoutProperties
  <2>4. KeyDownsQueued' = {}
    BY <2>3 DEF KeyDownsQueued, IsKeyDown, IsRelease
  <2> QED
    BY <2>1, <2>2, <2>4, SameCommand DEF Promise!Close, ReleasesOwed
<1>10. ASSUME DrainTake \/ DrainJob \/ Free \/ SetHalted \/ Freed \/ UNCHANGED vars
       PROVE  Quiet
  <2>1. UNCHANGED <<queue, off_jobs, stopping, worker, running_job, tx>>
    BY <1>10 DEF DrainTake, DrainJob, Free, SetHalted, Freed, vars, locked, thread, main,
       radio
  <2> QED
    BY <2>1, SameCommand DEF KeyDownsQueued, ReleasesOwed
<1> HIDE DEF Quiet
<1>11. Promise!Next \/ Quiet
  BY <1>1, <1>2, <1>3, <1>4, <1>5, <1>6, <1>7, <1>8, <1>9, <1>10
     DEF Next, Submit, WorkerStep, DrainStep, Promise!Next
<1> QED
  BY <1>0, <1>11

\* A started worker owes nothing and has nothing in hand.
LEMMA InitKeepsPromise == Init => Promise!Init
<1> SUFFICES ASSUME Init PROVE Promise!Init
  OBVIOUS
<1>1. KeyDownsQueued = {}
  BY DEF Init, KeyDownsQueued, Elems
<1>2. ReleasesOwed = {}
  BY DEF Init, ReleasesOwed
<1>3. CommandInHand = Promise!NoCommand
  BY DEF Init, CommandInHand, Promise!NoCommand
<1>4. ~stopping = TRUE /\ tx = [v \in VFO |-> FALSE]
  BY DEF Init
<1> QED
  BY <1>1, <1>2, <1>3, <1>4 DEF Promise!Init

\* backend.worker.c implements Keying: whatever is submitted, coalesced,
\* cancelled or shut down, releases go before key-downs, none is lost, and no
\* key-down asked for before a release is begun after it.
THEOREM WorkerKeepsPromise == Spec => KeepsPromise
<1>1. Init => Promise!Init
  BY InitKeepsPromise
<1>2. (IInv /\ QInv) /\ [Next]_vars => [Promise!Next]_Promise!vars
  BY StepKeepsPromise
<1> QED
  BY <1>1, <1>2, KeyingInvariant, PTL DEF Spec, KeepsPromise, Promise!Spec

----------------------------------------------------------------------------
(* The cached transmit state *)

\* The results of v that drain() will apply to the cache.
Seen(q, v) == {i \in 1..Len(q) : q[i].vfo = v /\ ~q[i].cancelled}

\* Replaying the results q over a cached state d ends with the state x.
Tells(q, v, d, x) ==
  \/ Seen(q, v) = {} /\ x = d
  \/ \E i \in Seen(q, v) : x = q[i].ptt /\ \A k \in Seen(q, v) : k <= i

\* A job that was executed and is about to join the results carries the
\* transmit state of its VFO; for every other VFO the results to replay end
\* with that state.
ResultTrue ==
  worker = "finish" =>
    ~running_job.cancelled /\ running_job.ptt = keyed[running_job.vfo]

ReplayTrue ==
  \A v \in VFO : worker # "finish" \/ running_job.vfo # v =>
    Tells(jobs \o done, v, cache[v], keyed[v])

CInv == ~stopping => ResultTrue /\ ReplayTrue

\* q2 is q with more results behind it.
Extends(q, q2) ==
  /\ Len(q) \in Nat /\ Len(q2) \in Nat /\ Len(q) <= Len(q2)
  /\ \A i \in 1..Len(q) : q2[i] = q[i]

\* Results of other VFOs and cancelled ones change nothing for v.
LEMMA TellsUnseen ==
  ASSUME NEW q, NEW q2, NEW v, NEW d, NEW x, Extends(q, q2), Tells(q, v, d, x),
         \A i \in 1..Len(q2) : i > Len(q) => q2[i].vfo # v \/ q2[i].cancelled
  PROVE  Tells(q2, v, d, x)
<1>1. Seen(q2, v) = Seen(q, v)
  BY DEF Seen, Extends
<1>2. \A i \in Seen(q, v) : q2[i] = q[i]
  BY DEF Seen, Extends
<1> QED
  BY <1>1, <1>2 DEF Tells

\* Results of v that all carry the state x make x the state.
LEMMA TellsSeen ==
  ASSUME NEW q, NEW q2, NEW v, NEW d, NEW x, Extends(q, q2), Len(q) < Len(q2),
         \A i \in 1..Len(q2) : i > Len(q) =>
           q2[i].vfo = v /\ ~q2[i].cancelled /\ q2[i].ptt = x
  PROVE  Tells(q2, v, d, x)
<1>1. Len(q2) \in 1..Len(q2) /\ Len(q2) > Len(q)
  BY DEF Extends
<1>2. Len(q2) \in Seen(q2, v) /\ \A k \in Seen(q2, v) : k <= Len(q2)
  BY <1>1 DEF Seen, Extends
<1>3. x = q2[Len(q2)].ptt
  BY <1>1
<1> QED
  BY <1>2, <1>3 DEF Tells

\* Replaying the first result leaves the rest to say the same.
LEMMA TellsTail ==
  ASSUME NEW q, NEW r, NEW v, NEW d, NEW x, Tells(q, v, d, x),
         Len(q) \in Nat \ {0}, Len(r) = Len(q) - 1,
         \A i \in 1..Len(r) : r[i] = q[i + 1]
  PROVE  Tells(r, v, IF q[1].vfo = v /\ ~q[1].cancelled THEN q[1].ptt ELSE d, x)
<1>1. \A i \in Int : i \in Seen(r, v) <=> (i + 1 \in Seen(q, v) /\ i # 0)
  BY DEF Seen
<1>2. 1 \in Seen(q, v) <=> q[1].vfo = v /\ ~q[1].cancelled
  BY DEF Seen
<1>3. Seen(q, v) \subseteq Int /\ Seen(r, v) \subseteq Int /\ \A i \in Seen(q, v) : i >= 1
  BY DEF Seen
<1>4. CASE Seen(q, v) = {}
  <2>1. x = d /\ Seen(r, v) = {} /\ 1 \notin Seen(q, v)
    BY <1>1, <1>3, <1>4 DEF Tells
  <2> QED
    BY <1>2, <2>1 DEF Tells
<1>5. CASE Seen(q, v) # {}
  <2>1. PICK i \in Seen(q, v) : x = q[i].ptt /\ \A k \in Seen(q, v) : k <= i
    BY <1>5 DEF Tells
  <2>2. CASE i = 1
    <3>1. Seen(r, v) = {}
      BY <1>1, <1>3, <2>1, <2>2
    <3> QED
      BY <1>2, <2>1, <2>2, <3>1 DEF Tells
  <2>3. CASE i # 1
    <3>1. i - 1 \in Int /\ (i - 1) + 1 = i /\ i - 1 # 0
      BY <1>3, <2>3
    <3>2. i - 1 \in Seen(r, v)
      BY <1>1, <3>1
    <3>3. r[i - 1] = q[i]
      BY <3>1, <3>2 DEF Seen
    <3>4. \A k \in Seen(r, v) : k <= i - 1
      BY <1>1, <1>3, <2>1
    <3> QED
      BY <2>1, <3>2, <3>3, <3>4 DEF Tells
  <2> QED
    BY <2>2, <2>3
<1> QED
  BY <1>4, <1>5

\* Results that join the done list come behind all that wait to be replayed.
LEMMA ResultsGrow ==
  ASSUME NEW p \in Seq(Job), NEW q \in Seq(Job), NEW r \in Seq(Job)
  PROVE  LET a == p \o q
             b == p \o (q \o r)
         IN  /\ Extends(a, b) /\ Len(b) = Len(a) + Len(r) /\ Len(r) \in Nat
             /\ \A i \in 1..Len(b) : i > Len(a) =>
                  i - Len(a) \in 1..Len(r) /\ b[i] = r[i - Len(a)]
<1> DEFINE a == p \o q
           s == q \o r
           b == p \o s
<1>1. /\ a \in Seq(Job) /\ Len(a) = Len(p) + Len(q)
      /\ \A i \in 1..(Len(p) + Len(q)) : a[i] = IF i <= Len(p) THEN p[i] ELSE q[i - Len(p)]
  BY ConcatElems
<1>2. /\ s \in Seq(Job) /\ Len(s) = Len(q) + Len(r)
      /\ \A i \in 1..(Len(q) + Len(r)) : s[i] = IF i <= Len(q) THEN q[i] ELSE r[i - Len(q)]
  BY ConcatElems
<1>s. s \in Seq(Job)
  BY <1>2
<1> HIDE DEF s
<1>3. /\ b \in Seq(Job) /\ Len(b) = Len(p) + Len(s)
      /\ \A i \in 1..(Len(p) + Len(s)) : b[i] = IF i <= Len(p) THEN p[i] ELSE s[i - Len(p)]
  BY <1>s, ConcatElems
<1>4. Len(p) \in Nat /\ Len(q) \in Nat /\ Len(r) \in Nat
  OBVIOUS
<1> HIDE DEF a, b
<1>5. ASSUME NEW i \in 1..Len(a) PROVE b[i] = a[i]
  <2>1. CASE i <= Len(p)
    <3>1. i \in 1..(Len(p) + Len(s)) /\ i \in 1..(Len(p) + Len(q))
      BY <1>1, <1>2, <1>4, <2>1
    <3>2. b[i] = p[i]
      BY <1>3, <2>1, <3>1
    <3>3. a[i] = p[i]
      BY <1>1, <2>1, <3>1
    <3> QED
      BY <3>2, <3>3
  <2>2. CASE i > Len(p)
    <3>1. i - Len(p) \in 1..Len(q) /\ i \in 1..(Len(p) + Len(s)) /\ i \in 1..(Len(p) + Len(q))
      BY <1>1, <1>2, <1>3, <1>4, <2>2
    <3>2. b[i] = s[i - Len(p)] /\ a[i] = q[i - Len(p)]
      BY <1>1, <1>3, <1>4, <2>2, <3>1
    <3>3. s[i - Len(p)] = q[i - Len(p)]
      <4> DEFINE k == i - Len(p)
      <4>1. k \in 1..Len(q)
        BY <3>1
      <4> HIDE DEF k
      <4>2. k \in 1..(Len(q) + Len(r)) /\ k <= Len(q)
        BY <1>4, <4>1
      <4>3. s[k] = q[k]
        BY <1>2, <4>2
      <4> QED
        BY <4>3 DEF k
    <3> QED
      BY <3>2, <3>3
  <2> QED
    BY <1>1, <1>4, <2>1, <2>2
<1>6. ASSUME NEW i \in 1..Len(b), i > Len(a)
      PROVE  i - Len(a) \in 1..Len(r) /\ b[i] = r[i - Len(a)]
  <2>1. /\ i - Len(p) \in 1..(Len(q) + Len(r)) /\ i - Len(p) > Len(q)
        /\ i \in 1..(Len(p) + Len(s)) /\ i > Len(p)
        /\ i - Len(a) = (i - Len(p)) - Len(q) /\ i - Len(a) \in 1..Len(r)
    BY <1>1, <1>2, <1>3, <1>4, <1>6
  <2>2. b[i] = s[i - Len(p)]
    BY <1>3, <1>4, <2>1
  <2>3. s[i - Len(p)] = r[(i - Len(p)) - Len(q)]
    <3> DEFINE m == i - Len(p)
    <3>1. m \in 1..(Len(q) + Len(r)) /\ ~(m <= Len(q))
      BY <1>4, <2>1
    <3> HIDE DEF m
    <3>2. s[m] = r[m - Len(q)]
      BY <1>2, <3>1
    <3> QED
      BY <3>2 DEF m
  <2> QED
    BY <2>1, <2>2, <2>3
<1>7. Len(b) = Len(a) + Len(r) /\ Len(a) \in Nat /\ Len(b) \in Nat /\ Len(a) <= Len(b)
  BY <1>1, <1>2, <1>3, <1>4
<1>8. Extends(a, b)
  BY <1>5, <1>7 DEF Extends
<1> QED
  BY <1>4, <1>6, <1>7, <1>8 DEF a, b, s

\* A queued job that is given up is not applied.
LEMMA CancelledUnseen ==
  ASSUME NEW q \in Seq(Job)
  PROVE  \A k \in 1..Len(Cancelled(q)) : Cancelled(q)[k].cancelled
<1>1. Len(Cancelled(q)) = Len(q)
  BY CancelledType
<1> DEFINE c(k) == Outcome(q[k], TRUE, TRUE, q[k].ptt)
<1>2. Cancelled(q) = [k \in 1..Len(q) |-> c(k)]
  BY DEF Cancelled
<1>3. \A k \in 1..Len(q) : c(k).cancelled
  BY DEF Outcome
<1> HIDE DEF c
<1>4. \A k \in 1..Len(q) : Cancelled(q)[k] = c(k)
  BY <1>2
<1> QED
  BY <1>1, <1>3, <1>4

\* A follower of a release says what the release says.
LEMMA InheritSays ==
  ASSUME NEW q \in Seq(Job), NEW j \in Job, \A f \in Elems(q) : f.vfo = j.vfo
  PROVE  \A k \in 1..Len(Inherit(q, j)) :
           LET f == Inherit(q, j)[k]
           IN  f.vfo = j.vfo /\ f.cancelled = j.cancelled /\ f.ptt = j.ptt
<1>1. Len(Inherit(q, j)) = Len(q)
  BY InheritType
<1> DEFINE c(k) == Outcome(q[k], j.failed, j.cancelled, j.ptt)
<1>2. Inherit(q, j) = [k \in 1..Len(q) |-> c(k)]
  BY DEF Inherit
<1>3. \A k \in 1..Len(q) : q[k].vfo = j.vfo
  BY DEF Elems
<1>4. \A k \in 1..Len(q) :
        c(k).vfo = j.vfo /\ c(k).cancelled = j.cancelled /\ c(k).ptt = j.ptt
  BY <1>3 DEF Outcome
<1> HIDE DEF c
<1>5. \A k \in 1..Len(q) : Inherit(q, j)[k] = c(k)
  BY <1>2
<1> QED
  BY <1>1, <1>4, <1>5

\* The results that finish_job_locked adds: the job and its followers, which
\* all carry its outcome.
LEMMA FinishGrows ==
  ASSUME TypeOK, NEW j \in Job, FinishJobLocked(j)
  PROVE  \E r \in Seq(Job) :
           /\ done' = done \o r /\ Len(r) # 0
           /\ \A k \in 1..Len(r) :
                r[k].vfo = j.vfo /\ r[k].cancelled = j.cancelled /\ r[k].ptt = j.ptt
<1>1. done \in Seq(Job) /\ followers \in Seq(Job)
  BY DEF TypeOK
<1> DEFINE one == <<j>>
<1>2. /\ one \in Seq(Job) /\ Len(one) = 1 /\ Append(done, j) = done \o one
      /\ \A k \in 1..Len(one) : one[k] = j
  BY <1>1
<1>3. CASE ~IsParent(j)
  <2>1. done' = done \o one
    BY <1>2, <1>3 DEF FinishJobLocked
  <2> HIDE DEF one
  <2>2. \A k \in 1..Len(one) :
          one[k].vfo = j.vfo /\ one[k].cancelled = j.cancelled /\ one[k].ptt = j.ptt
    BY <1>2
  <2> QED
    BY <1>2, <2>1, <2>2
<1>4. CASE IsParent(j)
  <2> DEFINE F == Filter(followers, FollowersOf(j))
             G == Inherit(F, j)
             r == one \o G
  <2>1. F \in Seq(Job) /\ \A f \in Elems(F) : f.vfo = j.vfo
    BY <1>1, FilterProperties, FilterElems DEF FollowersOf
  <2> HIDE DEF F
  <2>2. /\ G \in Seq(Job)
        /\ \A k \in 1..Len(G) :
             G[k].vfo = j.vfo /\ G[k].cancelled = j.cancelled /\ G[k].ptt = j.ptt
    BY <2>1, InheritType, InheritSays
  <2>3. done' = (done \o one) \o G
    BY <1>2, <1>4 DEF FinishJobLocked, F
  <2> HIDE DEF one, G
  <2>4. /\ r \in Seq(Job) /\ Len(r) = Len(one) + Len(G) /\ Len(G) \in Nat
        /\ \A k \in 1..(Len(one) + Len(G)) :
             r[k] = IF k <= Len(one) THEN one[k] ELSE G[k - Len(one)]
    BY <1>2, <2>2, ConcatElems
  <2>5. (done \o one) \o G = done \o r
    <3>1. done \in Seq(Job) /\ one \in Seq(Job) /\ G \in Seq(Job)
      BY <1>1, <1>2, <2>2
    <3>2. (done \o one) \o G = done \o (one \o G)
      BY <3>1, ConcatAssociative
    <3> QED
      BY <3>2
  <2> HIDE DEF r
  <2>6. ASSUME NEW k \in 1..Len(r)
        PROVE  r[k].vfo = j.vfo /\ r[k].cancelled = j.cancelled /\ r[k].ptt = j.ptt
    <3>1. CASE k <= 1
      <4>1. k \in 1..(Len(one) + Len(G)) /\ k \in 1..Len(one) /\ k <= Len(one)
        BY <1>2, <2>4, <3>1
      <4>2. r[k] = one[k] /\ one[k] = j
        BY <1>2, <2>4, <4>1
      <4> QED
        BY <4>2
    <3>2. CASE k > 1
      <4>1. k \in 1..(Len(one) + Len(G)) /\ k - 1 \in 1..Len(G) /\ ~(k <= Len(one))
        BY <1>2, <2>4, <3>2
      <4>2. r[k] = G[k - 1]
        BY <1>2, <2>4, <4>1
      <4> QED
        BY <2>2, <4>1, <4>2
    <3> QED
      BY <3>1, <3>2
  <2>7. done' = done \o r /\ Len(r) # 0 /\ r \in Seq(Job)
    BY <1>2, <2>3, <2>4, <2>5
  <2> QED
    BY <2>6, <2>7
<1> QED
  BY <1>3, <1>4

\* The cache starts with the state the worker knows.
LEMMA InitCInv == Init => CInv
<1> SUFFICES ASSUME Init PROVE CInv
  OBVIOUS
<1>1. /\ jobs = <<>> /\ done = <<>> /\ worker = "idle"
      /\ cache = [v \in VFO |-> FALSE] /\ keyed = [v \in VFO |-> FALSE]
  BY DEF Init
<1>2. jobs \o done = <<>> /\ Len(<<>>) = 0
  BY <1>1
<1>3. \A v \in VFO : Seen(jobs \o done, v) = {}
  BY <1>2 DEF Seen
<1>4. ReplayTrue
  BY <1>1, <1>3 DEF ReplayTrue, Tells
<1> QED
  BY <1>1, <1>4 DEF CInv, ResultTrue

\* Steps that add only cancelled results, or none.
LEMMA GrowCInv ==
  ASSUME IInv, CInv, NEW r \in Seq(Job), done' = done \o r,
         \A k \in 1..Len(r) : r[k].cancelled,
         UNCHANGED <<jobs, cache, stopping, thread>>
  PROVE  CInv'
<1> SUFFICES ASSUME ~stopping PROVE ResultTrue' /\ ReplayTrue'
  BY DEF CInv
<1>1. ResultTrue /\ ReplayTrue
  BY DEF CInv
<1>2. ResultTrue'
  BY <1>1 DEF ResultTrue, thread
<1>3. ReplayTrue'
  <2> SUFFICES ASSUME NEW v \in VFO, worker # "finish" \/ running_job.vfo # v
               PROVE  Tells(jobs \o (done \o r), v, cache[v], keyed[v])
    BY DEF ReplayTrue, thread
  <2>1. Tells(jobs \o done, v, cache[v], keyed[v])
    BY <1>1 DEF ReplayTrue
  <2> DEFINE a == jobs \o done
             b == jobs \o (done \o r)
  <2>2. /\ Extends(a, b)
        /\ \A i \in 1..Len(b) : i > Len(a) => i - Len(a) \in 1..Len(r) /\ b[i] = r[i - Len(a)]
    BY ResultsGrow, SMTT(30) DEF IInv, TypeOK
  <2> HIDE DEF a, b
  <2>3. \A i \in 1..Len(b) : i > Len(a) => b[i].vfo # v \/ b[i].cancelled
    BY <2>2
  <2>4. Tells(a, v, cache[v], keyed[v])
    BY <2>1 DEF a
  <2>5. Tells(b, v, cache[v], keyed[v])
    BY <2>2, <2>3, <2>4, TellsUnseen
  <2> QED
    BY <2>5 DEF b
<1> QED
  BY <1>2, <1>3

\* Steps of the worker before a job is executed, which touch neither results
\* nor transmit state.
LEMMA QuietCInv ==
  ASSUME CInv, ~stopping => worker # "finish" /\ worker' # "finish",
         UNCHANGED <<jobs, done, cache, stopping, keyed>>
  PROVE  CInv'
<1> SUFFICES ASSUME ~stopping PROVE ResultTrue' /\ ReplayTrue'
  BY DEF CInv
<1>1. ReplayTrue
  BY DEF CInv
<1>2. ResultTrue'
  BY DEF ResultTrue
<1>3. ReplayTrue'
  BY <1>1 DEF ReplayTrue
<1> QED
  BY <1>2, <1>3

\* The steps that leave results and worker alone.
LEMMA SameCInv ==
  ASSUME CInv, UNCHANGED <<jobs, done, cache, stopping, thread>>
  PROVE  CInv'
<1>1. ResultTrue => ResultTrue'
  BY DEF ResultTrue, thread
<1>2. ReplayTrue => ReplayTrue'
  BY DEF ReplayTrue, thread
<1> QED
  BY <1>1, <1>2 DEF CInv

\* A job is executed: its result carries the transmit state of its VFO, and the
\* state of no other VFO changes.
LEMMA ExecuteCInv ==
  ASSUME CInv, worker # "finish", worker' = "finish",
         ~running_job'.cancelled, running_job'.ptt = keyed'[running_job'.vfo],
         \A v \in VFO : v # running_job'.vfo => keyed'[v] = keyed[v],
         UNCHANGED <<jobs, done, cache, stopping>>
  PROVE  CInv'
<1> SUFFICES ASSUME ~stopping PROVE ResultTrue' /\ ReplayTrue'
  BY DEF CInv
<1>1. ReplayTrue
  BY DEF CInv
<1>2. ResultTrue'
  BY DEF ResultTrue
<1>3. ReplayTrue'
  BY <1>1 DEF ReplayTrue
<1> QED
  BY <1>2, <1>3

\* The results of a finished job, and of its followers, are the last word.
LEMMA FinishCInv ==
  ASSUME IInv, CInv, Finish
  PROVE  CInv'
<1> SUFFICES ASSUME ~stopping PROVE ResultTrue' /\ ReplayTrue'
  BY DEF CInv, Finish
<1> DEFINE j == running_job
<1>1. /\ worker = "finish" /\ worker' = "idle" /\ FinishJobLocked(running_job)
      /\ UNCHANGED <<jobs, cache, stopping, keyed>>
  BY DEF Finish, main
<1>2. j \in Job /\ ~j.cancelled /\ j.ptt = keyed[j.vfo]
  BY <1>1 DEF IInv, TypeOK, WorkerState, CInv, ResultTrue
<1>3. ReplayTrue
  BY DEF CInv
<1>4. PICK r \in Seq(Job) :
        /\ done' = done \o r /\ Len(r) # 0
        /\ \A k \in 1..Len(r) :
             r[k].vfo = j.vfo /\ r[k].cancelled = j.cancelled /\ r[k].ptt = j.ptt
  BY <1>1, <1>2, FinishGrows DEF IInv
<1>5. ASSUME NEW v \in VFO PROVE Tells(jobs \o (done \o r), v, cache[v], keyed[v])
  <2> DEFINE a == jobs \o done
             b == jobs \o (done \o r)
  <2>1. /\ Extends(a, b) /\ Len(b) = Len(a) + Len(r) /\ Len(r) \in Nat
        /\ \A i \in 1..Len(b) : i > Len(a) => i - Len(a) \in 1..Len(r) /\ b[i] = r[i - Len(a)]
    BY ResultsGrow DEF IInv, TypeOK
  <2> HIDE DEF a, b, j
  <2>2. CASE j.vfo = v
    <3>1. \A i \in 1..Len(b) : i > Len(a) =>
            b[i].vfo = v /\ ~b[i].cancelled /\ b[i].ptt = keyed[v]
      BY <1>2, <1>4, <2>1, <2>2
    <3>2. Len(a) < Len(b)
      BY <1>4, <2>1 DEF Extends
    <3>3. Tells(b, v, cache[v], keyed[v])
      BY <2>1, <3>1, <3>2, TellsSeen
    <3> QED
      BY <3>3 DEF b
  <2>3. CASE j.vfo # v
    <3>1. \A i \in 1..Len(b) : i > Len(a) => b[i].vfo # v \/ b[i].cancelled
      BY <1>4, <2>1, <2>3
    <3>2. Tells(a, v, cache[v], keyed[v])
      BY <1>3, <2>3 DEF ReplayTrue, a, j
    <3>3. Tells(b, v, cache[v], keyed[v])
      BY <2>1, <3>1, <3>2, TellsUnseen
    <3> QED
      BY <3>3 DEF b
  <2> QED
    BY <2>2, <2>3
<1>6. ResultTrue'
  BY <1>1 DEF ResultTrue
<1>7. ReplayTrue'
  BY <1>1, <1>4, <1>5 DEF ReplayTrue
<1> QED
  BY <1>6, <1>7

\* drain() detaches the results without changing what they say.
LEMMA DetachCInv ==
  ASSUME IInv, CInv, DrainTake
  PROVE  CInv'
<1>1. /\ jobs = <<>> /\ jobs' = done /\ done' = <<>>
      /\ UNCHANGED <<stopping, thread, cache>>
  BY DEF DrainTake
<1>2. jobs' \o done' = jobs \o done
  BY <1>1, ConcatEmptySeq DEF IInv, TypeOK
<1>3. ReplayTrue => ReplayTrue'
  BY <1>1, <1>2 DEF ReplayTrue, thread
<1>4. ResultTrue => ResultTrue'
  BY <1>1 DEF ResultTrue, thread
<1> QED
  BY <1>1, <1>3, <1>4 DEF CInv

\* Replaying a result moves what it says into the cache.
LEMMA ReplayCInv ==
  ASSUME IInv, CInv, DrainJob
  PROVE  CInv'
<1> SUFFICES ASSUME ~stopping PROVE ResultTrue' /\ ReplayTrue'
  BY DEF CInv, DrainJob
<1> DEFINE h == Head(jobs)
<1>1. /\ jobs # <<>> /\ jobs' = Tail(jobs) /\ UNCHANGED <<done, stopping, thread>>
      /\ cache' = IF h.cancelled THEN cache ELSE [cache EXCEPT ![h.vfo] = h.ptt]
  BY DEF DrainJob, Delivered
<1>2. ResultTrue /\ ReplayTrue
  BY DEF CInv
<1>3. /\ jobs \in Seq(Job) /\ done \in Seq(Job) /\ cache \in [VFO -> BOOLEAN]
  BY DEF IInv, TypeOK
<1> DEFINE q == jobs \o done
           t == Tail(jobs)
           r == t \o done
<1>4. /\ h \in Job /\ h = jobs[1] /\ t \in Seq(Job) /\ Len(jobs) \in Nat \ {0}
      /\ Len(t) = Len(jobs) - 1
      /\ \A i \in 1..Len(t) : t[i] = jobs[i + 1] /\ i + 1 \in 1..Len(jobs)
  BY <1>1, <1>3, TailElems
<1>5. /\ Len(q) = Len(jobs) + Len(done) /\ Len(done) \in Nat
      /\ \A i \in 1..(Len(jobs) + Len(done)) :
           q[i] = IF i <= Len(jobs) THEN jobs[i] ELSE done[i - Len(jobs)]
  BY <1>3, ConcatElems
<1>t. t \in Seq(Job)
  BY <1>4
<1> HIDE DEF t, h
<1>6. /\ Len(r) = Len(t) + Len(done)
      /\ \A i \in 1..(Len(t) + Len(done)) :
           r[i] = IF i <= Len(t) THEN t[i] ELSE done[i - Len(t)]
  BY <1>3, <1>t, ConcatElems
<1> HIDE DEF q, r
<1>7. Len(q) \in Nat \ {0} /\ Len(r) = Len(q) - 1 /\ q[1] = h
  <2>1. Len(q) \in Nat \ {0} /\ Len(r) = Len(q) - 1
    BY <1>4, <1>5, <1>6
  <2>2. 1 \in 1..(Len(jobs) + Len(done)) /\ 1 <= Len(jobs)
    BY <1>4, <1>5
  <2>3. q[1] = jobs[1]
    BY <1>5, <2>2
  <2> QED
    BY <1>4, <2>1, <2>3
<1>8. ASSUME NEW i \in 1..Len(r) PROVE r[i] = q[i + 1]
  <2> DEFINE m == i + 1
  <2>1. /\ i \in 1..(Len(t) + Len(done)) /\ m \in 1..(Len(jobs) + Len(done))
        /\ (i <= Len(t)) <=> (m <= Len(jobs))
        /\ i <= Len(t) => i \in 1..Len(t)
        /\ i - Len(t) = m - Len(jobs)
    BY <1>4, <1>5, <1>6
  <2>2. i <= Len(t) => t[i] = jobs[m]
    BY <1>4, <2>1
  <2> HIDE DEF m
  <2>3. r[i] = IF i <= Len(t) THEN t[i] ELSE done[i - Len(t)]
    BY <1>6, <2>1
  <2>4. q[m] = IF m <= Len(jobs) THEN jobs[m] ELSE done[m - Len(jobs)]
    BY <1>5, <2>1
  <2>5. r[i] = q[m]
    BY <2>1, <2>2, <2>3, <2>4
  <2> QED
    BY <2>5 DEF m
<1>9. ReplayTrue'
  <2> SUFFICES ASSUME NEW v \in VFO, worker # "finish" \/ running_job.vfo # v
               PROVE  Tells(r, v, cache'[v], keyed[v])
    BY <1>1 DEF ReplayTrue, thread, r, t
  <2>1. Tells(q, v, cache[v], keyed[v])
    BY <1>2 DEF ReplayTrue, q
  <2>2. Tells(r, v, IF q[1].vfo = v /\ ~q[1].cancelled THEN q[1].ptt ELSE cache[v], keyed[v])
    BY <1>7, <1>8, <2>1, TellsTail
  <2>3. cache'[v] = IF h.vfo = v /\ ~h.cancelled THEN h.ptt ELSE cache[v]
    BY <1>1, <1>3, <1>4 DEF Job
  <2> QED
    BY <1>7, <2>2, <2>3
<1>10. ResultTrue'
  BY <1>1, <1>2 DEF ResultTrue, thread
<1> QED
  BY <1>9, <1>10

\* Every step keeps the results true.
LEMMA NextCInv == IInv /\ QInv /\ CInv /\ [Next]_vars => CInv'
<1> SUFFICES ASSUME IInv, QInv, CInv, [Next]_vars PROVE CInv'
  OBVIOUS
<1>a. /\ queue \in Seq(Job) /\ done \in Seq(Job) /\ WorkerState
      /\ running_job \in Job \cup {NoJob} /\ keyed \in [VFO -> BOOLEAN]
  BY DEF IInv, TypeOK
<1>b. worker \in {"final", "exited"} => stopping
  BY DEF QInv, Leaving
<1>1. ASSUME NEW v \in VFO, NEW op \in Operations, SubmitNormal(op, v) PROVE CInv'
  BY <1>1, SameCInv DEF SubmitNormal
<1>2. ASSUME NEW v \in VFO, SubmitRelease(v) PROVE CInv'
  <2> DEFINE F == Filter(queue, Superseded(v))
             r == Cancelled(F)
  <2>1. F \in Seq(Job)
    BY <1>a, FilterProperties
  <2>2. done' = done \o r /\ UNCHANGED <<jobs, cache, stopping, thread>>
    BY <1>2 DEF SubmitRelease
  <2> HIDE DEF F
  <2>3. r \in Seq(Job) /\ \A k \in 1..Len(r) : r[k].cancelled
    BY <2>1, CancelledType, CancelledUnseen
  <2> HIDE DEF r
  <2> QED
    BY <2>2, <2>3, GrowCInv
<1>3. CASE Take \/ LeaveLoop \/ WorkerExit
  <2>1. worker # "finish" /\ worker' # "finish" /\ UNCHANGED <<jobs, done, cache, stopping, keyed>>
    BY <1>3 DEF Take, LeaveLoop, WorkerExit, main, locked
  <2> QED
    BY <2>1, QuietCInv
<1>4. CASE CheckHalted
  <2>1. /\ worker = "check" /\ UNCHANGED <<jobs, done, cache, stopping, keyed>>
        /\ running_job \in Job
    BY <1>4, <1>a DEF CheckHalted, main, locked, WorkerState
  <2>2. CASE worker' = "call"
    BY <2>1, <2>2, QuietCInv
  <2>3. CASE worker' # "call"
    <3>1. worker' = "finish" /\ running_job' = Outcome(running_job, TRUE, FALSE, keyed[running_job.vfo])
      BY <1>4, <2>3 DEF CheckHalted
    <3>2. ~running_job'.cancelled /\ running_job'.ptt = keyed'[running_job'.vfo]
      BY <2>1, <3>1 DEF Outcome
    <3> QED
      BY <2>1, <3>1, <3>2, ExecuteCInv
  <2> QED
    BY <2>2, <2>3
<1>5. CASE Call
  <2>1. /\ worker = "call" /\ worker' = "finish" /\ UNCHANGED <<jobs, done, cache, stopping>>
        /\ running_job \in Job /\ running_job.vfo \in VFO
    BY <1>5, <1>a DEF Call, main, locked, WorkerState, Job
  <2>2. PICK failed \in BOOLEAN :
          /\ IF running_job.op \in {"ptt_on", "ptt_off"}
               THEN PttSet(running_job.vfo, running_job.op = "ptt_on", failed)
               ELSE \/ UNCHANGED keyed
                    \/ keyed' = [keyed EXCEPT ![running_job.vfo] = tx[running_job.vfo]]
          /\ running_job' = Outcome(running_job, failed, FALSE, keyed'[running_job.vfo])
    BY <1>5 DEF Call
  <2>3. /\ ~running_job'.cancelled /\ running_job'.vfo = running_job.vfo
        /\ running_job'.ptt = keyed'[running_job'.vfo]
    BY <2>2 DEF Outcome
  <2>4. \A v \in VFO : v # running_job.vfo => keyed'[v] = keyed[v]
    BY <1>a, <2>1, <2>2 DEF PttSet
  <2> QED
    BY <2>1, <2>3, <2>4, ExecuteCInv
<1>6. CASE Finish
  BY <1>6, FinishCInv
<1>7. CASE FinalRelease \/ Stop
  BY <1>7, <1>b DEF FinalRelease, Stop, CInv
<1>8. CASE DrainTake
  BY <1>8, DetachCInv
<1>9. CASE DrainJob
  BY <1>9, ReplayCInv
<1>10. CASE Free \/ SetHalted \/ Freed \/ UNCHANGED vars
  <2>1. UNCHANGED <<jobs, done, cache, stopping, thread>>
    BY <1>10 DEF Free, SetHalted, Freed, vars, main, locked
  <2> QED
    BY <2>1, SameCInv
<1> QED
  BY <1>1, <1>2, <1>3, <1>4, <1>5, <1>6, <1>7, <1>8, <1>9, <1>10
     DEF Next, Submit, WorkerStep, DrainStep

\* drain() keeps the cached transmit state true over any order of submissions,
\* cancellations, shared releases and deferred replays: with nothing of a VFO
\* left to replay it is the state the worker saw last.
THEOREM WorkerCacheFresh == Spec => []CacheFresh
<1>1. Init => IInv /\ QInv /\ CInv
  BY InitIInv, InitQInv, InitCInv
<1>2. (IInv /\ QInv /\ CInv) /\ [Next]_vars => (IInv /\ QInv /\ CInv)'
  BY NextIInv, NextQInv, NextCInv
<1>3. CInv => CacheFresh
  <2> SUFFICES ASSUME CInv, ~stopping, NEW v \in VFO,
                      worker # "finish" \/ running_job.vfo # v
               PROVE  LET all == jobs \o done
                          seen == {i \in 1..Len(all) : all[i].vfo = v /\ ~all[i].cancelled}
                          last == CHOOSE i \in seen : \A k \in seen : k <= i
                      IN  keyed[v] = IF seen = {} THEN cache[v] ELSE all[last].ptt
    BY DEF CacheFresh
  <2> DEFINE all == jobs \o done
             seen == Seen(all, v)
             last == CHOOSE i \in seen : \A k \in seen : k <= i
  <2>1. Tells(all, v, cache[v], keyed[v])
    BY DEF CInv, ReplayTrue
  <2> HIDE DEF all
  <2>2. seen \subseteq Int
    BY DEF Seen
  <2> HIDE DEF seen
  <2>3. keyed[v] = IF seen = {} THEN cache[v] ELSE all[last].ptt
    <3>1. CASE seen = {}
      BY <2>1, <3>1 DEF Tells, seen
    <3>2. CASE seen # {}
      <4>1. PICK i \in seen : keyed[v] = all[i].ptt /\ \A k \in seen : k <= i
        BY <2>1, <3>2 DEF Tells, seen
      <4>2. last \in seen /\ \A k \in seen : k <= last
        BY <4>1
      <4> HIDE DEF last
      <4>3. i = last
        BY <2>2, <4>1, <4>2
      <4> QED
        BY <3>2, <4>1, <4>3
    <3> QED
      BY <3>1, <3>2
  <2> QED
    BY <2>3 DEF all, seen, last, Seen
<1> QED
  BY <1>1, <1>2, <1>3, PTL DEF Spec

----------------------------------------------------------------------------
(* Every job is in one place *)

\* What identifies a job from submit() to drain(), whatever its outcome.
Tag(j) == [id |-> j.id, op |-> j.op, vfo |-> j.vfo]

\* The submissions on a list.
Tags(q) == {Tag(j) : j \in {k \in Elems(q) : k.id # 0}}

\* No submission is on the list twice.
Apart(q) == \A i, k \in 1..Len(q) : i < k /\ q[i].id # 0 => q[i].id # q[k].id

\* No submission is on both lists.
Foreign(S, T) == \A s \in S, t \in T : s.id # t.id

\* A list holds one job of each submission.
LEMMA ApartUnique ==
  ASSUME NEW q \in Seq(Job), Apart(q), NEW x \in Elems(q), NEW y \in Elems(q),
         x.id = y.id, x.id # 0
  PROVE  x = y
<1>1. PICK i \in 1..Len(q) : x = q[i]
  BY DEF Elems
<1>2. PICK k \in 1..Len(q) : y = q[k]
  BY DEF Elems
<1>3. ~(i < k) /\ ~(k < i)
  BY <1>1, <1>2 DEF Apart
<1>4. i = k
  BY <1>3
<1> QED
  BY <1>1, <1>2, <1>4

\* Selecting keeps submissions apart.
LEMMA FilterApart ==
  ASSUME NEW q \in Seq(Job), Apart(q), NEW S
  PROVE  Apart(Filter(q, S))
<1> DEFINE r == Filter(q, S)
           P == Positions(q, S)
<1>1. /\ \A k \in 1..Len(r) : Nth(P, k) \in P /\ r[k] = q[Nth(P, k)]
      /\ \A k, m \in 1..Len(r) : k < m => Nth(P, k) < Nth(P, m)
  BY FilterProperties
<1>2. P \subseteq 1..Len(q)
  BY DEF Positions
<1> HIDE DEF r, P
<1>3. Apart(r)
  <2> SUFFICES ASSUME NEW i \in 1..Len(r), NEW k \in 1..Len(r), i < k, r[i].id # 0
               PROVE  r[i].id # r[k].id
    BY DEF Apart
  <2>1. PICK m \in 1..Len(q), n \in 1..Len(q) : m < n /\ r[i] = q[m] /\ r[k] = q[n]
    BY <1>1, <1>2
  <2> QED
    BY <2>1 DEF Apart
<1> QED
  BY <1>3 DEF r

\* A list is split into the jobs selected and the others.
LEMMA SplitApart ==
  ASSUME NEW q \in Seq(Job), Apart(q), NEW S
  PROVE  /\ Apart(Filter(q, S)) /\ Apart(Without(q, S))
         /\ Tags(q) = Tags(Filter(q, S)) \cup Tags(Without(q, S))
         /\ Foreign(Tags(Filter(q, S)), Tags(Without(q, S)))
<1> DEFINE f == Filter(q, S)
           w == Without(q, S)
<1>1. Apart(f) /\ Apart(w)
  BY FilterApart DEF Without
<1>2. Elems(f) = Elems(q) \cap S /\ Elems(w) = Elems(q) \ S
  BY FilterElems, WithoutProperties
<1> HIDE DEF f, w
<1>3. Tags(q) = Tags(f) \cup Tags(w)
  BY <1>2 DEF Tags
<1>4. ASSUME NEW x \in Elems(f), NEW y \in Elems(w), x.id # 0 PROVE x.id # y.id
  <2>1. x \in Elems(q) /\ y \in Elems(q) /\ x # y
    BY <1>2
  <2> QED
    BY <2>1, <1>4, ApartUnique
<1>5. Foreign(Tags(f), Tags(w))
  BY <1>4 DEF Foreign, Tags, Tag
<1> QED
  BY <1>1, <1>3, <1>5 DEF f, w

\* Two lists one behind the other.
LEMMA ConcatApart ==
  ASSUME NEW q \in Seq(Job), NEW r \in Seq(Job), Apart(q), Apart(r),
         Foreign(Tags(q), Tags(r))
  PROVE  Apart(q \o r) /\ Tags(q \o r) = Tags(q) \cup Tags(r)
<1> DEFINE s == q \o r
<1>1. /\ Len(s) = Len(q) + Len(r) /\ Len(q) \in Nat /\ Len(r) \in Nat
      /\ \A i \in 1..(Len(q) + Len(r)) : s[i] = IF i <= Len(q) THEN q[i] ELSE r[i - Len(q)]
      /\ Elems(s) = Elems(q) \cup Elems(r)
  BY ConcatElems
<1> HIDE DEF s
<1>2. Tags(s) = Tags(q) \cup Tags(r)
  BY <1>1 DEF Tags
<1>3. ASSUME NEW x \in Elems(q), NEW y \in Elems(r), x.id # 0 PROVE x.id # y.id
  <2>1. CASE y.id = 0
    BY <1>3, <2>1
  <2>2. CASE y.id # 0
    <3>1. Tag(x) \in Tags(q) /\ Tag(y) \in Tags(r)
      BY <1>3, <2>2 DEF Tags
    <3> QED
      BY <3>1 DEF Foreign, Tag
  <2> QED
    BY <2>1, <2>2
<1>4. Apart(s)
  <2> SUFFICES ASSUME NEW i \in 1..Len(s), NEW k \in 1..Len(s), i < k, s[i].id # 0
               PROVE  s[i].id # s[k].id
    BY DEF Apart
  <2>1. i \in 1..(Len(q) + Len(r)) /\ k \in 1..(Len(q) + Len(r))
    BY <1>1
  <2>2. CASE k <= Len(q)
    <3>1. i \in 1..Len(q) /\ k \in 1..Len(q) /\ i <= Len(q)
      BY <1>1, <2>1, <2>2
    <3>2. s[i] = q[i] /\ s[k] = q[k]
      BY <1>1, <2>1, <2>2, <3>1
    <3> QED
      BY <3>1, <3>2 DEF Apart
  <2>3. CASE i > Len(q)
    <3> DEFINE a == i - Len(q)
               b == k - Len(q)
    <3>1. a \in 1..Len(r) /\ b \in 1..Len(r) /\ a < b /\ ~(i <= Len(q)) /\ ~(k <= Len(q))
      BY <1>1, <2>1, <2>3
    <3>2. s[i] = r[a] /\ s[k] = r[b]
      BY <1>1, <2>1, <3>1
    <3> HIDE DEF a, b
    <3> QED
      BY <3>1, <3>2 DEF Apart
  <2>4. CASE i <= Len(q) /\ k > Len(q)
    <3>1. i \in 1..Len(q) /\ k - Len(q) \in 1..Len(r) /\ ~(k <= Len(q))
      BY <1>1, <2>1, <2>4
    <3>2. s[i] = q[i] /\ s[k] = r[k - Len(q)]
      BY <1>1, <2>1, <2>4, <3>1
    <3>3. s[i] \in Elems(q) /\ s[k] \in Elems(r)
      BY <3>1, <3>2 DEF Elems
    <3> QED
      BY <1>3, <3>3
  <2> QED
    BY <1>1, <2>1, <2>2, <2>3, <2>4
<1> QED
  BY <1>2, <1>4 DEF s

\* Filling in outcomes keeps the submissions.
LEMMA RetagApart ==
  ASSUME NEW q \in Seq(Job), NEW r \in Seq(Job), Apart(q), Len(r) = Len(q),
         \A k \in 1..Len(q) : r[k].id = q[k].id /\ r[k].op = q[k].op /\ r[k].vfo = q[k].vfo
  PROVE  Apart(r) /\ Tags(r) = Tags(q)
<1>1. Apart(r)
  BY DEF Apart
<1>2. \A k \in 1..Len(q) : Tag(r[k]) = Tag(q[k])
  BY DEF Tag
<1>3. Tags(r) \subseteq Tags(q) /\ Tags(q) \subseteq Tags(r)
  BY <1>2 DEF Tags, Elems
<1> QED
  BY <1>1, <1>3

\* Taking the head of a list.
LEMMA HeadApart ==
  ASSUME NEW q \in Seq(Job), q # <<>>, Apart(q)
  PROVE  /\ Apart(Tail(q))
         /\ Head(q).id # 0 => /\ Tags(q) = Tags(Tail(q)) \cup {Tag(Head(q))}
                              /\ Foreign({Tag(Head(q))}, Tags(Tail(q)))
         /\ Head(q).id = 0 => Tags(q) = Tags(Tail(q))
<1> DEFINE t == Tail(q)
           h == Head(q)
<1>1. /\ t \in Seq(Job) /\ h = q[1] /\ Len(q) \in Nat \ {0} /\ Len(t) = Len(q) - 1
      /\ \A i \in 1..Len(t) : t[i] = q[i + 1] /\ i + 1 \in 1..Len(q)
      /\ Elems(q) = Elems(t) \cup {h}
  BY TailElems
<1> HIDE DEF t, h
<1>2. Apart(t)
  <2> SUFFICES ASSUME NEW i \in 1..Len(t), NEW k \in 1..Len(t), i < k, t[i].id # 0
               PROVE  t[i].id # t[k].id
    BY DEF Apart
  <2>1. i + 1 \in 1..Len(q) /\ k + 1 \in 1..Len(q) /\ i + 1 < k + 1
    BY <1>1
  <2>2. q[i + 1].id # 0 => q[i + 1].id # q[k + 1].id
    BY <2>1 DEF Apart
  <2> QED
    BY <1>1, <2>2
<1>3. ASSUME h.id # 0, NEW x \in Elems(t) PROVE h.id # x.id
  <2>1. PICK i \in 1..Len(t) : x = t[i]
    BY DEF Elems
  <2>2. 1 \in 1..Len(q) /\ i + 1 \in 1..Len(q) /\ 1 < i + 1 /\ x = q[i + 1]
    BY <1>1, <2>1
  <2> QED
    BY <1>1, <1>3, <2>2 DEF Apart
<1>4. h.id # 0 => Tags(q) = Tags(t) \cup {Tag(h)}
  BY <1>1 DEF Tags
<1>5. h.id # 0 => Foreign({Tag(h)}, Tags(t))
  BY <1>3 DEF Foreign, Tags, Tag
<1>6. h.id = 0 => Tags(q) = Tags(t)
  BY <1>1 DEF Tags
<1> QED
  BY <1>2, <1>4, <1>5, <1>6 DEF t, h

\* One job as a list.
LEMMA OneApart ==
  ASSUME NEW j \in Job
  PROVE  /\ <<j>> \in Seq(Job) /\ Apart(<<j>>)
         /\ Tags(<<j>>) = IF j.id # 0 THEN {Tag(j)} ELSE {}
<1>1. <<j>> \in Seq(Job) /\ Len(<<j>>) = 1 /\ <<j>>[1] = j
  OBVIOUS
<1>2. Apart(<<j>>)
  BY <1>1 DEF Apart
<1>3. Elems(<<j>>) = {j}
  BY <1>1 DEF Elems
<1> QED
  BY <1>1, <1>2, <1>3 DEF Tags

\* A job at the head of a list it is not on.
LEMMA PushApart ==
  ASSUME NEW q \in Seq(Job), NEW j \in Job, Apart(q), j.id # 0, Foreign({Tag(j)}, Tags(q))
  PROVE  /\ Apart(<<j>> \o q) /\ Tags(<<j>> \o q) = {Tag(j)} \cup Tags(q)
         /\ Elems(<<j>> \o q) = {j} \cup Elems(q)
<1> DEFINE one == <<j>>
<1>1. one \in Seq(Job) /\ Apart(one)
  BY OneApart
<1>2. Tags(one) = {Tag(j)}
  <2>1. Tags(<<j>>) = IF j.id # 0 THEN {Tag(j)} ELSE {}
    BY OneApart
  <2> QED
    BY <2>1
<1>3. Elems(one) = {j}
  BY DEF Elems
<1> HIDE DEF one
<1>4. Apart(one \o q) /\ Tags(one \o q) = Tags(one) \cup Tags(q)
  <2>1. Foreign(Tags(one), Tags(q))
    BY <1>2
  <2> QED
    BY <1>1, <2>1, ConcatApart
<1>5. Elems(one \o q) = Elems(one) \cup Elems(q)
  BY <1>1, ConcatElems
<1> QED
  BY <1>2, <1>3, <1>4, <1>5 DEF one

\* A result at the tail of a list it is not on.
LEMMA AppendApart ==
  ASSUME NEW q \in Seq(Job), NEW j \in Job, Apart(q), j.id # 0 => Foreign(Tags(q), {Tag(j)})
  PROVE  /\ Apart(Append(q, j))
         /\ j.id # 0 => Tags(Append(q, j)) = Tags(q) \cup {Tag(j)}
         /\ j.id = 0 => Tags(Append(q, j)) = Tags(q)
<1> DEFINE r == Append(q, j)
<1>1. /\ Len(r) = Len(q) + 1 /\ Len(q) \in Nat
      /\ \A i \in 1..Len(q) : r[i] = q[i]
      /\ r[Len(q) + 1] = j
      /\ Elems(r) = Elems(q) \cup {j}
  BY AppendElems
<1> HIDE DEF r
<1>2. Apart(r)
  <2> SUFFICES ASSUME NEW i \in 1..Len(r), NEW k \in 1..Len(r), i < k, r[i].id # 0
               PROVE  r[i].id # r[k].id
    BY DEF Apart
  <2>1. i \in 1..Len(q) /\ r[i] = q[i]
    BY <1>1
  <2>2. CASE k = Len(q) + 1
    <3>1. CASE j.id = 0
      BY <1>1, <2>2, <3>1
    <3>2. CASE j.id # 0
      <4>1. Tag(q[i]) \in Tags(q)
        BY <2>1 DEF Tags, Elems
      <4>2. Tag(q[i]).id # Tag(j).id
        BY <3>2, <4>1 DEF Foreign
      <4> QED
        BY <1>1, <2>1, <2>2, <4>2 DEF Tag
    <3> QED
      BY <3>1, <3>2
  <2>3. CASE k # Len(q) + 1
    <3>1. k \in 1..Len(q) /\ r[k] = q[k]
      BY <1>1, <2>3
    <3> QED
      BY <2>1, <3>1 DEF Apart
  <2> QED
    BY <2>2, <2>3
<1>3. /\ j.id # 0 => Tags(r) = Tags(q) \cup {Tag(j)}
      /\ j.id = 0 => Tags(r) = Tags(q)
  BY <1>1 DEF Tags
<1> QED
  BY <1>2, <1>3 DEF r

\* Enqueueing a new submission.
LEMMA EnqueueApart ==
  ASSUME NEW q \in Seq(Job), NEW j \in Job, Apart(q), j.id # 0,
         \A x \in Elems(q) : x.id < j.id
  PROVE  Apart(Enqueue(q, j)) /\ Tags(Enqueue(q, j)) = Tags(q) \cup {Tag(j)}
<1> DEFINE r == Enqueue(q, j)
<1>1. PICK n \in 0..Len(q) :
        /\ Len(r) = Len(q) + 1
        /\ \A i \in 1..(Len(q) + 1) :
             r[i] = IF i <= n THEN q[i] ELSE IF i = n + 1 THEN j ELSE q[i - 1]
  BY EnqueuePlaces
<1>2. Len(q) \in Nat /\ \A i \in 1..Len(q) : q[i] \in Elems(q) /\ q[i].id # j.id
  <2>1. \A x \in Elems(q) : x.id \in Nat
    BY ElemsInSet DEF Job
  <2> QED
    BY <2>1 DEF Elems, Job
<1>3. Elems(r) = Elems(q) \cup {j}
  BY EnqueueProperties
<1> HIDE DEF r
<1>4. Apart(r)
  <2> SUFFICES ASSUME NEW i \in 1..(Len(q) + 1), NEW k \in 1..(Len(q) + 1), i < k, r[i].id # 0
               PROVE  r[i].id # r[k].id
    BY <1>1 DEF Apart
  <2> DEFINE a == IF i <= n THEN i ELSE i - 1
             b == IF k <= n THEN k ELSE k - 1
  <2>1. CASE i = n + 1
    <3>1. r[i] = j /\ r[k] = q[k - 1] /\ k - 1 \in 1..Len(q)
      BY <1>1, <1>2, <2>1
    <3> QED
      BY <1>2, <3>1
  <2>2. CASE k = n + 1
    <3>1. r[k] = j /\ r[i] = q[i] /\ i \in 1..Len(q)
      BY <1>1, <1>2, <2>2
    <3> QED
      BY <1>2, <3>1
  <2>3. CASE i # n + 1 /\ k # n + 1
    <3>1. a \in 1..Len(q) /\ b \in 1..Len(q) /\ a < b
      BY <1>1, <1>2, <2>3
    <3>2. r[i] = q[a] /\ r[k] = q[b]
      BY <1>1, <2>3
    <3> HIDE DEF a, b
    <3> QED
      BY <3>1, <3>2 DEF Apart
  <2> QED
    BY <2>1, <2>2, <2>3
<1>5. Tags(r) = Tags(q) \cup {Tag(j)}
  BY <1>3 DEF Tags
<1> QED
  BY <1>4, <1>5 DEF r

RunTags == IF running_job = NoJob THEN {} ELSE {Tag(running_job)}

Scattered(A, B, C, D, E) ==
  /\ Foreign(A, B) /\ Foreign(A, C) /\ Foreign(A, D) /\ Foreign(A, E)
  /\ Foreign(B, C) /\ Foreign(B, D) /\ Foreign(B, E)
  /\ Foreign(C, D) /\ Foreign(C, E)
  /\ Foreign(D, E)

\* The submissions that have not been delivered.
LiveTags == Tags(queue) \cup Tags(followers) \cup Tags(done) \cup Tags(jobs) \cup RunTags

\* Each of them is in one place of one list.
OnePlace ==
  /\ Apart(queue) /\ Apart(followers) /\ Apart(done) /\ Apart(jobs)
  /\ Scattered(Tags(queue), Tags(followers), Tags(done), Tags(jobs), RunTags)

\* They have numbers that submit() gave out; only results of the shutdown
\* releases have none.
Issued ==
  /\ \A t \in LiveTags : t.id \in Nat /\ t.id <= submitted
  /\ \A j \in Elems(queue) \cup Elems(followers) : j.id # 0
  /\ running_job # NoJob => running_job.id # 0
  /\ \A j \in Elems(done) \cup Elems(jobs) : j.id = 0 => stopping

\* Polls of a VFO coalesce.
PollOnce ==
  \A s, t \in LiveTags : s.op = "poll" /\ t.op = "poll" /\ s.vfo = t.vfo => s = t

\* polls[v] is the flag of a poll underway.
PollFlag ==
  ~stopping => \A v \in VFO :
    polls[v] <=> \E t \in LiveTags : t.op = "poll" /\ t.vfo = v

\* At most QueueLimit normal jobs are underway.
NormalTags == {t \in LiveTags : t.op # "ptt_off"}

NormalBound == IsFiniteSet(NormalTags) /\ Cardinality(NormalTags) <= QueueLimit

UInv == OnePlace /\ Issued /\ PollOnce /\ PollFlag /\ NormalBound

\* What a step may do to the submissions underway: take in one, or move them,
\* or deliver one.
TakesIn(n) ==
  /\ LiveTags' = LiveTags \cup {n} /\ n.id = submitted + 1 /\ submitted' = submitted + 1

Moves == LiveTags' = LiveTags /\ UNCHANGED <<submitted, polls>>

Delivers(j) ==
  /\ UNCHANGED <<submitted, stopping>>
  /\ LiveTags' \subseteq LiveTags /\ LiveTags \subseteq LiveTags' \cup {Tag(j)}
  /\ j.id = 0 => LiveTags' = LiveTags
  /\ \A t \in LiveTags' : j.id # 0 => t.id # j.id
  /\ polls' = IF j.op = "poll" THEN [polls EXCEPT ![j.vfo] = FALSE] ELSE polls

\* Places are the initial ones: none.
LEMMA InitUInv == Init => UInv
<1> SUFFICES ASSUME Init PROVE UInv
  OBVIOUS
<1>1. /\ queue = <<>> /\ followers = <<>> /\ done = <<>> /\ jobs = <<>> /\ running_job = NoJob
      /\ polls = [v \in VFO |-> FALSE]
  BY DEF Init
<1>2. Elems(<<>>) = {} /\ Apart(<<>>)
  BY DEF Elems, Apart
<1>3. Tags(<<>>) = {}
  BY <1>2 DEF Tags
<1>4. /\ Tags(queue) = {} /\ Tags(followers) = {} /\ Tags(done) = {} /\ Tags(jobs) = {}
      /\ RunTags = {}
  BY <1>1, <1>3 DEF RunTags
<1>5. LiveTags = {}
  BY <1>4 DEF LiveTags
<1>6. Scattered({}, {}, {}, {}, {})
  BY DEF Scattered, Foreign
<1>7. OnePlace
  BY <1>1, <1>2, <1>4, <1>6 DEF OnePlace
<1>8. Issued
  BY <1>1, <1>2, <1>5 DEF Issued
<1>9. PollOnce /\ PollFlag
  BY <1>1, <1>5 DEF PollOnce, PollFlag
<1>10. NormalBound
  <2>1. NormalTags = {}
    BY <1>5 DEF NormalTags
  <2> QED
    BY <2>1, FS_EmptySet, ConstantsAssumption DEF NormalBound
<1> QED
  BY <1>7, <1>8, <1>9, <1>10 DEF UInv

\* Moving submissions keeps what is counted of them.
LEMMA MovesUInv ==
  ASSUME UInv, Moves, OnePlace', Issued', stopping => stopping'
  PROVE  UInv'
<1>1. PollOnce' /\ PollFlag'
  BY DEF UInv, PollOnce, PollFlag, Moves
<1>2. NormalBound'
  <2>1. NormalTags' = NormalTags
    BY DEF NormalTags, Moves
  <2> QED
    BY <2>1 DEF UInv, NormalBound
<1> QED
  BY <1>1, <1>2 DEF UInv

\* So does delivering one: a delivered poll was the only one of its VFO.
LEMMA DeliversUInv ==
  ASSUME UInv, NEW j \in Job, Delivers(j), OnePlace', Issued', polls \in [VFO -> BOOLEAN],
         j.id = 0 => stopping, j.id # 0 => Tag(j) \in LiveTags
  PROVE  UInv'
<1>1. PollOnce'
  BY DEF UInv, PollOnce, Delivers
<1>2. PollFlag'
  <2> SUFFICES ASSUME ~stopping, NEW v \in VFO
               PROVE  polls'[v] <=> \E t \in LiveTags' : t.op = "poll" /\ t.vfo = v
    BY DEF PollFlag, Delivers
  <2>1. /\ j.id # 0 /\ Tag(j) \in LiveTags /\ j.vfo \in VFO
        /\ Tag(j).id = j.id /\ Tag(j).op = j.op /\ Tag(j).vfo = j.vfo
    BY DEF Tag, Job
  <2>2. polls[v] <=> \E t \in LiveTags : t.op = "poll" /\ t.vfo = v
    BY DEF UInv, PollFlag
  <2>3. /\ LiveTags' \subseteq LiveTags /\ LiveTags \subseteq LiveTags' \cup {Tag(j)}
        /\ \A t \in LiveTags' : t.id # j.id
    BY <2>1 DEF Delivers
  <2>4. CASE j.op = "poll" /\ j.vfo = v
    <3>1. ~polls'[v]
      BY <2>4 DEF Delivers
    <3>2. ASSUME NEW t \in LiveTags', t.op = "poll", t.vfo = v PROVE FALSE
      <4>1. t = Tag(j)
        BY <2>1, <2>3, <2>4, <3>2 DEF UInv, PollOnce
      <4> QED
        BY <2>1, <2>3, <4>1
    <3> QED
      BY <3>1, <3>2
  <2>5. CASE ~(j.op = "poll" /\ j.vfo = v)
    <3>1. polls'[v] = polls[v]
      BY <2>5 DEF Delivers
    <3>2. (\E t \in LiveTags : t.op = "poll" /\ t.vfo = v)
            <=> (\E t \in LiveTags' : t.op = "poll" /\ t.vfo = v)
      BY <2>1, <2>3, <2>5
    <3> QED
      BY <2>2, <3>1, <3>2
  <2> QED
    BY <2>4, <2>5
<1>3. NormalBound'
  <2>1. NormalTags' \subseteq NormalTags
    BY DEF NormalTags, Delivers
  <2>2. IsFiniteSet(NormalTags) /\ Cardinality(NormalTags) <= QueueLimit
    BY DEF UInv, NormalBound
  <2>3. IsFiniteSet(NormalTags') /\ Cardinality(NormalTags') <= Cardinality(NormalTags)
    BY <2>1, <2>2, FS_Subset
  <2>4. Cardinality(NormalTags) \in Nat /\ Cardinality(NormalTags') \in Nat
    BY <2>2, <2>3, FS_CardinalityType
  <2> QED
    BY <2>2, <2>3, <2>4, ConstantsAssumption DEF NormalBound
<1> QED
  BY <1>1, <1>2, <1>3 DEF UInv

\* A list holds no more submissions than its length.
LEMMA TagsFew ==
  ASSUME NEW q \in Seq(Job)
  PROVE  IsFiniteSet(Tags(q)) /\ Cardinality(Tags(q)) \in Nat /\ Cardinality(Tags(q)) <= Len(q)
<1> DEFINE f == [i \in 1..Len(q) |-> Tag(q[i])]
           R == {f[i] : i \in 1..Len(q)}
<1>1. Len(q) \in Nat
  OBVIOUS
<1>2. IsFiniteSet(1..Len(q)) /\ Cardinality(1..Len(q)) = Len(q)
  BY <1>1, IntervalSize
<1>3. f \in Surjection(1..Len(q), R)
  BY DEF Surjection
<1>4. IsFiniteSet(R) /\ Cardinality(R) <= Len(q)
  BY <1>2, <1>3, FS_Surjection
<1>5. Tags(q) \subseteq R
  BY DEF Tags, Elems
<1> HIDE DEF R
<1>6. IsFiniteSet(Tags(q)) /\ Cardinality(Tags(q)) <= Cardinality(R)
  BY <1>4, <1>5, FS_Subset
<1>7. Cardinality(R) \in Nat /\ Cardinality(Tags(q)) \in Nat
  BY <1>4, <1>6, FS_CardinalityType
<1> QED
  BY <1>1, <1>4, <1>6, <1>7

\* Counting the members of a union.
LEMMA UnionFew ==
  ASSUME NEW A, NEW B, IsFiniteSet(A), IsFiniteSet(B), NEW a \in Nat, NEW b \in Nat,
         Cardinality(A) <= a, Cardinality(B) <= b
  PROVE  IsFiniteSet(A \cup B) /\ Cardinality(A \cup B) <= a + b /\ a + b \in Nat
<1>1. /\ IsFiniteSet(A \cup B)
      /\ Cardinality(A \cup B) = Cardinality(A) + Cardinality(B) - Cardinality(A \cap B)
  BY FS_Union
<1>2. IsFiniteSet(A \cap B)
  <2>1. A \cap B \in SUBSET A
    OBVIOUS
  <2> QED
    BY <2>1, FS_Subset
<1>3. Cardinality(A) \in Nat /\ Cardinality(B) \in Nat /\ Cardinality(A \cap B) \in Nat
  BY <1>2, FS_CardinalityType
<1> QED
  BY <1>1, <1>3

\* No more submissions are underway than are outstanding.
LEMMA LiveFew ==
  ASSUME IInv
  PROVE  IsFiniteSet(LiveTags) /\ Cardinality(LiveTags) <= outstanding
<1> DEFINE A == Tags(queue)
           B == Tags(followers)
           C == Tags(done)
           D == Tags(jobs)
           E == RunTags
           a == Len(queue)
           b == Len(followers)
           c == Len(done)
           d == Len(jobs)
           e == IF running_job = NoJob THEN 0 ELSE 1
<1>1. /\ queue \in Seq(Job) /\ followers \in Seq(Job) /\ done \in Seq(Job) /\ jobs \in Seq(Job)
      /\ outstanding = a + b + c + d + e
  BY DEF IInv, TypeOK, Accounting
<1>2. a \in Nat /\ b \in Nat /\ c \in Nat /\ d \in Nat /\ e \in Nat
  BY <1>1
<1>3. /\ IsFiniteSet(A) /\ Cardinality(A) <= a /\ IsFiniteSet(B) /\ Cardinality(B) <= b
      /\ IsFiniteSet(C) /\ Cardinality(C) <= c /\ IsFiniteSet(D) /\ Cardinality(D) <= d
  BY <1>1, TagsFew
<1>4. IsFiniteSet(E) /\ Cardinality(E) <= e
  <2>1. CASE running_job = NoJob
    BY <2>1, FS_EmptySet DEF RunTags
  <2>2. CASE running_job # NoJob
    <3>1. E = {Tag(running_job)} /\ e = 1
      BY <2>2 DEF RunTags
    <3>2. IsFiniteSet({Tag(running_job)}) /\ Cardinality({Tag(running_job)}) = 1
      BY FS_Singleton
    <3> QED
      BY <3>1, <3>2
  <2> QED
    BY <2>1, <2>2
<1>5. LiveTags = (((A \cup B) \cup C) \cup D) \cup E
  BY DEF LiveTags
<1> HIDE DEF A, B, C, D, E, a, b, c, d, e
<1>6. IsFiniteSet(A \cup B) /\ Cardinality(A \cup B) <= a + b /\ a + b \in Nat
  BY <1>2, <1>3, UnionFew
<1> DEFINE AB == A \cup B
           ab == a + b
<1> HIDE DEF AB, ab
<1>7. IsFiniteSet(AB) /\ Cardinality(AB) <= ab /\ ab \in Nat
  BY <1>6 DEF AB, ab
<1>8. IsFiniteSet(AB \cup C) /\ Cardinality(AB \cup C) <= ab + c /\ ab + c \in Nat
  BY <1>2, <1>3, <1>7, UnionFew
<1> DEFINE ABC == AB \cup C
           abc == ab + c
<1> HIDE DEF ABC, abc
<1>9. IsFiniteSet(ABC) /\ Cardinality(ABC) <= abc /\ abc \in Nat
  BY <1>8 DEF ABC, abc
<1>10. IsFiniteSet(ABC \cup D) /\ Cardinality(ABC \cup D) <= abc + d /\ abc + d \in Nat
  BY <1>2, <1>3, <1>9, UnionFew
<1> DEFINE ABCD == ABC \cup D
           abcd == abc + d
<1> HIDE DEF ABCD, abcd
<1>11. IsFiniteSet(ABCD) /\ Cardinality(ABCD) <= abcd /\ abcd \in Nat
  BY <1>10 DEF ABCD, abcd
<1>12. IsFiniteSet(ABCD \cup E) /\ Cardinality(ABCD \cup E) <= abcd + e
  BY <1>2, <1>4, <1>11, UnionFew
<1>13. LiveTags = ABCD \cup E
  BY <1>5 DEF ABCD, ABC, AB
<1>14. outstanding = abcd + e
  BY <1>1 DEF abcd, abc, ab
<1> QED
  BY <1>12, <1>13, <1>14

\* Taking in a submission that submit() has not refused.
LEMMA TakesInUInv ==
  ASSUME IInv, UInv, NEW n, TakesIn(n), OnePlace', Issued',
         n.vfo \in VFO, ~stopping, ~stopping',
         n.op # "ptt_off" => outstanding < QueueLimit,
         n.op = "poll" => ~polls[n.vfo],
         polls' = IF n.op = "poll" THEN [polls EXCEPT ![n.vfo] = TRUE] ELSE polls
  PROVE  UInv'
<1>1. LiveTags' = LiveTags \cup {n}
  BY DEF TakesIn
<1>2. polls \in [VFO -> BOOLEAN] /\ outstanding \in Nat /\ QueueLimit \in Nat
  BY ConstantsAssumption DEF IInv, TypeOK
<1>3. PollOnce'
  <2>1. n.op = "poll" => ~ \E t \in LiveTags : t.op = "poll" /\ t.vfo = n.vfo
    BY DEF UInv, PollFlag
  <2> QED
    BY <1>1, <2>1 DEF UInv, PollOnce
<1>4. PollFlag'
  <2> SUFFICES ASSUME NEW v \in VFO
               PROVE  polls'[v] <=> \E t \in LiveTags' : t.op = "poll" /\ t.vfo = v
    BY DEF PollFlag
  <2>1. polls[v] <=> \E t \in LiveTags : t.op = "poll" /\ t.vfo = v
    BY DEF UInv, PollFlag
  <2>2. CASE n.op = "poll" /\ n.vfo = v
    BY <1>1, <1>2, <2>2
  <2>3. CASE ~(n.op = "poll" /\ n.vfo = v)
    <3>1. polls'[v] = polls[v]
      BY <1>2, <2>3
    <3>2. (\E t \in LiveTags : t.op = "poll" /\ t.vfo = v)
            <=> (\E t \in LiveTags' : t.op = "poll" /\ t.vfo = v)
      BY <1>1, <2>3
    <3> QED
      BY <2>1, <3>1, <3>2
  <2> QED
    BY <2>2, <2>3
<1>5. NormalBound'
  <2>1. CASE n.op = "ptt_off"
    <3>1. NormalTags' = NormalTags
      BY <1>1, <2>1 DEF NormalTags
    <3> QED
      BY <3>1 DEF UInv, NormalBound
  <2>2. CASE n.op # "ptt_off"
    <3> DEFINE N == NormalTags
    <3>1. N \in SUBSET LiveTags
      BY DEF NormalTags
    <3>2. IsFiniteSet(LiveTags) /\ Cardinality(LiveTags) <= outstanding
      BY LiveFew
    <3>3. IsFiniteSet(N) /\ Cardinality(N) <= Cardinality(LiveTags)
      BY <3>1, <3>2, FS_Subset
    <3>4. Cardinality(N) \in Nat /\ Cardinality(LiveTags) \in Nat
      BY <3>2, <3>3, FS_CardinalityType
    <3>5. Cardinality(N) + 1 <= QueueLimit
      BY <1>2, <2>2, <3>2, <3>3, <3>4
    <3>6. NormalTags' = N \cup {n}
      BY <1>1, <2>2 DEF NormalTags
    <3> HIDE DEF N
    <3>7. /\ IsFiniteSet(N \cup {n})
          /\ Cardinality(N \cup {n}) = IF n \in N THEN Cardinality(N) ELSE Cardinality(N) + 1
      BY <3>3, FS_AddElement
    <3>8. Cardinality(N \cup {n}) <= QueueLimit
      BY <1>2, <3>4, <3>5, <3>7
    <3> QED
      BY <3>6, <3>7, <3>8 DEF NormalBound
  <2> QED
    BY <2>1, <2>2
<1> QED
  BY <1>3, <1>4, <1>5 DEF UInv

\* Given up or sharing an outcome, a job stays the submission it was.
Renamed(q, r) ==
  /\ r \in Seq(Job) /\ Len(r) = Len(q)
  /\ \A k \in 1..Len(q) : r[k].id = q[k].id /\ r[k].op = q[k].op /\ r[k].vfo = q[k].vfo

LEMMA CancelledRenames ==
  ASSUME NEW q \in Seq(Job)
  PROVE  Renamed(q, Cancelled(q))
<1>1. Cancelled(q) \in Seq(Job) /\ Len(Cancelled(q)) = Len(q)
  BY CancelledType
<1> DEFINE c(k) == Outcome(q[k], TRUE, TRUE, q[k].ptt)
<1>2. Cancelled(q) = [k \in 1..Len(q) |-> c(k)]
  BY DEF Cancelled
<1>3. \A k \in 1..Len(q) : c(k).id = q[k].id /\ c(k).op = q[k].op /\ c(k).vfo = q[k].vfo
  BY DEF Outcome
<1> HIDE DEF c
<1>4. \A k \in 1..Len(q) : Cancelled(q)[k] = c(k)
  BY <1>2
<1> QED
  BY <1>1, <1>3, <1>4 DEF Renamed

LEMMA InheritRenames ==
  ASSUME NEW q \in Seq(Job), NEW j \in Job
  PROVE  Renamed(q, Inherit(q, j))
<1>1. Inherit(q, j) \in Seq(Job) /\ Len(Inherit(q, j)) = Len(q)
  BY InheritType
<1> DEFINE c(k) == Outcome(q[k], j.failed, j.cancelled, j.ptt)
<1>2. Inherit(q, j) = [k \in 1..Len(q) |-> c(k)]
  BY DEF Inherit
<1>3. \A k \in 1..Len(q) : c(k).id = q[k].id /\ c(k).op = q[k].op /\ c(k).vfo = q[k].vfo
  BY DEF Outcome
<1> HIDE DEF c
<1>4. \A k \in 1..Len(q) : Inherit(q, j)[k] = c(k)
  BY <1>2
<1> QED
  BY <1>1, <1>3, <1>4 DEF Renamed

\* What a list keeps when its jobs are renamed.
LEMMA RenamedApart ==
  ASSUME NEW q \in Seq(Job), NEW r, Renamed(q, r), Apart(q), \A x \in Elems(q) : x.id # 0
  PROVE  r \in Seq(Job) /\ Apart(r) /\ Tags(r) = Tags(q) /\ \A x \in Elems(r) : x.id # 0
<1>1. Apart(r) /\ Tags(r) = Tags(q)
  BY RetagApart DEF Renamed
<1>2. \A x \in Elems(r) : x.id # 0
  BY DEF Elems, Renamed
<1> QED
  BY <1>1, <1>2 DEF Renamed

\* Queued jobs are given up: they leave the queue and join the results.
LEMMA GiveUp ==
  ASSUME IInv, UInv, NEW S, NEW r, r = Cancelled(Filter(queue, S))
  PROVE  /\ Without(queue, S) \in Seq(Job) /\ done \o r \in Seq(Job)
         /\ Apart(Without(queue, S)) /\ Apart(done \o r)
         /\ Tags(queue) = Tags(r) \cup Tags(Without(queue, S))
         /\ Foreign(Tags(r), Tags(Without(queue, S)))
         /\ Tags(done \o r) = Tags(done) \cup Tags(r)
         /\ Elems(Without(queue, S)) \subseteq Elems(queue)
         /\ \A x \in Elems(done \o r) : x.id = 0 => x \in Elems(done)
<1> DEFINE F == Filter(queue, S)
           W == Without(queue, S)
<1>1. queue \in Seq(Job) /\ done \in Seq(Job)
  BY DEF IInv, TypeOK
<1>2. /\ Apart(queue) /\ Apart(done) /\ Foreign(Tags(queue), Tags(done))
      /\ \A x \in Elems(queue) : x.id # 0
  BY DEF UInv, OnePlace, Scattered, Issued
<1>3. /\ F \in Seq(Job) /\ W \in Seq(Job) /\ Elems(F) \subseteq Elems(queue)
      /\ Elems(W) \subseteq Elems(queue)
  BY <1>1, FilterProperties, FilterElems, WithoutProperties
<1>4. /\ Apart(F) /\ Apart(W) /\ Tags(queue) = Tags(F) \cup Tags(W)
      /\ Foreign(Tags(F), Tags(W))
  BY <1>1, <1>2, SplitApart
<1> HIDE DEF F, W
<1>5. Renamed(F, r)
  BY <1>3, CancelledRenames DEF F
<1>6. r \in Seq(Job) /\ Apart(r) /\ Tags(r) = Tags(F) /\ \A x \in Elems(r) : x.id # 0
  BY <1>2, <1>3, <1>4, <1>5, RenamedApart
<1>7. Foreign(Tags(done), Tags(r))
  BY <1>2, <1>4, <1>6 DEF Foreign
<1>8. Apart(done \o r) /\ Tags(done \o r) = Tags(done) \cup Tags(r)
  BY <1>1, <1>2, <1>6, <1>7, ConcatApart
<1>9. done \o r \in Seq(Job) /\ Elems(done \o r) = Elems(done) \cup Elems(r)
  BY <1>1, <1>6, ConcatElems
<1> QED
  BY <1>3, <1>4, <1>6, <1>8, <1>9 DEF W

\* stop() gives up everything but releases.
LEMMA StopUInv == ASSUME IInv, UInv, Stop PROVE UInv'
<1> DEFINE S == {j \in Elems(queue) : ~IsRelease(j)}
           r == Cancelled(Filter(queue, S))
           W == Without(queue, S)
           d == done \o r
<1>1. /\ queue' = W /\ done' = d /\ stopping' = TRUE
      /\ UNCHANGED <<followers, jobs, running_job, submitted, polls>>
  BY DEF Stop, thread
<1>2. /\ Apart(W) /\ Apart(d)
      /\ Tags(queue) = Tags(r) \cup Tags(W) /\ Foreign(Tags(r), Tags(W))
      /\ Tags(d) = Tags(done) \cup Tags(r)
      /\ Elems(W) \subseteq Elems(queue)
  BY GiveUp
<1> HIDE DEF S, r, W, d
<1>3. LiveTags' = LiveTags
  BY <1>1, <1>2 DEF LiveTags, RunTags
<1>4. OnePlace'
  <2>1. Scattered(Tags(W), Tags(followers), Tags(d), Tags(jobs), RunTags)
    BY <1>2 DEF UInv, OnePlace, Scattered, Foreign
  <2> QED
    BY <1>1, <1>2, <2>1 DEF UInv, OnePlace, RunTags
<1>5. Issued'
  BY <1>1, <1>2, <1>3 DEF UInv, Issued
<1> QED
  BY <1>1, <1>3, <1>4, <1>5, MovesUInv DEF Moves

\* A release takes itself in and gives up the key-downs of its VFO.
LEMMA ReleaseUInv == ASSUME IInv, UInv, NEW v \in VFO, SubmitRelease(v) PROVE UInv'
<1> DEFINE j == NewJob(submitted + 1, "ptt_off", v)
           S == Superseded(v)
           r == Cancelled(Filter(queue, S))
           W == Without(queue, S)
           d == done \o r
           n == Tag(j)
<1>1. /\ done' = d /\ submitted' = submitted + 1 /\ ~stopping
      /\ UNCHANGED <<polls, stopping, jobs, running_job>>
  BY DEF SubmitRelease, Refused, thread
<1>2. \/ queue' = W /\ followers' = <<j>> \o followers
      \/ queue' = <<j>> \o W /\ followers' = followers
  BY DEF SubmitRelease
<1>3. /\ Apart(W) /\ Apart(d) /\ W \in Seq(Job)
      /\ Tags(queue) = Tags(r) \cup Tags(W) /\ Foreign(Tags(r), Tags(W))
      /\ Tags(d) = Tags(done) \cup Tags(r)
      /\ Elems(W) \subseteq Elems(queue)
      /\ \A x \in Elems(d) : x.id = 0 => x \in Elems(done)
  BY GiveUp
<1>4. followers \in Seq(Job) /\ submitted \in Nat
  BY DEF IInv, TypeOK
<1>5. j \in Job /\ j.id = submitted + 1 /\ j.op = "ptt_off" /\ j.vfo = v
  BY <1>4, NewJobType DEF AllOperations
<1>6. n.id = submitted + 1 /\ n.op = "ptt_off" /\ n.vfo = v
  BY <1>5 DEF Tag
<1> HIDE DEF S, r, W, d, j
<1>8. \A t \in LiveTags : t.id # n.id
  BY <1>4, <1>6 DEF UInv, Issued
<1>w. LiveTags = Tags(W) \cup Tags(followers) \cup Tags(d) \cup Tags(jobs) \cup RunTags
  BY <1>3 DEF LiveTags
<1>9. Foreign({n}, LiveTags)
  BY <1>8 DEF Foreign
<1>10. Scattered(Tags(W), Tags(followers), Tags(d), Tags(jobs), RunTags)
  BY <1>3 DEF UInv, OnePlace, Scattered, Foreign
<1>11. Foreign({n}, Tags(W)) /\ Foreign({n}, Tags(followers))
  BY <1>9, <1>w DEF Foreign
<1>12. /\ Apart(<<j>> \o followers) /\ Tags(<<j>> \o followers) = {n} \cup Tags(followers)
       /\ Elems(<<j>> \o followers) = {j} \cup Elems(followers)
  <2>1. j.id # 0 /\ Apart(followers)
    BY <1>4, <1>5 DEF UInv, OnePlace
  <2> QED
    BY <1>4, <1>5, <1>11, <2>1, PushApart
<1>13. /\ Apart(<<j>> \o W) /\ Tags(<<j>> \o W) = {n} \cup Tags(W)
       /\ Elems(<<j>> \o W) = {j} \cup Elems(W)
  <2>1. j.id # 0
    BY <1>4, <1>5
  <2> QED
    BY <1>3, <1>5, <1>11, <2>1, PushApart
<1> HIDE DEF n
<1>14. /\ Apart(queue') /\ Apart(followers')
       /\ \/ Tags(queue') = Tags(W) /\ Tags(followers') = {n} \cup Tags(followers)
          \/ Tags(queue') = {n} \cup Tags(W) /\ Tags(followers') = Tags(followers)
       /\ Elems(queue') \cup Elems(followers') \subseteq Elems(queue) \cup Elems(followers) \cup {j}
  BY <1>2, <1>3, <1>12, <1>13 DEF UInv, OnePlace
<1>15. RunTags' = RunTags
  BY <1>1 DEF RunTags
<1>16. Tags(done') = Tags(d) /\ Tags(jobs') = Tags(jobs) /\ Tags(queue)' = Tags(queue')
       /\ Tags(followers)' = Tags(followers')
  BY <1>1
<1>17. LiveTags' = LiveTags \cup {n}
  BY <1>w, <1>14, <1>15, <1>16 DEF LiveTags
<1>18. Scattered(Tags(queue'), Tags(followers'), Tags(d), Tags(jobs), RunTags)
  BY <1>w, <1>9, <1>10, <1>14 DEF Scattered, Foreign
<1>19. OnePlace'
  BY <1>1, <1>3, <1>14, <1>15, <1>16, <1>18 DEF UInv, OnePlace
<1>20. Issued'
  <2>1. \A t \in LiveTags' : t.id \in Nat /\ t.id <= submitted'
    <3>1. \A t \in LiveTags : t.id \in Nat /\ t.id <= submitted
      BY DEF UInv, Issued
    <3> QED
      BY <1>1, <1>4, <1>6, <1>17, <3>1
  <2>2. \A x \in Elems(queue') \cup Elems(followers') : x.id # 0
    BY <1>4, <1>5, <1>14 DEF UInv, Issued
  <2>3. \A x \in Elems(done') \cup Elems(jobs') : x.id = 0 => stopping'
    BY <1>1, <1>3 DEF UInv, Issued
  <2> QED
    BY <1>1, <2>1, <2>2, <2>3 DEF UInv, Issued
<1>21. TakesIn(n)
  BY <1>1, <1>6, <1>17 DEF TakesIn
<1> QED
  BY <1>1, <1>6, <1>19, <1>20, <1>21, TakesInUInv

\* A control or a poll takes itself in.
LEMMA NormalUInv ==
  ASSUME IInv, QInv, UInv, NEW v \in VFO, NEW op \in Operations, SubmitNormal(op, v)
  PROVE  UInv'
<1> DEFINE j == NewJob(submitted + 1, op, v)
           n == Tag(j)
<1>1. /\ submitted' = submitted + 1 /\ queue' = Enqueue(queue, j) /\ ~stopping
      /\ op # "ptt_off" /\ outstanding < QueueLimit /\ ~(op = "poll" /\ polls[v])
      /\ polls' = IF op = "poll" THEN [polls EXCEPT ![v] = TRUE] ELSE polls
      /\ UNCHANGED <<followers, done, jobs, running_job, stopping>>
  <2>1. outstanding \in Nat /\ QueueLimit \in Nat
    BY ConstantsAssumption DEF IInv, TypeOK
  <2>2. outstanding < QueueLimit
    BY <2>1 DEF SubmitNormal, Refused
  <2> QED
    BY <2>2 DEF SubmitNormal, Refused, thread
<1>2. queue \in Seq(Job) /\ submitted \in Nat
  BY DEF IInv, TypeOK
<1>3. j \in Job /\ j.id = submitted + 1 /\ j.op = op /\ j.vfo = v
  BY <1>2, NewJobType, ConstantsAssumption
<1>4. n.id = submitted + 1 /\ n.op = op /\ n.vfo = v
  BY <1>3 DEF Tag
<1> HIDE DEF j
<1>5. j.id # 0 /\ \A x \in Elems(queue) : x.id < j.id
  <2>1. \A x \in Elems(queue) : x.id \in Nat
    BY <1>2, ElemsInSet DEF Job
  <2> QED
    BY <1>2, <1>3, <2>1 DEF QInv, QueueNumbered
<1>6. /\ Apart(queue') /\ Tags(queue') = Tags(queue) \cup {n}
      /\ Elems(queue') = Elems(queue) \cup {j}
  BY <1>1, <1>2, <1>3, <1>5, EnqueueApart, EnqueueProperties DEF UInv, OnePlace
<1> HIDE DEF n
<1>7. /\ Tags(followers') = Tags(followers) /\ Tags(done') = Tags(done)
      /\ Tags(jobs') = Tags(jobs) /\ RunTags' = RunTags
  BY <1>1 DEF RunTags
<1>8. LiveTags' = LiveTags \cup {n}
  BY <1>6, <1>7 DEF LiveTags
<1>9. \A t \in LiveTags : t.id \in Nat /\ t.id <= submitted /\ t.id # n.id
  BY <1>2, <1>4 DEF UInv, Issued
<1>10. Foreign({n}, LiveTags)
  BY <1>9 DEF Foreign
<1>11. Scattered(Tags(queue'), Tags(followers'), Tags(done'), Tags(jobs'), RunTags')
  BY <1>6, <1>7, <1>10 DEF UInv, OnePlace, Scattered, Foreign, LiveTags
<1>12. OnePlace'
  BY <1>1, <1>6, <1>11 DEF UInv, OnePlace
<1>13. Issued'
  <2>1. \A t \in LiveTags' : t.id \in Nat /\ t.id <= submitted'
    BY <1>1, <1>2, <1>4, <1>8, <1>9
  <2> QED
    BY <1>1, <1>5, <1>6, <2>1 DEF UInv, Issued
<1>14. TakesIn(n)
  BY <1>1, <1>4, <1>8 DEF TakesIn
<1> QED
  BY <1>1, <1>4, <1>12, <1>13, <1>14, TakesInUInv

\* The worker takes the head of the queue.
LEMMA TakeUInv == ASSUME IInv, UInv, Take PROVE UInv'
<1> DEFINE h == Head(queue)
           t == Tail(queue)
<1>1. /\ queue # <<>> /\ running_job' = h /\ queue' = t /\ running_job = NoJob
      /\ UNCHANGED <<done, followers, polls, stopping, jobs, submitted>>
  BY DEF Take, IInv, WorkerState, main
<1>2. queue \in Seq(Job)
  BY DEF IInv, TypeOK
<1>3. h \in Job /\ Elems(queue) = Elems(t) \cup {h}
  BY <1>1, <1>2, TailElems
<1>4. h.id # 0 /\ h # NoJob
  BY <1>3, NoJobNotJob DEF UInv, Issued
<1>5. /\ Apart(t) /\ Tags(queue) = Tags(t) \cup {Tag(h)} /\ Foreign({Tag(h)}, Tags(t))
  BY <1>1, <1>2, <1>4, HeadApart DEF UInv, OnePlace
<1> HIDE DEF h, t
<1>6. RunTags = {} /\ RunTags' = {Tag(h)}
  BY <1>1, <1>4 DEF RunTags
<1>7. LiveTags' = LiveTags
  BY <1>1, <1>5, <1>6 DEF LiveTags
<1>8. Scattered(Tags(t), Tags(followers), Tags(done), Tags(jobs), {Tag(h)})
  BY <1>5 DEF UInv, OnePlace, Scattered, Foreign
<1>9. OnePlace'
  BY <1>1, <1>5, <1>6, <1>8 DEF UInv, OnePlace
<1>10. Issued'
  BY <1>1, <1>3, <1>4, <1>7 DEF UInv, Issued
<1> QED
  BY <1>1, <1>7, <1>9, <1>10, MovesUInv DEF Moves

\* Steps that leave the lists alone, and of the running job at most its outcome.
LEMMA SameUInv ==
  ASSUME UInv, UNCHANGED <<queue, followers, done, jobs, polls, stopping, submitted>>,
         \/ running_job' = running_job
         \/ /\ running_job # NoJob /\ running_job' # NoJob
            /\ running_job'.id = running_job.id /\ running_job'.op = running_job.op
            /\ running_job'.vfo = running_job.vfo
  PROVE  UInv'
<1>1. RunTags' = RunTags
  BY DEF RunTags, Tag
<1>2. LiveTags' = LiveTags
  BY <1>1 DEF LiveTags
<1>3. OnePlace'
  BY <1>1 DEF UInv, OnePlace
<1>4. Issued'
  BY <1>2 DEF UInv, Issued
<1> QED
  BY <1>2, <1>3, <1>4, MovesUInv DEF Moves

\* A finished job and its followers join the results.
LEMMA FinishUInv == ASSUME IInv, UInv, Finish PROVE UInv'
<1> DEFINE j == running_job
           a == Append(done, j)
<1>1. /\ FinishJobLocked(running_job) /\ running_job' = NoJob
      /\ UNCHANGED <<queue, polls, stopping, jobs, submitted>>
  BY DEF Finish, main
<1>2. j \in Job /\ j # NoJob /\ j.id # 0
  BY NoJobNotJob DEF Finish, IInv, TypeOK, WorkerState, UInv, Issued
<1>3. done \in Seq(Job) /\ followers \in Seq(Job)
  BY DEF IInv, TypeOK
<1>4. RunTags = {Tag(j)} /\ RunTags' = {}
  BY <1>1, <1>2 DEF RunTags
<1> HIDE DEF j
<1>5. Foreign(Tags(done), {Tag(j)})
  BY <1>4 DEF UInv, OnePlace, Scattered
<1>6. Apart(a) /\ Tags(a) = Tags(done) \cup {Tag(j)}
  BY <1>2, <1>3, <1>5, AppendApart DEF UInv, OnePlace
<1>7. a \in Seq(Job) /\ Elems(a) = Elems(done) \cup {j}
  BY <1>2, <1>3, AppendElems
<1> HIDE DEF a
<1>8. CASE ~IsParent(running_job)
  <2>1. done' = a /\ followers' = followers
    BY <1>1, <1>8 DEF FinishJobLocked, a, j
  <2>2. LiveTags' = LiveTags
    BY <1>1, <1>4, <1>6, <2>1 DEF LiveTags
  <2>3. Scattered(Tags(queue), Tags(followers), Tags(a), Tags(jobs), {})
    BY <1>4, <1>6 DEF UInv, OnePlace, Scattered, Foreign
  <2>4. OnePlace'
    BY <1>1, <1>4, <1>6, <2>1, <2>3 DEF UInv, OnePlace
  <2>5. Issued'
    BY <1>1, <1>2, <1>7, <2>1, <2>2 DEF UInv, Issued
  <2> QED
    BY <1>1, <2>2, <2>4, <2>5, MovesUInv DEF Moves
<1>9. CASE IsParent(running_job)
  <2> DEFINE S == FollowersOf(j)
             F == Filter(followers, S)
             W == Without(followers, S)
             G == Inherit(F, j)
             d == a \o G
  <2>1. done' = d /\ followers' = W
    BY <1>1, <1>9 DEF FinishJobLocked, a, j
  <2>2. /\ F \in Seq(Job) /\ Elems(F) \subseteq Elems(followers)
        /\ Elems(W) \subseteq Elems(followers)
    BY <1>3, FilterProperties, FilterElems, WithoutProperties
  <2>3. /\ Apart(F) /\ Apart(W) /\ Tags(followers) = Tags(F) \cup Tags(W)
        /\ Foreign(Tags(F), Tags(W))
    BY <1>3, SplitApart DEF UInv, OnePlace
  <2> HIDE DEF S, F, W
  <2>4. Renamed(F, G)
    BY <1>2, <2>2, InheritRenames
  <2> HIDE DEF G
  <2>5. G \in Seq(Job) /\ Apart(G) /\ Tags(G) = Tags(F) /\ \A x \in Elems(G) : x.id # 0
    <3>1. \A x \in Elems(F) : x.id # 0
      BY <2>2 DEF UInv, Issued
    <3> QED
      BY <2>2, <2>3, <2>4, <3>1, RenamedApart
  <2>6. Foreign(Tags(a), Tags(G))
    BY <1>4, <1>6, <2>3, <2>5 DEF UInv, OnePlace, Scattered, Foreign
  <2>7. Apart(d) /\ Tags(d) = Tags(a) \cup Tags(G) /\ Elems(d) = Elems(a) \cup Elems(G)
    <3>1. a \in Seq(Job) /\ G \in Seq(Job) /\ Apart(a) /\ Apart(G)
      BY <1>6, <1>7, <2>5
    <3>2. Apart(d) /\ Tags(d) = Tags(a) \cup Tags(G)
      BY <2>6, <3>1, ConcatApart
    <3>3. Elems(d) = Elems(a) \cup Elems(G)
      BY <3>1, ConcatElems
    <3> QED
      BY <3>2, <3>3
  <2> HIDE DEF d
  <2>8. LiveTags' = LiveTags
    BY <1>1, <1>4, <1>6, <2>1, <2>3, <2>5, <2>7 DEF LiveTags
  <2>9. Scattered(Tags(queue), Tags(W), Tags(d), Tags(jobs), {})
    BY <1>4, <1>6, <2>3, <2>5, <2>7 DEF UInv, OnePlace, Scattered, Foreign
  <2>10. OnePlace'
    BY <1>1, <1>4, <2>1, <2>3, <2>7, <2>9 DEF UInv, OnePlace
  <2>11. Issued'
    BY <1>1, <1>2, <1>7, <2>1, <2>2, <2>5, <2>7, <2>8 DEF UInv, Issued
  <2> QED
    BY <1>1, <2>8, <2>10, <2>11, MovesUInv DEF Moves
<1> QED
  BY <1>8, <1>9

\* The result of a shutdown release is no submission.
LEMMA FinalUInv == ASSUME IInv, QInv, UInv, FinalRelease PROVE UInv'
<1>1. /\ stopping /\ UNCHANGED <<queue, followers, polls, stopping, running_job, jobs, submitted>>
  BY DEF FinalRelease, QInv, Leaving, main
<1>2. CASE done' = done
  BY <1>1, <1>2, SameUInv
<1>3. CASE done' # done
  <2> DEFINE j == NewJob(0, "poll", final)
  <2>1. done' = Append(done, j) /\ final \in VFO
    BY <1>3, ConstantsAssumption DEF FinalRelease, IInv, TypeOK, VFO
  <2>2. j \in Job /\ j.id = 0
    BY <2>1, NewJobType DEF AllOperations
  <2> HIDE DEF j
  <2>3. done \in Seq(Job)
    BY DEF IInv, TypeOK
  <2>4. Apart(done') /\ Tags(done') = Tags(done)
    BY <2>1, <2>2, <2>3, AppendApart DEF UInv, OnePlace
  <2>5. RunTags' = RunTags
    BY <1>1 DEF RunTags
  <2>6. LiveTags' = LiveTags
    BY <1>1, <2>4, <2>5 DEF LiveTags
  <2>7. OnePlace'
    BY <1>1, <2>4, <2>5 DEF UInv, OnePlace
  <2>8. Issued'
    BY <1>1, <2>6 DEF UInv, Issued
  <2> QED
    BY <1>1, <2>6, <2>7, <2>8, MovesUInv DEF Moves
<1> QED
  BY <1>2, <1>3

\* drain() detaches the results.
LEMMA DetachUInv == ASSUME UInv, DrainTake PROVE UInv'
<1>1. /\ jobs = <<>> /\ jobs' = done /\ done' = <<>>
      /\ UNCHANGED <<queue, followers, polls, stopping, running_job, submitted>>
  BY DEF DrainTake, thread
<1>2. Tags(<<>>) = {} /\ Apart(<<>>) /\ Elems(<<>>) = {}
  BY DEF Tags, Apart, Elems
<1>3. RunTags' = RunTags
  BY <1>1 DEF RunTags
<1>4. LiveTags' = LiveTags
  BY <1>1, <1>2, <1>3 DEF LiveTags
<1>5. Scattered(Tags(queue), Tags(followers), {}, Tags(done), RunTags)
  BY DEF UInv, OnePlace, Scattered, Foreign
<1>6. OnePlace'
  BY <1>1, <1>2, <1>3, <1>5 DEF UInv, OnePlace
<1>7. Issued'
  BY <1>1, <1>2, <1>4 DEF UInv, Issued
<1> QED
  BY <1>1, <1>4, <1>6, <1>7, MovesUInv DEF Moves

\* drain() delivers one result.
LEMMA DeliverUInv == ASSUME IInv, UInv, DrainJob PROVE UInv'
<1> DEFINE h == Head(jobs)
           t == Tail(jobs)
<1>1. /\ jobs # <<>> /\ jobs' = t
      /\ polls' = IF h.op = "poll" THEN [polls EXCEPT ![h.vfo] = FALSE] ELSE polls
      /\ UNCHANGED <<queue, done, followers, stopping, running_job, submitted>>
  BY DEF DrainJob, Delivered, Outcome, thread
<1>2. jobs \in Seq(Job) /\ polls \in [VFO -> BOOLEAN]
  BY DEF IInv, TypeOK
<1>3. h \in Job /\ Elems(jobs) = Elems(t) \cup {h}
  BY <1>1, <1>2, TailElems
<1>4. /\ Apart(t)
      /\ h.id # 0 => Tags(jobs) = Tags(t) \cup {Tag(h)} /\ Foreign({Tag(h)}, Tags(t))
      /\ h.id = 0 => Tags(jobs) = Tags(t)
  BY <1>1, <1>2, HeadApart DEF UInv, OnePlace
<1> HIDE DEF h, t
<1>5. RunTags' = RunTags
  BY <1>1 DEF RunTags
<1>6. /\ LiveTags' \subseteq LiveTags
      /\ LiveTags \subseteq LiveTags' \cup {Tag(h)}
      /\ h.id = 0 => LiveTags' = LiveTags
      /\ h.id # 0 => Tag(h) \in LiveTags
  BY <1>1, <1>4, <1>5 DEF LiveTags
<1>7. ASSUME h.id # 0, NEW x \in LiveTags' PROVE x.id # h.id
  <2>1. Tag(h).id = h.id
    BY DEF Tag
  <2>2. Tag(h) \in Tags(jobs) /\ Foreign({Tag(h)}, Tags(t))
    BY <1>4, <1>7
  <2>3. x \in Tags(queue) \/ x \in Tags(followers) \/ x \in Tags(done) \/ x \in Tags(t) \/ x \in RunTags
    BY <1>1, <1>5 DEF LiveTags
  <2> QED
    BY <2>1, <2>2, <2>3 DEF UInv, OnePlace, Scattered, Foreign
<1>8. Scattered(Tags(queue), Tags(followers), Tags(done), Tags(t), RunTags)
  BY <1>4 DEF UInv, OnePlace, Scattered, Foreign
<1>9. OnePlace'
  BY <1>1, <1>4, <1>5, <1>8 DEF UInv, OnePlace
<1>10. Issued'
  BY <1>1, <1>3, <1>6 DEF UInv, Issued
<1>11. Delivers(h)
  BY <1>1, <1>6, <1>7 DEF Delivers
<1>12. h.id = 0 => stopping
  BY <1>3 DEF UInv, Issued
<1> QED
  BY <1>2, <1>3, <1>6, <1>9, <1>10, <1>11, <1>12, DeliversUInv

\* Every step keeps every submission in one place.
LEMMA NextUInv == IInv /\ QInv /\ UInv /\ [Next]_vars => UInv'
<1> SUFFICES ASSUME IInv, QInv, UInv, [Next]_vars PROVE UInv'
  OBVIOUS
<1>a. running_job \in Job \cup {NoJob} /\ WorkerState /\ keyed \in [VFO -> BOOLEAN]
  BY DEF IInv, TypeOK
<1>1. ASSUME NEW v \in VFO, NEW op \in Operations, SubmitNormal(op, v) PROVE UInv'
  BY <1>1, NormalUInv
<1>2. ASSUME NEW v \in VFO, SubmitRelease(v) PROVE UInv'
  BY <1>2, ReleaseUInv
<1>3. CASE Take
  BY <1>3, TakeUInv
<1>4. CASE CheckHalted \/ Call
  <2> DEFINE same(r) == r.id = running_job.id /\ r.op = running_job.op /\ r.vfo = running_job.vfo
  <2>1. /\ UNCHANGED <<queue, followers, done, jobs, polls, stopping, submitted>>
        /\ running_job \in Job
    BY <1>4, <1>a DEF CheckHalted, Call, locked, main, WorkerState
  <2>2. \/ running_job' = running_job
        \/ \E f, c, p : running_job' = Outcome(running_job, f, c, p)
    <3>1. CASE CheckHalted
      BY <3>1 DEF CheckHalted
    <3>2. CASE Call
      BY <3>2 DEF Call
    <3> QED
      BY <1>4, <3>1, <3>2
  <2>3. running_job.id \in Nat /\ NoJob.id = -1
    BY <2>1 DEF Job, NoJob
  <2>4. running_job' = running_job \/ same(running_job')
    BY <2>2 DEF Outcome
  <2>5. running_job' = running_job \/ (running_job # NoJob /\ running_job' # NoJob /\ same(running_job'))
    BY <2>3, <2>4
  <2> QED
    BY <2>1, <2>5, SameUInv
<1>5. CASE Finish
  BY <1>5, FinishUInv
<1>6. CASE FinalRelease
  BY <1>6, FinalUInv
<1>7. CASE Stop
  BY <1>7, StopUInv
<1>8. CASE DrainTake
  BY <1>8, DetachUInv
<1>9. CASE DrainJob
  BY <1>9, DeliverUInv
<1>10. CASE LeaveLoop \/ WorkerExit \/ Free \/ SetHalted \/ Freed \/ UNCHANGED vars
  <2>1. /\ UNCHANGED <<queue, followers, done, jobs, polls, stopping, submitted>>
        /\ running_job' = running_job
    BY <1>10 DEF LeaveLoop, WorkerExit, Free, SetHalted, Freed, vars, main, locked, thread
  <2> QED
    BY <2>1, SameUInv
<1> QED
  BY <1>1, <1>2, <1>3, <1>4, <1>5, <1>6, <1>7, <1>8, <1>9, <1>10
     DEF Next, Submit, WorkerStep, DrainStep

\* A submission is one job, wherever it is.
LEMMA LiveUnique ==
  ASSUME IInv, UInv, NEW x \in Live, NEW y \in Live, x.id = y.id, x.id # 0
  PROVE  x = y
<1> DEFINE A == Elems(queue)
           B == Elems(followers)
           C == Elems(done)
           D == Elems(jobs)
           E == {j \in {running_job} : j # NoJob}
<1>1. /\ x \in A \/ x \in B \/ x \in C \/ x \in D \/ x \in E
      /\ y \in A \/ y \in B \/ y \in C \/ y \in D \/ y \in E
  BY DEF Live
<1>2. \A j \in {x, y} :
        /\ j \in A => Tag(j) \in Tags(queue)
        /\ j \in B => Tag(j) \in Tags(followers)
        /\ j \in C => Tag(j) \in Tags(done)
        /\ j \in D => Tag(j) \in Tags(jobs)
        /\ j \in E => Tag(j) \in RunTags
  BY DEF Tags, RunTags
<1>3. Tag(x).id = Tag(y).id
  BY DEF Tag
<1>4. /\ x \in A <=> y \in A
      /\ x \in B <=> y \in B
      /\ x \in C <=> y \in C
      /\ x \in D <=> y \in D
      /\ x \in E <=> y \in E
  <2> HIDE DEF A, B, C, D, E
  <2> QED
    BY <1>1, <1>2, <1>3 DEF UInv, OnePlace, Scattered, Foreign
<1>5. /\ queue \in Seq(Job) /\ followers \in Seq(Job) /\ done \in Seq(Job) /\ jobs \in Seq(Job)
      /\ Apart(queue) /\ Apart(followers) /\ Apart(done) /\ Apart(jobs)
  BY DEF IInv, TypeOK, UInv, OnePlace
<1>6. CASE x \in A
  BY <1>4, <1>5, <1>6, ApartUnique
<1>7. CASE x \in B
  BY <1>4, <1>5, <1>7, ApartUnique
<1>8. CASE x \in C
  BY <1>4, <1>5, <1>8, ApartUnique
<1>9. CASE x \in D
  BY <1>4, <1>5, <1>9, ApartUnique
<1>10. CASE x \in E
  BY <1>4, <1>10
<1> QED
  BY <1>1, <1>6, <1>7, <1>8, <1>9, <1>10

\* The jobs underway and their tags.
LEMMA LiveHasTags ==
  /\ \A j \in Live : j.id # 0 => Tag(j) \in LiveTags
  /\ \A t \in LiveTags : UInv => \E j \in Live : j.id # 0 /\ t = Tag(j)
<1>1. \A j \in Live : j.id # 0 => Tag(j) \in LiveTags
  BY DEF Live, LiveTags, Tags, RunTags
<1>2. ASSUME NEW t \in LiveTags, UInv PROVE \E j \in Live : j.id # 0 /\ t = Tag(j)
  <2>1. CASE t \in RunTags
    <3>1. running_job # NoJob /\ t = Tag(running_job) /\ running_job \in Live
      BY <2>1 DEF RunTags, Live
    <3> QED
      BY <1>2, <3>1 DEF UInv, Issued
  <2>2. CASE t \notin RunTags
    BY <2>2 DEF LiveTags, Tags, Live
  <2> QED
    BY <2>1, <2>2
<1> QED
  BY <1>1, <1>2

\* submit(), drain() and the worker keep the queue to its bound and its order
\* and polls to one per VFO, over every mix of submissions, cancellations,
\* shared releases, deferred replays and shutdown.
THEOREM WorkerQueueDiscipline == Spec => []QueueDiscipline
<1>1. Init => IInv /\ QInv /\ UInv
  BY InitIInv, InitQInv, InitUInv
<1>2. (IInv /\ QInv /\ UInv) /\ [Next]_vars => (IInv /\ QInv /\ UInv)'
  BY NextIInv, NextQInv, NextUInv
<1>3. IInv /\ UInv => QueueBound
  <2> SUFFICES ASSUME IInv, UInv
               PROVE  Cardinality({j \in Live : ~IsRelease(j) /\ j.id # 0}) <= QueueLimit
    BY DEF QueueBound, IInv, Bounded
  <2> DEFINE N == {j \in Live : ~IsRelease(j) /\ j.id # 0}
             f == [j \in N |-> Tag(j)]
  <2>1. \A j \in N : Tag(j) \in NormalTags
    BY LiveHasTags DEF NormalTags, IsRelease, Tag
  <2>2. \A x, y \in N : Tag(x) = Tag(y) => x = y
    <3>1. ASSUME NEW x \in N, NEW y \in N, Tag(x) = Tag(y) PROVE x = y
      <4>1. x.id = y.id
        BY <3>1 DEF Tag
      <4> QED
        BY <4>1, LiveUnique
    <3> QED
      BY <3>1
  <2> HIDE DEF N
  <2>3. f \in Injection(N, NormalTags)
    BY <2>1, <2>2 DEF Injection, IsInjective
  <2>4. IsFiniteSet(NormalTags) /\ Cardinality(NormalTags) <= QueueLimit
    BY DEF UInv, NormalBound
  <2>5. IsFiniteSet(N) /\ Cardinality(N) <= Cardinality(NormalTags)
    BY <2>3, <2>4, FS_Injection
  <2>6. Cardinality(N) \in Nat /\ Cardinality(NormalTags) \in Nat
    BY <2>4, <2>5, FS_CardinalityType
  <2>7. Cardinality(N) <= QueueLimit
    BY <2>4, <2>5, <2>6, ConstantsAssumption
  <2> QED
    BY <2>7 DEF N
<1>4. QInv => QueueOrder
  BY DEF QInv, Ordered, Before, QueueOrder
<1>5. IInv /\ UInv => OnePoll
  <2> SUFFICES ASSUME IInv, UInv, NEW v \in VFO
               PROVE  LET P == {j \in Live : j.op = "poll" /\ j.vfo = v /\ j.id # 0}
                      IN  Cardinality(P) <= 1 /\ (~stopping => (polls[v] <=> P # {}))
    BY DEF OnePoll
  <2> DEFINE P == {j \in Live : j.op = "poll" /\ j.vfo = v /\ j.id # 0}
  <2>1. \A x, y \in P : x = y
    <3>1. ASSUME NEW x \in P, NEW y \in P PROVE x = y
      <4>1. Tag(x) \in LiveTags /\ Tag(y) \in LiveTags
        BY LiveHasTags
      <4>2. Tag(x) = Tag(y)
        BY <4>1 DEF UInv, PollOnce, Tag
      <4>3. x.id = y.id
        BY <4>2 DEF Tag
      <4> QED
        BY <4>3, LiveUnique
    <3> QED
      BY <3>1
  <2>2. (\E t \in LiveTags : t.op = "poll" /\ t.vfo = v) <=> P # {}
    <3>1. ASSUME NEW t \in LiveTags, t.op = "poll", t.vfo = v PROVE P # {}
      BY <3>1, LiveHasTags DEF Tag
    <3>2. ASSUME NEW x \in P PROVE \E t \in LiveTags : t.op = "poll" /\ t.vfo = v
      <4>1. Tag(x) \in LiveTags
        BY LiveHasTags
      <4> QED
        BY <4>1 DEF Tag
    <3> QED
      BY <3>1, <3>2
  <2> HIDE DEF P
  <2>3. Cardinality(P) <= 1
    <3>1. CASE P = {}
      BY <3>1, FS_EmptySet
    <3>2. CASE P # {}
      <4>1. PICK x : P = {x}
        BY <2>1, <3>2
      <4>2. Cardinality({x}) = 1
        BY FS_Singleton
      <4> QED
        BY <4>1, <4>2
    <3> QED
      BY <3>1, <3>2
  <2>4. ~stopping => (polls[v] <=> P # {})
    BY <2>2 DEF UInv, PollFlag
  <2> QED
    BY <2>3, <2>4 DEF P
<1>6. IInv /\ QInv /\ UInv => QueueDiscipline
  BY <1>3, <1>4, <1>5 DEF QueueDiscipline
<1> QED
  BY <1>1, <1>2, <1>6, PTL DEF Spec
=============================================================================
