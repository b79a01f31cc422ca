--------------------------- MODULE BackendWorker ---------------------------
(***************************************************************************)
(* The per-rig hardware worker of rrserver (backend.worker.c).  The server *)
(* thread submits jobs, drains their results and stops the worker; the     *)
(* worker thread executes one job at a time against the radio.  They share *)
(* the lists below under one mutex.  Every action is one critical section  *)
(* of that mutex or one stretch of thread-private work between two.        *)
(***************************************************************************)
EXTENDS Integers, Lists

CONSTANTS
  QueueLimit,  \* BACKEND_QUEUE_LIMIT
  MaxVfos,     \* MAX_VFOS
  Operations,  \* the operations the server submits, a subset of AllOperations
  MaxJobs      \* bound: submissions accepted in one behaviour

\* "select" stands for every operation that writes to the rig (FREQ, MODE,
\* SELECT, MENU_WRITE, ...); "ptt_on" and "ptt_off" are RR_BACKEND_PTT with
\* value 1 and 0.
AllOperations == {"poll", "menu_read", "select", "ptt_on", "ptt_off"}

ASSUME ConstantsAssumption ==
  /\ QueueLimit \in Nat
  /\ MaxVfos \in Nat
  /\ Operations \subseteq AllOperations
  /\ MaxJobs \in Nat

VFO == 0..(MaxVfos - 1)

\* A job.  id is the number of the submission; the release results that the
\* worker makes for itself at shutdown all have id 0.
Job == [id : Nat, op : AllOperations, vfo : VFO,
        failed : BOOLEAN, cancelled : BOOLEAN, ptt : BOOLEAN]

NoJob == [id |-> -1]

NewJob(id, op, v) == [id |-> id, op |-> op, vfo |-> v,
                      failed |-> FALSE, cancelled |-> FALSE, ptt |-> FALSE]

\* A job with the outcome fields of its result filled in.
Outcome(j, failed, cancelled, ptt) ==
  [id |-> j.id, op |-> j.op, vfo |-> j.vfo,
   failed |-> failed, cancelled |-> cancelled, ptt |-> ptt]

VARIABLES
  \* Under the mutex.
  queue,        \* head .. tail
  done,         \* done_head .. done_tail
  off_jobs,     \* VFO -> id of the release that later releases share, or 0
  followers,    \* the followers of all releases in off_jobs, newest first
  polls,        \* VFO -> a poll is outstanding
  outstanding,
  stopping,
  \* The worker thread.
  worker,       \* "idle", "check", "call", "finish", "final", "exited"
  running_job,
  keyed,        \* VFO -> the transmit state ptt_get last returned
  final,        \* the loop index of the shutdown releases
  \* The server thread.
  server,       \* "run", "join", "freed"
  jobs,         \* the list drain() detached and is replaying
  cache,        \* VFO -> cache[].ptt
  submitted,    \* number of accepted submissions
  \* The rig.
  halted,       \* the atomic emergency-stop flag of rig.properties.c
  tx,           \* VFO -> the transmitter is on the air
  \* History, read by properties only.
  last_off,     \* VFO -> id of the newest accepted release
  keyed_by,     \* VFO -> id of the key-down that last reached the radio
  off_failed,   \* VFO -> the last release sent to the radio reported failure
  last_call     \* VFO -> the last PTT command sent to the radio

locked == <<queue, done, off_jobs, followers, polls, outstanding, stopping>>
thread == <<worker, running_job, keyed, final>>
main   == <<server, jobs, cache, submitted>>
radio  == <<halted, tx>>
history == <<last_off, keyed_by, off_failed, last_call>>
vars == <<locked, thread, main, radio, history>>

IsRelease(j) == j.op = "ptt_off"
IsKeyDown(j) == j.op = "ptt_on"
ReadOnly == {"poll", "menu_read"}

----------------------------------------------------------------------------
(* Start *)

\* rr_backend_worker_start: a zeroed worker and its thread.
Init ==
  /\ queue = <<>> /\ done = <<>> /\ followers = <<>> /\ jobs = <<>>
  /\ off_jobs = [v \in VFO |-> 0]
  /\ polls = [v \in VFO |-> FALSE]
  /\ outstanding = 0 /\ stopping = FALSE
  /\ worker = "idle" /\ running_job = NoJob /\ final = 0
  /\ keyed = [v \in VFO |-> FALSE]
  /\ server = "run" /\ submitted = 0
  /\ cache = [v \in VFO |-> FALSE]
  /\ halted = FALSE
  /\ tx = [v \in VFO |-> FALSE]
  /\ last_off = [v \in VFO |-> 0] /\ keyed_by = [v \in VFO |-> 0]
  /\ off_failed = [v \in VFO |-> FALSE]
  /\ last_call = [v \in VFO |-> "none"]

----------------------------------------------------------------------------
(* Finishing a job: off_jobs is cleared, the job and then its followers,   *)
(* which inherit its outcome, join the done list.                          *)

FollowersOf(j) == {f \in Elems(followers) : f.vfo = j.vfo}

IsParent(j) == IsRelease(j) /\ off_jobs[j.vfo] = j.id

Inherit(q, j) == [k \in 1..Len(q) |-> Outcome(q[k], j.failed, j.cancelled, j.ptt)]

\* Mutant: the followers of a finished release are forgotten.
FinishForgetsFollowers(j) ==
  /\ done' = Append(done, j)
  /\ off_jobs' = [off_jobs EXCEPT ![j.vfo] = 0]
  /\ UNCHANGED followers

FinishJobLocked(j) ==
  IF IsParent(j)
    THEN /\ off_jobs' = [off_jobs EXCEPT ![j.vfo] = 0]
         /\ done' = Append(done, j) \o Inherit(Filter(followers, FollowersOf(j)), j)
         /\ followers' = Without(followers, FollowersOf(j))
    ELSE /\ done' = Append(done, j)
         /\ UNCHANGED <<off_jobs, followers>>

\* Queued jobs that are given up: they complete as failed and cancelled.
Cancelled(q) == [k \in 1..Len(q) |-> Outcome(q[k], TRUE, TRUE, q[k].ptt)]

----------------------------------------------------------------------------
(* rr_backend_worker_submit *)

\* The early returns that report failure.
Refused(op) ==
  \/ halted /\ op \notin ReadOnly \cup {"ptt_off"}
  \/ stopping
  \/ outstanding >= QueueLimit + MaxVfos
  \/ op # "ptt_off" /\ outstanding >= QueueLimit

\* Mutant: a release leaves queued key-downs alone.
SupersededNone(v) == {}

\* The queued key-downs that a release of v supersedes.
Superseded(v) == {j \in Elems(queue) : IsKeyDown(j) /\ j.vfo = v}

\* Mutant: controls are appended behind the polls.
BeforePollsAtTail(q) == Len(q)

\* The number of jobs in front of the first poll.
BeforePolls(q) ==
  LET P == {i \in 1..Len(q) : q[i].op = "poll"}
  IN  IF P = {} THEN Len(q) ELSE Nth(P, 1) - 1

\* A control goes in front of the first poll, a poll to the tail.
Enqueue(q, j) ==
  LET n == IF j.op = "poll" THEN Len(q) ELSE BeforePolls(q)
  IN  SubSeq(q, 1, n) \o <<j>> \o SubSeq(q, n + 1, Len(q))

CanSubmit == server = "run" /\ submitted < MaxJobs

\* A poll of a VFO that already has one outstanding is dropped and reported
\* as accepted, so it changes nothing; the guard keeps it out.
SubmitNormal(op, v) ==
  /\ CanSubmit
  /\ op \in Operations \ {"ptt_off"}
  /\ ~Refused(op)
  /\ ~(op = "poll" /\ polls[v])
  /\ submitted' = submitted + 1
  /\ queue' = Enqueue(queue, NewJob(submitted + 1, op, v))
  /\ outstanding' = outstanding + 1
  /\ polls' = IF op = "poll" THEN [polls EXCEPT ![v] = TRUE] ELSE polls
  /\ UNCHANGED <<done, off_jobs, followers, stopping, thread, server, jobs,
                 cache, radio, history>>

\* Mutant: a release that shares another returns before it has cancelled the
\* queued key-downs.
SubmitReleaseSharesFirst(v) ==
  LET j == NewJob(submitted + 1, "ptt_off", v)
      cut == IF off_jobs[v] # 0 THEN {} ELSE Superseded(v)
  IN  /\ CanSubmit
      /\ "ptt_off" \in Operations
      /\ ~Refused("ptt_off")
      /\ submitted' = submitted + 1
      /\ done' = done \o Cancelled(Filter(queue, cut))
      /\ outstanding' = outstanding + 1
      /\ IF off_jobs[v] # 0
           THEN /\ followers' = <<j>> \o followers
                /\ UNCHANGED <<queue, off_jobs>>
           ELSE /\ queue' = <<j>> \o Without(queue, cut)
                /\ off_jobs' = [off_jobs EXCEPT ![v] = j.id]
                /\ UNCHANGED followers
      /\ last_off' = [last_off EXCEPT ![v] = j.id]
      /\ UNCHANGED <<polls, stopping, thread, server, jobs, cache, radio,
                     keyed_by, off_failed, last_call>>

\* Mutant: a release that shares another is not counted.
SubmitReleaseUncounted(v) ==
  LET j == NewJob(submitted + 1, "ptt_off", v)
  IN  /\ CanSubmit
      /\ "ptt_off" \in Operations
      /\ ~Refused("ptt_off")
      /\ submitted' = submitted + 1
      /\ done' = done \o Cancelled(Filter(queue, Superseded(v)))
      /\ IF off_jobs[v] # 0
           THEN /\ queue' = Without(queue, Superseded(v))
                /\ followers' = <<j>> \o followers
                /\ UNCHANGED <<off_jobs, outstanding>>
           ELSE /\ queue' = <<j>> \o Without(queue, Superseded(v))
                /\ off_jobs' = [off_jobs EXCEPT ![v] = j.id]
                /\ outstanding' = outstanding + 1
                /\ UNCHANGED followers
      /\ last_off' = [last_off EXCEPT ![v] = j.id]
      /\ UNCHANGED <<polls, stopping, thread, server, jobs, cache, radio,
                     keyed_by, off_failed, last_call>>

\* A release cancels the queued key-downs of its VFO, then either shares the
\* release that is already outstanding or goes to the head of the queue.
SubmitRelease(v) ==
  LET j == NewJob(submitted + 1, "ptt_off", v)
      rest == Without(queue, Superseded(v))
  IN  /\ CanSubmit
      /\ "ptt_off" \in Operations
      /\ ~Refused("ptt_off")
      /\ submitted' = submitted + 1
      /\ done' = done \o Cancelled(Filter(queue, Superseded(v)))
      /\ outstanding' = outstanding + 1
      /\ IF off_jobs[v] # 0
           THEN /\ queue' = rest
                /\ followers' = <<j>> \o followers
                /\ UNCHANGED off_jobs
           ELSE /\ queue' = <<j>> \o rest
                /\ off_jobs' = [off_jobs EXCEPT ![v] = j.id]
                /\ UNCHANGED followers
      /\ last_off' = [last_off EXCEPT ![v] = j.id]
      /\ UNCHANGED <<polls, stopping, thread, server, jobs, cache, radio,
                     keyed_by, off_failed, last_call>>

----------------------------------------------------------------------------
(* worker_main *)

\* The condition wait ends with a job at the head.
Take ==
  /\ worker = "idle" /\ queue # <<>>
  /\ running_job' = Head(queue)
  /\ queue' = Tail(queue)
  /\ worker' = "check"
  /\ UNCHANGED <<done, off_jobs, followers, polls, outstanding, stopping,
                 keyed, final, main, radio, history>>

\* execute, first half: the emergency stop refuses everything but reads and
\* releases.  The flag may change between this test and the hardware call.
CheckHalted ==
  /\ worker = "check"
  /\ IF halted /\ running_job.op \notin ReadOnly \cup {"ptt_off"}
       THEN /\ worker' = "finish"
            /\ running_job' = Outcome(running_job, TRUE, FALSE, keyed[running_job.vfo])
       ELSE worker' = "call" /\ UNCHANGED running_job
  /\ UNCHANGED <<locked, keyed, final, main, radio, history>>

\* What a PTT command does to the radio: an acknowledged one takes effect; one
\* that reports failure may have taken effect or not, and the backend then
\* keeps the transmit state it had (hl_ptt_set, ptt_set of backend.yaesu.c).
PttSet(v, on, failed) ==
  /\ tx' = [tx EXCEPT ![v] = on] \/ (failed /\ UNCHANGED tx)
  /\ keyed' = [keyed EXCEPT ![v] = IF failed THEN @ ELSE on]
  /\ last_call' = [last_call EXCEPT ![v] = IF on THEN "on" ELSE "off"]

\* execute, second half: the backend call, the state poll that follows every
\* other operation than PTT (it may read the transmit state back), ptt_get.
Call ==
  /\ worker = "call"
  /\ worker' = "finish"
  /\ \E failed \in BOOLEAN :
       LET j == running_job
       IN  /\ IF j.op \in {"ptt_on", "ptt_off"}
                THEN PttSet(j.vfo, j.op = "ptt_on", failed)
                ELSE /\ \/ UNCHANGED keyed
                        \/ ~failed /\ keyed' = [keyed EXCEPT ![j.vfo] = tx[j.vfo]]
                     /\ UNCHANGED <<tx, last_call>>
           /\ running_job' = Outcome(j, failed, FALSE, keyed'[j.vfo])
           /\ keyed_by' = IF IsKeyDown(j) THEN [keyed_by EXCEPT ![j.vfo] = j.id]
                                          ELSE keyed_by
           /\ off_failed' = IF IsRelease(j) THEN [off_failed EXCEPT ![j.vfo] = failed]
                                            ELSE off_failed
  /\ UNCHANGED <<locked, final, main, halted, last_off>>

Finish ==
  /\ worker = "finish"
  /\ FinishJobLocked(running_job)
  /\ worker' = "idle"
  /\ running_job' = NoJob
  /\ UNCHANGED <<queue, polls, outstanding, stopping, keyed, final, main,
                 radio, history>>

\* Mutant: the loop ends as soon as stop() was called, with releases queued.
LeaveLoopEarly ==
  /\ worker = "idle" /\ stopping
  /\ worker' = "final"
  /\ UNCHANGED <<locked, running_job, keyed, final, main, radio, history>>

\* The loop ends when stop() was called and no release is left.
LeaveLoop ==
  /\ worker = "idle" /\ stopping /\ queue = <<>>
  /\ worker' = "final"
  /\ UNCHANGED <<locked, running_job, keyed, final, main, radio, history>>

\* The last release of every VFO that is still tracked as keyed.  Its result
\* is a zeroed job, whose operation reads as a poll.
FinalRelease ==
  /\ worker = "final" /\ final < MaxVfos
  /\ final' = final + 1
  /\ IF keyed[final]
       THEN /\ \E failed \in BOOLEAN :
                 /\ tx' = [tx EXCEPT ![final] = FALSE] \/ (failed /\ UNCHANGED tx)
                 /\ off_failed' = [off_failed EXCEPT ![final] = failed]
            /\ last_call' = [last_call EXCEPT ![final] = "off"]
            /\ done' = Append(done, NewJob(0, "poll", final))
            /\ outstanding' = outstanding + 1
       ELSE UNCHANGED <<tx, off_failed, last_call, done, outstanding>>
  /\ UNCHANGED <<queue, off_jobs, followers, polls, stopping, worker,
                 running_job, keyed, main, halted, last_off, keyed_by>>

WorkerExit ==
  /\ worker = "final" /\ final = MaxVfos
  /\ worker' = "exited"
  /\ UNCHANGED <<locked, running_job, keyed, final, main, radio, history>>

----------------------------------------------------------------------------
(* The server thread *)

\* rr_backend_worker_drain, first half: detach the done list.  drain runs in
\* every cycle of the main loop and once more after the worker was joined.
DrainTake ==
  /\ server = "run" \/ (server = "join" /\ worker = "exited")
  /\ jobs = <<>> /\ done # <<>>
  /\ jobs' = done
  /\ done' = <<>>
  /\ UNCHANGED <<queue, off_jobs, followers, polls, outstanding, stopping,
                 thread, server, cache, submitted, radio, history>>

\* drain on a stopping worker delivers only releases as they are.
Delivered(j) ==
  IF stopping /\ ~IsRelease(j)
    THEN Outcome(j, TRUE, TRUE, j.ptt) ELSE j

\* Mutant: a cancelled result is applied to the cache.
DrainJobAppliesCancelled ==
  /\ jobs # <<>>
  /\ LET j == Delivered(Head(jobs))
     IN  /\ cache' = [cache EXCEPT ![j.vfo] = j.ptt]
         /\ polls' = IF j.op = "poll" THEN [polls EXCEPT ![j.vfo] = FALSE] ELSE polls
  /\ jobs' = Tail(jobs)
  /\ outstanding' = outstanding - 1
  /\ UNCHANGED <<queue, done, off_jobs, followers, stopping, thread, server,
                 submitted, radio, history>>

\* Mutant: a cancelled result is counted out twice.
DrainJobCountsTwice ==
  /\ jobs # <<>>
  /\ LET j == Delivered(Head(jobs))
     IN  /\ cache' = IF j.cancelled THEN cache ELSE [cache EXCEPT ![j.vfo] = j.ptt]
         /\ polls' = IF j.op = "poll" THEN [polls EXCEPT ![j.vfo] = FALSE] ELSE polls
         /\ outstanding' = outstanding - IF j.cancelled THEN 2 ELSE 1
  /\ jobs' = Tail(jobs)
  /\ UNCHANGED <<queue, done, off_jobs, followers, stopping, thread, server,
                 submitted, radio, history>>

\* drain, second half: replay one result.  Its completion callback may submit
\* again, which is a submission between two DrainJob steps.
DrainJob ==
  /\ jobs # <<>>
  /\ LET j == Delivered(Head(jobs))
     IN  /\ cache' = IF j.cancelled THEN cache ELSE [cache EXCEPT ![j.vfo] = j.ptt]
         /\ polls' = IF j.op = "poll" THEN [polls EXCEPT ![j.vfo] = FALSE] ELSE polls
  /\ jobs' = Tail(jobs)
  /\ outstanding' = outstanding - 1
  /\ UNCHANGED <<queue, done, off_jobs, followers, stopping, thread, server,
                 submitted, radio, history>>

\* Mutant: stop() leaves what is queued to the worker.
StopKeepsQueue ==
  /\ server = "run" /\ jobs = <<>>
  /\ server' = "join"
  /\ stopping' = TRUE
  /\ UNCHANGED <<queue, done, off_jobs, followers, polls, outstanding, thread,
                 jobs, cache, submitted, radio, history>>

\* rr_backend_worker_stop up to pthread_join: only releases stay queued.
Stop ==
  /\ server = "run" /\ jobs = <<>>
  /\ server' = "join"
  /\ stopping' = TRUE
  /\ LET normal == {j \in Elems(queue) : ~IsRelease(j)}
     IN  /\ queue' = Without(queue, normal)
         /\ done' = done \o Cancelled(Filter(queue, normal))
  /\ UNCHANGED <<off_jobs, followers, polls, outstanding, thread, jobs, cache,
                 submitted, radio, history>>

\* rr_backend_worker_stop after the last drain.
Free ==
  /\ server = "join" /\ worker = "exited" /\ done = <<>> /\ jobs = <<>>
  /\ server' = "freed"
  /\ UNCHANGED <<locked, thread, jobs, cache, submitted, radio, history>>

\* rr_rig_set_halted: the emergency stop is tripped or reset (events.admin.c).
SetHalted ==
  /\ server = "run" /\ jobs = <<>>
  /\ halted' = ~halted
  /\ UNCHANGED <<locked, thread, main, tx, history>>

\* A freed worker is the end of a behaviour.
Freed == server = "freed" /\ UNCHANGED vars

----------------------------------------------------------------------------
Submit == \E v \in VFO : SubmitRelease(v) \/ \E op \in Operations : SubmitNormal(op, v)

WorkerStep == Take \/ CheckHalted \/ Call \/ Finish \/ LeaveLoop \/ FinalRelease \/ WorkerExit

DrainStep == DrainTake \/ DrainJob

Next == Submit \/ WorkerStep \/ DrainStep \/ Stop \/ Free \/ SetHalted \/ Freed

Spec == Init /\ [][Next]_vars

\* The worker thread runs whenever it has something to do, every hardware
\* call returns (hamlib-timeout-ms), and the main loop drains every cycle.
FairSpec == Spec /\ WF_vars(WorkerStep) /\ WF_vars(DrainStep) /\ WF_vars(Free)

----------------------------------------------------------------------------
(* Properties *)

\* Every accepted submission that has not been delivered.
Live == Elems(queue) \cup Elems(followers) \cup Elems(done) \cup Elems(jobs)
          \cup {j \in {running_job} : j # NoJob}

\* Type invariant of the worker's shared and private state.
TypeOK ==
  /\ queue \in Seq(Job) /\ done \in Seq(Job)
  /\ followers \in Seq(Job) /\ jobs \in Seq(Job)
  /\ running_job \in Job \cup {NoJob}
  /\ off_jobs \in [VFO -> Nat]
  /\ polls \in [VFO -> BOOLEAN]
  /\ outstanding \in Nat /\ stopping \in BOOLEAN
  /\ worker \in {"idle", "check", "call", "finish", "final", "exited"}
  /\ keyed \in [VFO -> BOOLEAN] /\ final \in 0..MaxVfos
  /\ server \in {"run", "join", "freed"}
  /\ cache \in [VFO -> BOOLEAN] /\ submitted \in Nat
  /\ halted \in BOOLEAN /\ tx \in [VFO -> BOOLEAN]
  /\ last_off \in [VFO -> Nat] /\ keyed_by \in [VFO -> Nat]
  /\ off_failed \in [VFO -> BOOLEAN]
  /\ last_call \in [VFO -> {"none", "on", "off"}]

\* submit() counts a job in, drain() counts it out, and cancelling, sharing,
\* running and finishing move it between lists: outstanding is at every moment
\* the number of jobs in all lists, so the limit is a limit on all of them.
Accounting ==
  outstanding = Len(queue) + Len(followers) + Len(done) + Len(jobs)
                  + (IF running_job = NoJob THEN 0 ELSE 1)

\* doc/backend-workers.md: at most BACKEND_QUEUE_LIMIT normal jobs, undrained
\* results included, and MAX_VFOS more releases.  The results of the shutdown
\* releases (id 0) come on top, one per VFO.
QueueBound ==
  /\ outstanding <= QueueLimit + MaxVfos + final
  /\ Cardinality({j \in Live : ~IsRelease(j) /\ j.id # 0}) <= QueueLimit

\* The queue is releases, then controls in the order submitted, then polls:
\* nothing overtakes a release and no poll delays a control.
QueueOrder ==
  \A i, k \in 1..Len(queue) : i < k =>
    /\ IsRelease(queue[k]) => IsRelease(queue[i])
    /\ queue[i].op = "poll" => queue[k].op = "poll"
    /\ ~IsRelease(queue[i]) /\ queue[k].op # "poll" => queue[i].id < queue[k].id

\* polls[v] is set exactly while one poll of v is somewhere between submit()
\* and drain(): polls coalesce, and a lost flag never blocks polling for good.
OnePoll ==
  server # "freed" => \A v \in VFO :
    LET P == {j \in Live : j.op = "poll" /\ j.vfo = v /\ j.id # 0}
    IN  Cardinality(P) <= 1 /\ (~stopping => (polls[v] <=> P # {}))

\* What the queue keeps up under every mix of submissions, cancellations and
\* drains: its bound, its order, and one poll per VFO.
QueueDiscipline == QueueBound /\ QueueOrder /\ OnePoll

\* A key-down that is older than an accepted release of its VFO is never still
\* queued; if it is already running, that release is still to follow it.
NoStaleKeyDown ==
  \A v \in VFO :
    /\ \A j \in Elems(queue) : IsKeyDown(j) /\ j.vfo = v => j.id > last_off[v]
    /\ (running_job # NoJob /\ IsKeyDown(running_job) /\ running_job.vfo = v
          /\ running_job.id < last_off[v]) => off_jobs[v] # 0

\* Once a release was accepted after the key-down that put v on the air, v is
\* off the air, or the release is still to come, or the radio reported that
\* the last release failed.
ReleasedStaysReleased ==
  \A v \in VFO : tx[v] /\ last_off[v] > keyed_by[v] =>
    off_jobs[v] # 0 \/ off_failed[v]

\* drain() applies results in the order they happened: with nothing of v left
\* to replay, the cached transmit state is the one the worker saw last.
CacheFresh ==
  ~stopping => \A v \in VFO :
    LET all == jobs \o done
        seen == {i \in 1..Len(all) : all[i].vfo = v /\ ~all[i].cancelled}
        last == CHOOSE i \in seen : \A k \in seen : k <= i
    IN  (worker # "finish" \/ running_job.vfo # v) =>
          keyed[v] = IF seen = {} THEN cache[v] ELSE all[last].ptt

\* After the worker thread has exited, a VFO still on the air that was tracked
\* as keyed, or whose release was accepted, is one whose last release the
\* radio reported as failed.
ShutdownUnkeys ==
  worker = "exited" => \A v \in VFO :
    tx[v] /\ (keyed[v] \/ last_off[v] > keyed_by[v]) => off_failed[v]

\* Every accepted job is delivered once the server submits no more.
JobsComplete ==
  \A n \in 1..MaxJobs : (\E j \in Live : j.id = n) ~> (\A j \in Live : j.id # n)

\* "Shutdown never abandons an already keyed transmitter" (worker_main): a
\* transmitter that is on the air when the thread exits was sent a release.
ShutdownNeverAbandons ==
  worker = "exited" => \A v \in VFO : tx[v] => last_call[v] = "off"

----------------------------------------------------------------------------
(* Refinement *)

\* The worker hides its queue, its results and every job but PTT: the VFOs with
\* a queued key-down, those with a release to come, and the command in hand.
KeyDownsQueued == {j.vfo : j \in {k \in Elems(queue) : IsKeyDown(k)}}

ReleasesOwed == {v \in VFO : off_jobs[v] # 0}

CommandInHand ==
  IF running_job = NoJob \/ running_job.op \notin {"ptt_on", "ptt_off"}
    THEN [state |-> "none"]
    ELSE [vfo |-> running_job.vfo, on |-> IsKeyDown(running_job),
          state |-> IF worker # "finish" THEN "begun"
                    ELSE IF running_job.failed THEN "failed" ELSE "ok"]

Promise == INSTANCE Keying WITH
  open <- ~stopping,
  waiting <- KeyDownsQueued,
  owed <- ReleasesOwed,
  current <- CommandInHand,
  tx <- tx

\* The worker implements Keying: one command at a time, releases before key-
\* downs, no key-down older than a release is begun after it, a shared release
\* is owed until the one it shares was sent, and shutdown drops key-downs but
\* no release (submit, finish_job_locked, worker_main, stop together).
KeepsPromise == Promise!Spec
============================================================================
