-------------------------------- MODULE Ptt --------------------------------
(***************************************************************************)
(* Transmit control of rrserver (ptt.c) with the handlers that call it:    *)
(* client key-down, key-up and disconnect, forced release, talk timeout,   *)
(* faults, emergency stop, the accounting interlock and shutdown.  Every   *)
(* rig has a worker (BackendWorker, reduced here to the order in which it  *)
(* executes, cancels, shares and returns PTT jobs), so a request is only   *)
(* queued and what it means is decided when its completion is drained.     *)
(* The server thread runs one handler at a time; the workers run between   *)
(* the submissions of a handler that makes several.                        *)
(***************************************************************************)
EXTENDS PttLog, Lists

CONSTANTS
  Rigs,         \* the registered rigs
  NoRig,        \* the NULL rig
  DefaultRig,   \* rr_rig_registry_default
  QueueLimit,   \* BACKEND_QUEUE_LIMIT
  Strict,       \* accounting.strict
  Causes,       \* why transmission may be forced off, a subset of AllCauses
  MaxPending    \* bound: key-downs wait while this many requests are pending

\* The callers of rr_ptt_set_all_off_reason.
AllCauses == {"forced", "block", "tot", "retry", "trip", "reset", "shutdown"}

ASSUME PttAssumption ==
  /\ NoRig \notin Rigs
  /\ DefaultRig \in Rigs
  /\ QueueLimit \in Nat
  /\ Strict \in BOOLEAN
  /\ Causes \subseteq AllCauses
  /\ MaxPending \in Nat

VARIABLES
  \* The server thread.
  talker,        \* the connection whose is_ptt is set (whos_talking)
  ptt_vfo,       \* the VFO that connection keyed
  ptt_rig,       \* rig.ptt_rig
  tx_blocked,    \* rig.tx_blocked
  accounting_locked,
  stop_pending,  \* accounting_stop_pending
  tot,           \* global_tot_time is set
  dying,
  pending,       \* pending_ptt, newest first
  off,           \* the running rr_ptt_set_all_off_reason, or NoLoop
  jobs,          \* the results drain() detached and is replaying
  log,           \* see PttLog
  \* The workers.
  queue, running, done, outstanding,
  \* The rigs.
  halted, tx,
  \* History, read by properties only.
  confirmed,     \* rig, VFO -> a key-down was confirmed and not released since
  failed_last,   \* rig, VFO -> the last PTT command reported failure
  unreleased     \* rig, VFO -> a tracked release failed, none succeeded since

switches == <<tx_blocked, accounting_locked, stop_pending, tot, dying>>
worker   == <<queue, running, done, outstanding>>
radio    == <<halted, tx>>
history  == <<confirmed, failed_last, unreleased>>
vars == <<talker, ptt_vfo, ptt_rig, switches, pending, off, jobs, log, worker,
          radio, history>>

NoVfo == -1
NoJob == [vfo |-> NoVfo]
NoLoop == [why |-> "none"]

\* A pending_ptt_t.  id stands for its address.
Pending == [id : Nat \ {0}, rig : Rigs, vfo : VFO, on : BOOLEAN,
            owner : Client, superseded : BOOLEAN]

\* A queued PTT job.  pends holds the pending request of the job and then
\* those of its followers, 0 for a job without a completion.
Job == [vfo : VFO, on : BOOLEAN, pends : Seq(Nat)]

\* A finished job.
Result == [rig : Rigs, vfo : VFO, on : BOOLEAN, pend : Nat, failed : BOOLEAN]

\* A running rr_ptt_set_all_off_reason: its caller, the next VFO, whether a
\* release was refused, and the value ptt_rig has again afterwards.
Loop == [why : AllCauses, next : 0..MaxVfos, failed : BOOLEAN,
         previous : Rigs \cup {NoRig}]

All(x) == [r \in Rigs |-> [v \in VFO |-> x]]

Init ==
  /\ talker = NoClient /\ ptt_vfo = NoVfo /\ ptt_rig = NoRig
  /\ tx_blocked = FALSE /\ accounting_locked = FALSE /\ stop_pending = FALSE
  /\ tot = FALSE /\ dying = FALSE
  /\ pending = <<>> /\ off = NoLoop /\ jobs = <<>> /\ log = EmptyLog
  /\ queue = [r \in Rigs |-> <<>>] /\ done = [r \in Rigs |-> <<>>]
  /\ running = [r \in Rigs |-> NoJob]
  /\ outstanding = [r \in Rigs |-> 0]
  /\ halted = [r \in Rigs |-> FALSE] /\ tx = All(FALSE)
  /\ confirmed = All(FALSE) /\ failed_last = All(FALSE) /\ unreleased = All(FALSE)

----------------------------------------------------------------------------
(* The worker, as the server thread sees it *)

Finished(r, j, failed) ==
  [k \in 1..Len(j.pends) |->
     [rig |-> r, vfo |-> j.vfo, on |-> j.on, pend |-> j.pends[k], failed |-> failed]]

IsReleaseOf(j, v) == j # NoJob /\ ~j.on /\ j.vfo = v

\* A follower goes behind the job it shares and in front of older followers.
Join(j, p) == [vfo |-> j.vfo, on |-> j.on,
               pends |-> <<Head(j.pends), p>> \o Tail(j.pends)]

\* rr_backend_worker_submit of a key-down.
SubmitKeyDown(r, v, p) ==
  /\ queue' = [queue EXCEPT ![r] = Append(@, [vfo |-> v, on |-> TRUE, pends |-> <<p>>])]
  /\ outstanding' = [outstanding EXCEPT ![r] = @ + 1]
  /\ UNCHANGED <<running, done>>

\* rr_backend_worker_submit of a release, with n jobs outstanding: queued key-downs of the VFO are
\* cancelled, then it shares the outstanding release or goes first.
SubmitRelease(r, v, p, n) ==
  LET cut  == {j \in Elems(queue[r]) : j.on /\ j.vfo = v}
      gone == Filter(queue[r], cut)
      rest == Without(queue[r], cut)
  IN  /\ outstanding' = [outstanding EXCEPT ![r] = n + 1]
      /\ done' = [done EXCEPT ![r] =
                    @ \o [k \in 1..Len(gone) |-> Finished(r, gone[k], TRUE)[1]]]
      /\ IF IsReleaseOf(running[r], v)
           THEN /\ running' = [running EXCEPT ![r] = Join(@, p)]
                /\ queue' = [queue EXCEPT ![r] = rest]
           ELSE /\ UNCHANGED running
                /\ queue' = [queue EXCEPT ![r] =
                     IF \E i \in 1..Len(rest) : IsReleaseOf(rest[i], v)
                       THEN [i \in 1..Len(rest) |->
                               IF IsReleaseOf(rest[i], v) THEN Join(rest[i], p) ELSE rest[i]]
                       ELSE <<[vfo |-> v, on |-> FALSE, pends |-> <<p>>]>> \o rest]

\* Mutant: releases are held to the limit of normal jobs.
ReleaseRoomNoReserve(n) == n < QueueLimit

ReleaseRoom(n) == n < QueueLimit + MaxVfos

\* Mutant: a cancelled key-down is counted out and not released.
UntrackedReleaseNone(r, v, n) ==
  outstanding' = [outstanding EXCEPT ![r] = n] /\ UNCHANGED <<queue, running, done>>

\* The release that ptt.c submits without a completion and whose return value
\* it ignores.
UntrackedRelease(r, v, n) ==
  IF ReleaseRoom(n)
    THEN SubmitRelease(r, v, 0, n)
    ELSE outstanding' = [outstanding EXCEPT ![r] = n] /\ UNCHANGED <<queue, running, done>>

\* The worker takes its next job; the emergency stop fails a key-down here.
Take(r) ==
  /\ running[r] = NoJob /\ queue[r] # <<>>
  /\ LET j == Head(queue[r])
     IN  IF j.on /\ halted[r]
           THEN /\ done' = [done EXCEPT ![r] = @ \o Finished(r, j, TRUE)]
                /\ UNCHANGED running
           ELSE /\ running' = [running EXCEPT ![r] = j]
                /\ UNCHANGED done
  /\ queue' = [queue EXCEPT ![r] = Tail(@)]
  /\ UNCHANGED <<talker, ptt_vfo, ptt_rig, switches, pending, off, jobs, log,
                 outstanding, radio, history>>

\* A completion will report the outcome of the job.
Tracked(j) == \E k \in 1..Len(j.pends) : j.pends[k] # 0

\* The hardware call.  An acknowledged command took effect; one that reports
\* failure may have taken effect or not.
Execute(r) ==
  /\ running[r] # NoJob
  /\ \E failed \in BOOLEAN :
       LET j == running[r]
       IN  /\ tx' = [tx EXCEPT ![r][j.vfo] = j.on] \/ (failed /\ UNCHANGED tx)
           /\ done' = [done EXCEPT ![r] = @ \o Finished(r, j, failed)]
           /\ failed_last' = [failed_last EXCEPT ![r][j.vfo] = failed]
           /\ IF ~j.on /\ ~failed
                THEN confirmed' = [confirmed EXCEPT ![r][j.vfo] = FALSE]
                ELSE UNCHANGED confirmed
           /\ unreleased' = [unreleased EXCEPT ![r][j.vfo] =
                IF j.on THEN @ ELSE failed /\ (@ \/ Tracked(j))]
  /\ running' = [running EXCEPT ![r] = NoJob]
  /\ UNCHANGED <<talker, ptt_vfo, ptt_rig, switches, pending, off, jobs, log,
                 queue, outstanding, halted>>

----------------------------------------------------------------------------
(* rr_ptt_request on a rig with a worker *)

\* rig.ptt_rig, or else the default rig.
Target == IF ptt_rig = NoRig THEN DefaultRig ELSE ptt_rig

NewId == Nth({i \in 1..(Len(pending) + 1) : \A p \in Elems(pending) : p.id # i}, 1)

NewPending(r, v, on, owner) ==
  [id |-> NewId, rig |-> r, vfo |-> v, on |-> on, owner |-> owner, superseded |-> FALSE]

\* The early returns of a key-down, in the request and again in its replay.
\* denied stands for the quota table.
KeyDownBarred(r, denied) == halted[r] \/ tx_blocked \/ accounting_locked \/ denied

\* Mutant: releases pending on another rig do not matter.
KeyDownRefusedLocal(r) == outstanding[r] >= QueueLimit

\* A release is pending on another rig, or the worker takes no more jobs.
KeyDownRefused(r) ==
  \/ \E p \in Elems(pending) : ~p.on /\ p.rig # r
  \/ outstanding[r] >= QueueLimit

\* A release supersedes the pending key-downs of its VFO.
Supersede(q, r, v) ==
  [i \in 1..Len(q) |->
     [id |-> q[i].id, rig |-> q[i].rig, vfo |-> q[i].vfo, on |-> q[i].on,
      owner |-> q[i].owner,
      superseded |-> q[i].superseded \/ (q[i].rig = r /\ q[i].vfo = v /\ q[i].on)]]

\* The newest pending request of the VFO is a release: another is accepted
\* without a job of its own.
Duplicate(r, v) ==
  \E i \in 1..Len(pending) :
    /\ pending[i].rig = r /\ pending[i].vfo = v /\ ~pending[i].on
    /\ \A k \in 1..(i - 1) : ~(pending[k].rig = r /\ pending[k].vfo = v)

\* rr_ptt_request(v, false, ...) with the list q of pending requests.
RequestRelease(q, v, owner, rejected) ==
  \/ /\ Duplicate(Target, v) /\ ~rejected
     /\ pending' = q
     /\ UNCHANGED worker
  \/ /\ ~Duplicate(Target, v) /\ ~ReleaseRoom(outstanding[Target]) /\ rejected
     /\ pending' = q
     /\ UNCHANGED worker
  \/ /\ ~Duplicate(Target, v) /\ ReleaseRoom(outstanding[Target]) /\ ~rejected
     /\ pending' = <<NewPending(Target, v, FALSE, owner)>> \o Supersede(q, Target, v)
     /\ SubmitRelease(Target, v, NewId, outstanding[Target])

----------------------------------------------------------------------------
(* Client events *)

\* The server thread is between two handlers.
Idle == off = NoLoop /\ jobs = <<>> /\ ~dying

\* A client keys v of r.  The protocol layer lets it through only while nobody
\* is talking, and sets is_ptt before the event; a refusal takes it back but
\* leaves ptt_rig on the refused rig.
KeyDown(c, r, v) ==
  /\ Idle /\ talker = NoClient /\ Len(pending) < MaxPending
  /\ ptt_rig' = r
  /\ \E denied \in BOOLEAN :
       IF KeyDownBarred(r, denied) \/ KeyDownRefused(r)
         THEN UNCHANGED <<talker, ptt_vfo, pending, worker>>
         ELSE /\ talker' = c /\ ptt_vfo' = v
              /\ SubmitKeyDown(r, v, NewId)
              /\ pending' = <<NewPending(r, v, TRUE, c)>> \o pending
  /\ UNCHANGED <<switches, off, jobs, log, radio, history>>

\* The talker releases.  is_ptt is cleared before the event and restored when
\* the release is refused.
KeyUp ==
  /\ Idle /\ talker # NoClient
  /\ \E rejected \in BOOLEAN :
       /\ RequestRelease(pending, ptt_vfo, NoClient, rejected)
       /\ IF rejected THEN UNCHANGED <<talker, ptt_vfo>>
                      ELSE talker' = NoClient /\ ptt_vfo' = NoVfo
  /\ UNCHANGED <<ptt_rig, switches, off, jobs, log, radio, history>>

\* What ptt_worker_closed does to the pending requests of a closed connection.
Orphan(q, c) ==
  [i \in 1..Len(q) |->
     [id |-> q[i].id, rig |-> q[i].rig, vfo |-> q[i].vfo, on |-> q[i].on,
      owner |-> IF q[i].owner = c THEN NoClient ELSE q[i].owner,
      superseded |-> q[i].superseded \/ (q[i].owner = c /\ q[i].on)]]

\* A failed accounting write of the handler (the row, the debit, the audit, the
\* usage of a closing connection) raises accounting_failed before it returns.
AfterWrites(ok) ==
  LET lock == Strict /\ ~ok /\ ~accounting_locked
  IN  /\ accounting_locked' = (accounting_locked \/ lock)
      /\ stop_pending' = (stop_pending \/ lock)

\* A new connection has no row.
Forget(L, c) ==
  [session |-> L.session, owner |-> L.owner,
   ptt_session |-> [L.ptt_session EXCEPT ![c] = 0],
   row |-> L.row]

\* A connection closes: first the release of what it keyed, then
\* ptt_worker_closed; its memory of the row goes with it.
Disconnect(c) ==
  /\ Idle
  /\ \/ c = talker
     \/ \E p \in Elems(pending) : p.owner = c
     \/ \E v \in VFO : log.owner[v] = c
  /\ IF c = talker
       THEN /\ \E rejected \in BOOLEAN :
                 RequestRelease(Orphan(pending, c), ptt_vfo, NoClient, rejected)
            /\ talker' = NoClient /\ ptt_vfo' = NoVfo
       ELSE /\ pending' = Orphan(pending, c)
            /\ UNCHANGED <<talker, ptt_vfo, worker>>
  /\ \E ok \in BOOLEAN :
       /\ log' = Forget(LogStopAll(log, c, {v \in VFO : log.owner[v] = c}, ok), c)
       /\ AfterWrites(ok)
  /\ UNCHANGED <<ptt_rig, tx_blocked, tot, dying, off, jobs, radio, history>>

----------------------------------------------------------------------------
(* rr_ptt_set_all_off_reason *)

\* rr_ptt_set_all_off_reason is called, with ptt_rig set to r.
StartOff(why, r) ==
  /\ off = NoLoop /\ ~dying /\ why \in Causes
  /\ off' = [why |-> why, next |-> 0, failed |-> FALSE, previous |-> ptt_rig]
  /\ ptt_rig' = r
  /\ UNCHANGED <<talker, ptt_vfo, tx_blocked, accounting_locked, stop_pending,
                 tot, pending, jobs, log, worker, tx, history>>

\* The ptt.off event (mute, an administrator's halt), the talker leaving the
\* room of the rig, the loss of its supervisor.
ForceOff == Idle /\ StartOff("forced", ptt_rig) /\ UNCHANGED <<halted, dying>>

\* are_we_on_fire() or check_faults().
Fault == Idle /\ StartOff("block", ptt_rig) /\ UNCHANGED <<halted, dying>>

\* The clock reaches global_tot_time.
TalkTimeout == Idle /\ tot /\ StartOff("tot", ptt_rig) /\ UNCHANGED <<halted, dying>>

\* accounting_poll, at most once per second.
RetryStop ==
  Idle /\ stop_pending /\ StartOff("retry", ptt_rig) /\ UNCHANGED <<halted, dying>>

\* shutdown_rig.  A result that carries a shutdown code requests it while the
\* results behind it are still to be replayed.
Shutdown == StartOff("shutdown", ptt_rig) /\ dying' = TRUE /\ UNCHANGED halted

\* Mutant: the stop is latched and nothing is released.
EstopTripLatchOnly(r) ==
  /\ Idle /\ "trip" \in Causes
  /\ halted' = [halted EXCEPT ![r] = TRUE]
  /\ UNCHANGED <<talker, ptt_vfo, ptt_rig, switches, pending, off, jobs, log,
                 worker, tx, history>>

\* The emergency stop of rig r is tripped.
EstopTrip(r) ==
  /\ Idle /\ StartOff("trip", r)
  /\ halted' = [halted EXCEPT ![r] = TRUE]
  /\ UNCHANGED dying

\* Mutant: the reset clears the flag and releases nothing.
EstopResetBlind(r) ==
  /\ Idle /\ off = NoLoop /\ ~dying /\ "reset" \in Causes
  /\ halted' = [halted EXCEPT ![r] = FALSE]
  /\ UNCHANGED <<talker, ptt_vfo, ptt_rig, switches, pending, off, jobs, log,
                 worker, tx, history>>

\* A reset first runs the releases; the flag is cleared in EndOff.
EstopReset(r) == Idle /\ StartOff("reset", r) /\ UNCHANGED <<halted, dying>>

\* One VFO of the loop.
OffVfo ==
  /\ off # NoLoop /\ off.next < MaxVfos
  /\ \E rejected \in BOOLEAN :
       /\ RequestRelease(pending, off.next, talker, rejected)
       /\ off' = [why |-> off.why, next |-> off.next + 1,
                  failed |-> off.failed \/ rejected, previous |-> off.previous]
  /\ UNCHANGED <<talker, ptt_vfo, ptt_rig, switches, jobs, log, radio, history>>

\* Mutant: the talker keeps the channel after a forced release.
EndOffKeepsTalker ==
  /\ off # NoLoop /\ off.next = MaxVfos
  /\ off' = NoLoop
  /\ ptt_rig' = off.previous
  /\ tot' = (tot /\ off.failed /\ off.why # "tot")
  /\ tx_blocked' = (tx_blocked \/ off.why = "block")
  /\ stop_pending' = IF off.why = "retry" THEN off.failed ELSE stop_pending
  /\ halted' = IF off.why = "reset" /\ ~off.failed
                 THEN [halted EXCEPT ![ptt_rig] = FALSE] ELSE halted
  /\ UNCHANGED <<talker, ptt_vfo, accounting_locked, dying, pending, jobs, log,
                 worker, tx, history>>

\* The end of the loop and what its caller does with the result.
EndOff ==
  /\ off # NoLoop /\ off.next = MaxVfos
  /\ off' = NoLoop
  /\ ptt_rig' = off.previous
  /\ tot' = (tot /\ off.failed /\ off.why # "tot")
  /\ IF off.failed THEN UNCHANGED <<talker, ptt_vfo>>
                   ELSE talker' = NoClient /\ ptt_vfo' = NoVfo
  /\ tx_blocked' = (tx_blocked \/ off.why = "block")
  /\ stop_pending' = IF off.why = "retry" THEN off.failed ELSE stop_pending
  /\ halted' = IF off.why = "reset" /\ ~off.failed
                 THEN [halted EXCEPT ![ptt_rig] = FALSE] ELSE halted
  /\ UNCHANGED <<accounting_locked, dying, pending, jobs, log, worker, tx, history>>

----------------------------------------------------------------------------
(* Completions *)

\* rr_backend_worker_drain detaches the results of r.
Drain(r) ==
  /\ off = NoLoop /\ jobs = <<>> /\ done[r] # <<>>
  /\ jobs' = done[r]
  /\ done' = [done EXCEPT ![r] = <<>>]
  /\ UNCHANGED <<talker, ptt_vfo, ptt_rig, switches, pending, off, log, queue,
                 running, outstanding, radio, history>>

PendingOf(id) == CHOOSE p \in Elems(pending) : p.id = id

\* Replaying the first result: it is counted out before its completion runs.
Replay(j) ==
  /\ off = NoLoop /\ jobs # <<>> /\ j = Head(jobs)
  /\ jobs' = Tail(jobs)
  /\ UNCHANGED <<ptt_rig, dying, off, radio, failed_last, unreleased>>

\* Mutant: a result is counted out twice.
CountOutTwice(j) ==
  /\ outstanding' = [outstanding EXCEPT ![j.rig] = @ - 2]
  /\ UNCHANGED <<queue, running, done>>

CountOut(j) ==
  /\ outstanding' = [outstanding EXCEPT ![j.rig] = @ - 1]
  /\ UNCHANGED <<queue, running, done>>

\* No completion, or ptt_worker_completed of a request that no longer counts.
DropResult(j) ==
  /\ Replay(j)
  /\ \/ j.pend = 0 /\ UNCHANGED pending
     \/ /\ j.pend # 0 /\ (dying \/ PendingOf(j.pend).superseded)
        /\ pending' = Without(pending, {PendingOf(j.pend)})
  /\ CountOut(j)
  /\ UNCHANGED <<talker, ptt_vfo, tx_blocked, accounting_locked, stop_pending,
                 tot, log, confirmed>>

\* ptt_worker_completed unlinks the request p that still counts.
Completed(j, p) ==
  /\ Replay(j)
  /\ j.pend # 0 /\ p = PendingOf(j.pend) /\ ~dying /\ ~p.superseded
  /\ pending' = Without(pending, {p})

\* The talker or the transmitting rig changed while the key-down was pending.
Stale(p) == p.owner = NoClient \/ talker # p.owner \/ ptt_rig # p.rig

CancelStale(j, p) ==
  /\ Completed(j, p) /\ p.on /\ Stale(p)
  /\ UntrackedRelease(j.rig, j.vfo, outstanding[j.rig] - 1)
  /\ UNCHANGED <<talker, ptt_vfo, tx_blocked, accounting_locked, stop_pending,
                 tot, log, confirmed>>

\* A key-down that is no longer permitted, or that failed: it is taken back,
\* and a failed one must leave no row.
RejectKeyDown(j, p) ==
  /\ Completed(j, p) /\ p.on /\ ~Stale(p)
  /\ \/ /\ \E denied \in BOOLEAN : KeyDownBarred(p.rig, denied)
        /\ UNCHANGED <<log, accounting_locked, stop_pending>>
     \/ /\ ~KeyDownBarred(p.rig, FALSE) /\ j.failed
        /\ \E ok \in BOOLEAN :
             /\ log' = LogStop(log, p.owner, p.vfo, ok)
             /\ AfterWrites(ok)
  /\ UntrackedRelease(j.rig, j.vfo, outstanding[j.rig] - 1)
  /\ talker' = NoClient /\ ptt_vfo' = NoVfo
  /\ UNCHANGED <<tx_blocked, tot, confirmed>>

\* A key-down that succeeded opens its row and arms the talk timeout.
ConfirmKeyDown(j, p) ==
  /\ Completed(j, p) /\ p.on /\ ~Stale(p)
  /\ ~KeyDownBarred(p.rig, FALSE) /\ ~j.failed
  /\ \E ok \in BOOLEAN :
       /\ Strict => ok
       /\ log' = LogStart(log, p.owner, p.vfo, ok)
  /\ tot' = TRUE
  /\ confirmed' = [confirmed EXCEPT ![p.rig][p.vfo] = TRUE]
  /\ CountOut(j)
  /\ UNCHANGED <<talker, ptt_vfo, tx_blocked, accounting_locked, stop_pending>>

\* With strict accounting a failed write locks transmission.  The releases
\* that the handler then requests are replays themselves (completing_ptt is
\* set), so they only reset the server's own state; the key-down is rejected.
LockKeyDown(j, p) ==
  /\ Completed(j, p) /\ p.on /\ ~Stale(p)
  /\ ~KeyDownBarred(p.rig, FALSE) /\ ~j.failed
  /\ Strict /\ log.session[p.vfo] = 0
  /\ \E opened, ok \in BOOLEAN :
       log' = LogStopAll(LogStart(log, p.owner, p.vfo, opened), p.owner, VFO, ok)
  /\ accounting_locked' = TRUE /\ stop_pending' = TRUE
  /\ tot' = FALSE
  /\ UntrackedRelease(j.rig, j.vfo, outstanding[j.rig] - 1)
  /\ talker' = NoClient /\ ptt_vfo' = NoVfo
  /\ UNCHANGED <<tx_blocked, confirmed>>

\* Mutant: a failed release is not tried again.
FailReleaseNoRetry(j, p) ==
  /\ Completed(j, p) /\ ~p.on /\ j.failed
  /\ tx_blocked' = TRUE
  /\ CountOut(j)
  /\ UNCHANGED <<talker, ptt_vfo, accounting_locked, stop_pending, tot, log, confirmed>>

\* A release that failed blocks key-down and is left to accounting_poll.
FailRelease(j, p) ==
  /\ Completed(j, p) /\ ~p.on /\ j.failed
  /\ stop_pending' = TRUE /\ tx_blocked' = TRUE
  /\ CountOut(j)
  /\ UNCHANGED <<talker, ptt_vfo, accounting_locked, tot, log, confirmed>>

\* A release that succeeded closes the row and disarms the talk timeout.
ConfirmRelease(j, p) ==
  /\ Completed(j, p) /\ ~p.on /\ ~j.failed
  /\ tot' = FALSE
  /\ \E ok \in BOOLEAN :
       /\ log' = LogStop(log, p.owner, p.vfo, ok)
       /\ AfterWrites(ok)
  /\ CountOut(j)
  /\ UNCHANGED <<talker, ptt_vfo, tx_blocked, confirmed>>

\* accounting_failed, raised by a write of another part of the server.
AccountingFailed ==
  /\ Idle /\ Strict /\ ~accounting_locked
  /\ accounting_locked' = TRUE /\ stop_pending' = TRUE
  /\ UNCHANGED <<talker, ptt_vfo, ptt_rig, tx_blocked, tot, dying, pending, off,
                 jobs, log, worker, radio, history>>

----------------------------------------------------------------------------
Complete ==
  \E j \in Elems(jobs) :
    \/ DropResult(j)
    \/ \E p \in Elems(pending) :
         \/ CancelStale(j, p) \/ RejectKeyDown(j, p) \/ ConfirmKeyDown(j, p)
         \/ LockKeyDown(j, p) \/ FailRelease(j, p) \/ ConfirmRelease(j, p)

WorkerStep == \E r \in Rigs : Take(r) \/ Execute(r)

Next ==
  \/ \E c \in Clients, r \in Rigs, v \in VFO : KeyDown(c, r, v)
  \/ KeyUp
  \/ \E c \in Clients : Disconnect(c)
  \/ ForceOff \/ Fault \/ TalkTimeout \/ RetryStop \/ Shutdown
  \/ \E r \in Rigs : EstopTrip(r) \/ EstopReset(r)
  \/ OffVfo \/ EndOff
  \/ \E r \in Rigs : Drain(r)
  \/ Complete
  \/ AccountingFailed
  \/ WorkerStep

Spec == Init /\ [][Next]_vars

\* A release that the radio acknowledges.
ReleaseSucceeds ==
  \E r \in Rigs : Execute(r) /\ ~running[r].on /\ ~failed_last'[r][running[r].vfo]

\* The worker thread keeps running and handlers end; the main loop drains
\* every worker once per cycle, whatever events keep coming; the clock comes
\* round to the retry; a radio that is sent releases over and over acknowledges
\* one.
Responsive ==
  /\ WF_vars(WorkerStep) /\ WF_vars(Complete) /\ WF_vars(OffVfo \/ EndOff)
  /\ \A r \in Rigs : SF_vars(Drain(r))
  /\ SF_vars(RetryStop) /\ SF_vars(ReleaseSucceeds)

----------------------------------------------------------------------------
(* Properties *)

\* Type invariant of transmit control.
TypeOK ==
  /\ talker \in Client /\ ptt_vfo \in VFO \cup {NoVfo}
  /\ ptt_rig \in Rigs \cup {NoRig}
  /\ tx_blocked \in BOOLEAN /\ accounting_locked \in BOOLEAN
  /\ stop_pending \in BOOLEAN /\ tot \in BOOLEAN /\ dying \in BOOLEAN
  /\ pending \in Seq(Pending) /\ off \in Loop \cup {NoLoop}
  /\ jobs \in Seq(Result) /\ log \in LogType
  /\ queue \in [Rigs -> Seq(Job)] /\ running \in [Rigs -> Job \cup {NoJob}]
  /\ done \in [Rigs -> Seq(Result)] /\ outstanding \in [Rigs -> Nat]
  /\ halted \in [Rigs -> BOOLEAN] /\ tx \in [Rigs -> [VFO -> BOOLEAN]]
  /\ confirmed \in [Rigs -> [VFO -> BOOLEAN]]
  /\ failed_last \in [Rigs -> [VFO -> BOOLEAN]]
  /\ unreleased \in [Rigs -> [VFO -> BOOLEAN]]

\* A release of v of r is with the worker or its result is still to be
\* replayed, or the running loop has yet to request it.
ReleaseUnderway(r, v) ==
  \/ \E j \in Elems(queue[r]) \cup {running[r]} : IsReleaseOf(j, v)
  \/ \E x \in Elems(done[r]) \cup Elems(jobs) : x.rig = r /\ x.vfo = v /\ ~x.on
  \/ off # NoLoop /\ Target = r /\ off.next <= v

KeyDownUnderway(r, v) ==
  \/ \E j \in Elems(queue[r]) \cup {running[r]} : j # NoJob /\ j.on /\ j.vfo = v
  \/ \E x \in Elems(done[r]) \cup Elems(jobs) : x.rig = r /\ x.vfo = v /\ x.on

\* A transmitter that is on the air with nothing underway for it carries a
\* transmission the server confirmed, or its last command reported failure.
AirAccounted ==
  \A r \in Rigs, v \in VFO : tx[r][v] =>
    \/ confirmed[r][v] \/ failed_last[r][v]
    \/ ReleaseUnderway(r, v) \/ KeyDownUnderway(r, v)

\* While a transmitter is on the air after a release of it failed, another
\* release is underway or will be tried, and no key-down is let through.
FailedReleaseRetried ==
  ~dying => \A r \in Rigs, v \in VFO : unreleased[r][v] /\ tx[r][v] =>
    ReleaseUnderway(r, v) \/ (stop_pending /\ tx_blocked)

\* The emergency stop silences its rig whatever the rest of the server does:
\* a halted rig is off the air, or a release is underway for what is on, or
\* the last command it was sent reported failure.
HaltSilences ==
  \A r \in Rigs, v \in VFO :
    halted[r] /\ tx[r][v] => ReleaseUnderway(r, v) \/ failed_last[r][v]

\* An entry of the session table belongs to a confirmed transmission, or to
\* one whose release is underway or to be retried, which will close it: nothing
\* that was rejected or superseded is billable, and nothing is for ever.
SessionsReal ==
  ~dying => \A v \in VFO : log.session[v] # 0 =>
    \E r \in Rigs : confirmed[r][v] \/ ReleaseUnderway(r, v) \/ stop_pending

\* "Strict" accounting: every row that is open in the database is the current one
\* of a VFO, or a write has failed and transmission is locked.  No row is lost
\* by a release that is forced, retried, superseded or outlived by its operator.
RowsClosed ==
  Strict => \A s \in Rows : log.row[s] # NoClient =>
    accounting_locked \/ \E v \in VFO : log.session[v] = s

\* Two transmissions are never confirmed at the same time.
OneTransmission ==
  \A r, s \in Rigs, v, w \in VFO : confirmed[r][v] /\ confirmed[s][w] => r = s /\ v = w

\* No phantom talker: whoever holds the channel has a key-down that is pending
\* or a transmission that was confirmed.
NoPhantomTalker ==
  talker # NoClient /\ off = NoLoop =>
    \/ \E r \in Rigs : confirmed[r][ptt_vfo]
    \/ \E p \in Elems(pending) : p.on /\ p.owner = talker /\ p.vfo = ptt_vfo /\ ~p.superseded

\* A release is never refused: what is reserved for releases suffices.
ReleaseAccepted == off # NoLoop => ~off.failed

\* Every confirmed transmission ends, whether its operator releases, leaves or
\* does nothing, and however often the radio first refuses the release.
EveryTransmissionEnds ==
  \A r \in Rigs, v \in VFO : confirmed[r][v] ~> (~confirmed[r][v] \/ dying)

\* The emergency stop is lifted from a rig only when every transmitter of it is
\* off the air or has a release on its way, also one whose release had failed
\* before.  (It need not be off the air: see the README.)
ResetReleases ==
  [][\A r \in Rigs : halted[r] /\ ~halted'[r] =>
       \A v \in VFO : tx[r][v] => ReleaseUnderway(r, v)]_vars
============================================================================
