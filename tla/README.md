# A TLA+ verification of rustyrig-fw

rustyrig-fw is an open remote-station controller for amateur radio: `rrserver`
runs beside the transmitters and lets remote operators (`rrclient`, web and IRC
clients, other servers) share them. The transmitter is what can do harm. A
carrier left on the air by a lost message, a late answer or two threads in an
unlucky order is the failure this project is mostly about; the second is a
network of linked servers whose routing tables stop agreeing.

The project contains TLA+ modules that model the parts of `rrserver` where this is
decided (the hardware worker, transmit control, supervision of learners, operators of
linked servers, the link tree) and two of its long-lived protocols with other
processes (external receivers, serial tunnels), TLC configurations that check them on small instances, and TLAPS proofs of the
invariants that hold for every value of the constants. `PROJECT.json` gives for
every definition the source lines it models, for every property the mutation of
the code model that breaks it, and for every hazard the properties aimed at it.

    tlc -config PttOneRig.cfg MCPtt        # a run
    tlapm BackendWorkerProofs.tla          # a proof

## 1. Inventory

The main loop (`rrserver/main.c`, 1018-1039) is single-threaded: every cycle it
drains the backend workers, polls bridges, relay, objects, serial ports and
links, and serves the network; timers run on the same thread. The only other
threads that matter here are one backend worker per rig. `librrprotocol` (wire
protocol, sessions, event dispatch) and `librustyaxe` (utilities) are submodules
whose source is not in the tree; what `rrserver` relies on is modelled from the
way it uses them.

| Component | State | Operations | Interacts with | What is hard | What makes it correct |
|---|---|---|---|---|---|
| Backend worker (`backend.worker.c`) | job queue, results, shared releases, poll flags, count of outstanding jobs | submit, execute, finish, drain, stop | transmit control submits and gets completions; the worker thread calls the backend | two threads; a release overtaking, cancelling or sharing other jobs; stop while jobs are outstanding; commands that took effect but reported failure | no key-down outlives a later release; the count is exact; every job is delivered; nothing tracked is left on the air at exit |
| Backends (`backend.hamlib.c`, Yaesu, internal) | remembered PTT state, device handles | PTT, frequency, mode, menus | called by the worker | an unacknowledged command | the remembered state follows acknowledged commands |
| Transmit control (`ptt.c`) | pending requests, talk timeout, interlocks, session table | request, completion, forced release of everything, poll | rig and admin events, worker, accounting | state read at the request and used at the completion; talker or rig changed in between; retry of a failed release | at most one confirmed transmission, each bounded in time, each billed once |
| Rig events (`events.rig.c`) | talker, `rig.ptt_rig` | key-down, key-up, departure, forced release, frequency, mode | protocol layer, transmit control | refusal after partial effect; a disconnect during a pending request | a refused request leaves nobody holding the channel |
| Administration events (`events.admin.c`) | halted flag | emergency stop, reset, accounts | transmit control | reset racing queued releases | a halted rig is silent |
| Accounting (`usage.c`, `database.accounting.c`) | open rows, credit | open, close, debit, quota | transmit control | one write of several failing | the operator who transmitted pays |
| Supervision (`supervision.c`) | requests with ticket, supervisors and their last activity | request, accept, withdraw, activity, tick, disconnect | transmit control (forced release), timer | consent lapsing while keyed and the release refused; answers to tickets that are gone; addresses reused | nobody transmits on consent that was not given to this ticket or has lapsed |
| Link tree (`link.tree.c`) | entries with parent and next hop | new, attach, add, remove, route | server links | untrusted snapshots | a tree, within its limit, one branch per peer |
| Server links (`link.c`, `link.native.c`) | peers, sessions with their handshake phase, generation | dial, hello, snapshot, ready, introduce, withdraw, fail, close | transport; link tree | simultaneous dials; topology changing during admission; late close callbacks | sound trees; agreement when quiet; no routing loop |
| Mesh (`link.mesh.c`, enrolment) | shadow graph, certificates | advertise, shortest path, enrol | links | sequence numbers, expiry | shortest-path trees |
| Relay (`relay*.c`, `media.direct.c`) | remote sessions with their audio path and the release they still owe; catalogs | remote PTT, subscribe, attach, watchdog, remove; forwarding | protocol, transmit control | an operator without a connection that could break; a session closed while it holds the transmitter | no remote carrier left on |
| Receiver bridges (`bridge.manager.c`, `rrbridge/`) | supervised process, handshake, pending request and its callback, setting to restore | tune, handle record, poll (demand, deadlines, reap, spawn), remove, stop | socket pair to `rrbridge`, which keeps a connection to the receiver | coalescing; crash or stall with a request pending; demand returning while the process leaves | every callback called once, the last choice on the receiver, nothing left running |
| Receiver slices, media, directory | reference counts, streams | acquire, release | SDR library, `fwdsp` | release during start | counts match users |
| Serial tunnels (`serial.c`, `rrclient/sercom.c`) | exported devices with owner, stream, sequence numbers; the client's bindings | open, frame, acknowledge, close, poll; retry, follow the operator | one ordered connection | frames of an earlier attachment, late answers, a connection one end still believes in | each command at most once, in order, to an attached device |
| Faults, thermal, protection | sensor values, `tx_blocked` | poll | forces release | fault while a key-down is pending | blocked means off |
| Main loop, timers | poll order, `dying` | loop, shutdown | everything | shutdown mid-drain | nothing left keyed |
| Audio subprocess manager (`libfwdspmgr`) | process table | spawn, reap | GStreamer | exit during start | no orphan |
| Objects, rooms, users, database | tables | edits | SQLite | – | – |
| Client, IRC library, GPS, webcam, tools | UI, parsers, devices | – | – | – | – |

`PROJECT.json` lists the same components with their status and reason, and the
hazards at their source lines. Most are of five families: *interleaving and
ordering* between the server thread and a worker; *stale state* read at a request
and used at its completion; *partial failure and retry* of radio commands,
accounting writes and processes; *ordering of link messages* against topology
changes; and *late answers* of an earlier attachment, session or ticket.

## 2. Modules

    Lists              filters on job lists                     (backend.worker.c helpers)
      ListsProofs
      BackendWorker    the worker of one rig                    MCBackendWorker
        BackendWorkerProofs
      PttLog           rows of the transmission log
        Ptt            transmit control over several rigs       MCPtt
          PttProofs
          Relay        operators of linked servers, with Ptt    MCRelay
            TransmissionProofs                                  (with PttProofs)
    Keying             what the worker promises; BackendWorker implements it
    Supervision        consent of control operators             MCSupervision
      SupervisionProofs
    LinkTree           the routing tree, pure operators
      Links            servers, sockets, handshake              MCLinks
        LinksProofs                                             (with ListsProofs)
    Bridge             an external receiver and its process     MCBridge
      BridgeProofs                                              (with ListsProofs)
    Serial             serial tunnels, both ends                MCSerial
      SerialProofs                                              (with ListsProofs)

### BackendWorker (`backend.worker.c`)

The lists under the worker's mutex (`queue`, `done`, `off_jobs`, `followers`,
`polls`, `outstanding`, `stopping`) and the private state of each thread. An
action is one critical section of the mutex or one stretch of thread-private work
between two: `SubmitRelease` and `SubmitNormal` (`rr_backend_worker_submit`),
`Take`, `CheckHalted`, `Call`, `Finish`, `LeaveLoop`, `FinalRelease`, `WorkerExit`
(`worker_main`, `execute`, `finish`), `DrainTake` and `DrainJob`
(`rr_backend_worker_drain`), `Stop` and `Free` (`rr_backend_worker_stop`) and
`SetHalted`. So a release may be submitted between any two instructions of the
worker thread that another thread can tell apart, in particular between the look at
the emergency stop and the hardware call.

A hardware call is nondeterministic: an acknowledged command took effect; a failed
one may have taken effect or not. `"select"` stands for all the operations that
write to the rig and differ only in what they write. `last_off`, `keyed_by`,
`off_failed`, `last_call` are history variables, read by properties only.

### Keying, and BackendWorker as its implementation

`Keying` is the service: key-downs wait and may be dropped, a release drops those of
its VFO and is owed until it was sent, one command is sent at a time, no key-down is
begun while a release is owed, and closing drops key-downs but no release. It has no
queue, results, followers, counts or threads. The refinement mapping (`Promise`, at the
end of `BackendWorker`) takes `waiting` from the key-downs in the queue, `owed` from
`off_jobs`, `current` from the running job while it is a PTT job, `open` from
`stopping` (`KeyDownsQueued`, `ReleasesOwed`, `CommandInHand`). `KeepsPromise` is the specification of `Keying` under this mapping: every
step of the code is a step of the service or invisible.

### Ptt and PttLog (`ptt.c`, `events.rig.c`, `events.admin.c`, timers)

The server thread's variables, one abstract worker per rig, and the radios. A
handler is one action, except `rr_ptt_set_all_off_reason`, which submits one
release per VFO: the workers run between its submissions, so it is `StartOff`, one
`OffVfo` per VFO, and `EndOff` with what its caller does with the result. Its seven
callers are the causes in `AllCauses`. A completion is one of `DropResult`,
`CancelStale`, `RejectKeyDown`, `ConfirmKeyDown`, `LockKeyDown`, `FailRelease`,
`ConfirmRelease`, the paths through `ptt_worker_completed` and the replayed request.
The worker is reduced to what the server thread sees of PTT jobs: cancelling,
sharing, order, limit, failure. `PttLog` has the session table and the rows; who is
debited for a row is left out.

Every accounting write may fail; with `Strict` that locks transmission. The quota is
a nondeterministic denial.

*External.* The protocol layer delivers a key-down only while nobody holds the
channel, acknowledges a talker's own duplicate without applying it again, and sets or
clears `is_ptt` before the event (`doc/transport-security-audit.md:26` and the
handlers' restoring code).

### Relay (`relay.sessions.c`, `relay.c`, `relay.media.c`, `media.direct.c`)

Extends `Ptt`: some clients are sessions of linked servers. `way` is how a session's
audio reaches the owner of the rig, `heard` that its microphone was heard during the
last three seconds of its transmission, `kept` the VFO that a closed session still
holds because its release was refused. Every action of `Ptt` runs unchanged, with the
remote operator as one of its clients; the actions of `Relay` are what happens to a
session beside: `Subscribe`, `Unsubscribe`, `Detach`, `RemoteKeyDown`, `Frame`,
`Silence`, the watchdog `retry_remote_ptt` and `RemoveRemote`. Whether `ptt.c` learns
that a session was freed is left open (`informed`): it listens to an event of the
external object layer, while `rr_relay_remove_remote` emits one of another name. The
branch of a refused release (`kept`) is in the model, but as the workers' reserve
suffices for releases (`ReleaseAccepted`) no run enters it.

### Supervision (`supervision.c`)

The request table as a set of entries with at most `Requests` members, each with at
most `Slots` supervisors. A handler is the tick and a few assignments around it, in
the order of the code: `check` (a noob presses PTT), `command` (accept, withdraw),
`activity`, `closed`, and the timer. The tick's forced release may be refused. A
session is its address, which the next session may get. `consent` and `spent` record
what elmers really said and which tickets have ended.

### LinkTree and Links (`link.tree.c`, `link.c`, `link.native.c`)

`LinkTree` has each operation of the tree as an enabling condition (the operation
returns `RR_LINK_OK`) and a result. A tree is a function from known servers to
entries; a snapshot is a function from listed servers to claimed parents. The code's
walk and marking loops are replaced by what they compute.

In `Links` a socket has two ends, each a session of its server, and a FIFO stream per
direction. A session's phases are the flags in the order the code sets them: `new`,
`hello`, `admitted` (snapshot attached), `established`. `fail()` marks a session as
closing; `close_session` runs later, from the close callback of either end, with any
number of other events in between. `behind` is the difference between the server's
topology generation and the one the session remembered, counted to 2 because only
equality with 0 or 1 is ever asked. `gave_way` is read by a property only.

Connecting and the identity proof have no effect on modelled state before the hello,
so their delay is that of the hello.

### Bridge (`bridge.manager.c`, `rrbridge/main.c`, `module.kiwi.c`)

One receiver: `b` is `struct bridge_child`, `kid` the process with its Kiwi driver, `up`
and `down` the socket pair. `rrserver_bridges_poll` is one action that applies `handle`
to one record of the socket after the other (`read` in `Receive`; the code reads eight per
poll, more than are ever outstanding in the run) and goes on with demand, deadlines, reaping, spawning and sweeping in
the code's order. The process acts between polls: it starts, reports its state,
executes one setting at a time, loses the receiver, stops responding, crashes, exits.
A deadline passes only for a process that does not respond; retry delays end at any
poll. `owed` and `choice` are history. `choice` says what the operators chose and what
became of it: the choice in force, the one the receiver was asked for and the one that
waits behind it. It follows what they ask, the answers and the outages, and never reads
what the supervisor keeps, so that `LastChoiceWins` compares two accounts of the same
events. An outage takes only what was sent and not granted.

### Serial (`serial.c`, `rrclient/sercom.c`)

Both ends of a tunnel and the connection between them, which keeps order. The client's
handlers return an edited binding and the messages to send (`host_sync` at the end of
most of them included). A broken connection is forgotten by the client at once and by
the server later, so an old session and a new one exist side by side. A block stands for
the bytes of a frame; `wrote` and `heard` record what reached the device and the
endpoint.

## 3. Runs

| Run | Instance | Shows |
|---|---|---|
| `worker_release` | 2 VFOs, 4 submissions of PTT jobs, limit 2 | a key-down older than an accepted release is never still queued (`NoStaleKeyDown`); once released, off the air unless the radio reported failure (`ReleasedStaysReleased`); the cached transmit state ends up the last one seen (`CacheFresh`); what was tracked as keyed is released at exit (`ShutdownUnkeys`); the worker implements `Keying` (`KeepsPromise`) |
| `worker_queue` | 1 VFO, 4 submissions of polls, reads and PTT jobs, limit 2, fair | exact accounting; the documented bound, queue order and one poll at a time (`QueueDiscipline`); every accepted job is delivered (`JobsComplete`) |
| `worker_abandon` | 1 VFO, 2 submissions | finding 1 |
| `ptt_one_rig` | 2 clients, 1 rig, strict accounting, all causes, 3 requests pending | an emergency stop silences (`HaltSilences`) and is lifted only when a release is on its way to what is on the air (`ResetReleases`); no phantom talker; a release always accepted; no row of the log lost (`RowsClosed`) |
| `ptt_two_rigs` | 1 client, 2 rigs | nothing is on the air unaccounted for; one transmission across rigs; no session row without a transmission or a release behind it |
| `ptt_wrong_retry` | 1 client, 2 rigs | finding 2 |
| `relay` | one remote operator, 1 rig, fair | an unattended transmission is being ended (`UnattendedEnds`); one whose operator is not heard ends although the radio refuses releases and no talk timeout helps (`SilentRemoteEnds`); with the talk timeout every transmission ends (`TimeoutEnds`) |
| `links_ring` | 3 servers, two dialing each other and both joined to the third, 3 sockets, 1 break | sound trees, branch ownership, agreement on a simultaneous dial, no stalled handshake, agreement of all trees when quiet |
| `links_square` | 4 servers dialing round a square, 4 sockets | two components joined at two places at once: nobody is blocked |
| `supervision` | 2 noobs, 2 elmers, 2 requests of 2 slots, 3 tickets, fair | a noob on the air is supervised, except until the next tick (`SupervisedOnAir`); consent is explicit, for this ticket and unexpired (`ConsentExplicit`); a transmission without it ends although releases are refused (`LapseEndsTransmission`) |
| `bridge` | 4 settings, 2 connection attempts, 2 faults, fair | callbacks are neither lost nor doubled and all are called (`NoLostCallback`, `CallbacksAnswered`); when quiet what would be restored is the last choice that was neither refused nor already sent when the receiver dropped, across outages and processes, and the receiver has it unless it refused to go back to it (`LastChoiceWins`); an unneeded process ends, a wanted receiver comes online (`ReceiverReleased`, `ComesOnline`) |
| `serial` | 2 devices, 2 connections, 2 blocks each way, 2 streams per connection, 2 upsets, fair | no command reaches a device twice or out of order (`WrittenOnce`); the endpoint hears an attachment from its start without a gap (`HeardInOrder`); no endpoint is shown as connected to nothing (`NoGhost`); a sent block is resolved (`SendResolves`) |

Where a module has a type invariant it is checked in the run, as an invariant or as the
first conjunct of another one.

**Bounds.** `QueueLimit` 2 (64 in the code) is the smallest limit at which normal
jobs and the reserve for releases are both exhausted. Four submissions hold a
key-down running, a second one queued, a release that cancels it and another release
that shares it. Two VFOs (and in one run two rigs) suffice for the properties about
confusing one with another. `MaxPending` 3 in `ptt_one_rig` has a superseded key-down, its release and
the next key-down pending together. Three sockets in the ring allow the simultaneous
dial plus the closing of a cycle; one break hits every phase. The square is the
smallest network in which two disjoint components can be joined at two places
concurrently. With two requests and two slots a full table, a second room-mate and a
supervisor who replaces an idle one occur; three tickets have one revoked and one
replaced. Two faults put a failure into the recovery from another; two attempts (three
in the code) have a driver that reconnects and one that stops. Two connections, two
blocks and two upsets have an old session beside a new one, a block in flight when it
breaks, and a stream identifier exhausted or answered late.

**Deadlock** is checked for the worker and for supervision. It is not for `Ptt` and
`Relay` (the process ends after shutdown), `Links` (once all dials are used and links
are up, nothing need happen), `Bridge` (a removed receiver is gone) and `Serial` (the
connections are used up).

**Symmetry.** Client identities are interchangeable; symmetry is used in
`ptt_one_rig` only, where nothing but safety is checked. Server identifiers are ordered
by the tie-break, so `Links` has none.

**Fairness.** *Worker*: weak fairness of the worker thread (a thread with work is
scheduled, and the backend calls have timeouts), of the drain (every loop cycle) and
of `Free`. *Ptt* (`Responsive`): weak fairness of the worker, of the completions and of
the release loop (straight-line code); strong fairness of `Drain` and `RetryStop`,
which the loop and the timers come round to however many client events arrive; and
strong fairness of `ReleaseSucceeds`: a radio sent releases again and again
acknowledges one. Without the last the property cannot hold, the code can only retry.
*Relay* adds strong fairness of the watchdog, which the main loop calls every cycle. The
talk timeout has none: it is a premise of `TimeoutEnds` only. *Supervision*: the clock
ticks, and releases are not refused for ever. *Bridge*: the server goes on polling, and
a process that is neither stuck nor dead does its work; a stuck process has none.
*Serial*: each end reads what has arrived, and the server polls each device. These
three are written as `[]<>~Due \/ []<><<A>>_vars` with `Due` the condition under which
`A` can be taken, which says the same as weak fairness. Client actions, key-downs,
faults and upsets have no fairness.

## 4. Proofs

All proofs are checked by TLAPS with Z3, Zenon and LS4. They hold for every value of
the constants that meets the named assumptions of the modules (`ConstantsAssumption`,
`LinkTreeAssumption`, `LinksAssumption`, `SerialAssumption`, `BridgeAssumption` and those of
`Ptt`, `Relay` and `Supervision`): numbers
are natural, sets that are counted are finite, `Server` is a set of naturals, markers are
not members, a table has room for its own server, no server dials itself.

| Proof module | Theorems about the runs' properties | Inductive invariant |
|---|---|---|
| `BackendWorkerProofs` | `TypeOK`, `Accounting`, `NoStaleKeyDown`, `ReleasedStaysReleased` | `IInv` |
| | `ShutdownUnkeys`, `KeepsPromise`, `CacheFresh`, `QueueDiscipline` | `IInv`, `QInv`, `CInv`, `UInv` |
| `PttProofs` | `ReleaseAccepted`, `HaltSilences`, `ResetReleases` | `PInv` |
| `TransmissionProofs` | `RowsClosed`; under `OneStop` `NoPhantomTalker`, `OneTransmission`, `AirAccounted`, `SessionsReal` | `Transmission` |
| | with one rig `UnattendedEnds` of `Relay` | `Ending` |
| | `RelayTypeOK` (with `TypeOK` of `Ptt`) | `Owed`, `Flagged`, `Tuned` |
| `SupervisionProofs` | `TypeOK`, `SupervisedOnAir`, `ConsentExplicit` | `SInv` |
| `LinksProofs` | `TreesSound`, `BranchesOwned`, `TieBreakAgrees`, `HandshakeMoves` | `TreeOK`, `TreesInv`, `LinkInv` |
| | `NeverBlocked`, `TreesAgree` | `MirrorInv` |
| `BridgeProofs` | under `EndlessId` `NoLostCallback`, `LastChoiceWins` | `Inv`, of which `BInv` is the state's |
| `SerialProofs` | `WrittenOnce`, `HeardInOrder`, `NoGhost` (with `TypeOK`) | `SerialInv`, `Bounded` |

**BackendWorkerProofs.** The properties are not inductive alone. `IInv` adds
`WorkerState` (a job is running exactly in the phases between taking and finishing;
`Accounting` and the finish step need it), `Numbered` (no accepted
release has a number above `submitted`, so a new key-down is newer than all of them),
`Bounded` (the documented bound on `outstanding`) and `ReleaseSent` (a release about to be finished
took its VFO off the air unless failure was reported: finishing clears `off_jobs`, and
this is what replaces it in `ReleasedStaysReleased`). One step per action. `ListsProofs`
proves what filtering, editing and joining lists does to their lengths and elements.

What the refinement and the other properties need is added in three layers.

- `QInv`: the queue is ordered (releases first, polls last, the rest by number), and
  `off_jobs` names exactly the release that is queued or running, never both. With it a
  key-down is taken only when no release waits, which is the step of `Keying` that could
  fail; each action of the code is then one step of the service or none. `FinalSent` says
  how far the last releases of the thread have come (`ShutdownUnkeys`).
- `CInv`: a finished job carries the state the worker saw when it finished, and the
  results still to be replayed, in order, end in that state (`ResultTrue`, `ReplayTrue`).
  `CacheFresh` speaks of the last result only; to survive `DrainJob`, which consumes the
  first, it must hold of every suffix.
- `UInv`: every submission is in exactly one place of one list (queue, running, results,
  replay, followers), so a poll flag is cleared by the job that set it and by no other, and
  the normal jobs are counted without being counted twice: they stay within `QueueLimit`
  because at a submission there were fewer of them than `outstanding`.

So every safety property of `BackendWorker` is proved; only `JobsComplete` is not.

**PttProofs** compares two orders. The requests of a rig are answered along one *line*:
the results being replayed, those the worker has finished, the job it runs, its queue.
The server keeps the same requests in its list `pending`, newest first. `PInv` says that
the two agree: each item of the line answers requests of its own rig and VFO, a key-down
is ahead of a release only if that release or a later one is newer, and a release is ahead of newer
key-downs only. From it:

- `Counted`: a worker holds at most `QueueLimit` jobs plus one for each VFO whose newest
  request is a release. A release is refused only beyond the reserve, so none is
  (`ReleaseAccepted`).
- `NewestSilences`: where the newest request for a VFO is a release, that release is
  underway or the transmitter is off or reported failure. It is needed because a second
  release is accepted without a job of its own.
- `HaltedRunning`: a key-down of a halted rig that is just being executed has a release
  behind it, since the worker's look at the stop and the call are two steps
  (`HaltSilences`).
- `LoopReleases`: while the release loop of a reset runs, every VFO it has passed has a
  release underway, which is what `ResetReleases` asks when the loop ends.

**TransmissionProofs** relates the four places in which the server keeps a transmission:
the talker, the list `pending`, the confirmed transmissions with what is on the air, and the log.
`PInv` speaks of one rig's line at a time; these properties compare it with globals that
every handler changes. `Transmission` joins it with

- `GInv`: at most one pending key-down still counts (`Live`: not superseded), it is the
  talker's, on `ptt_rig`, with no release pending elsewhere, and a loop that is running has
  yet to come to it;
- `LiveLast`: behind that key-down nothing in its line releases its VFO; so, when it is
  confirmed, nothing underway ends it, and
- `TInv`: a talker without a pending key-down has a confirmed transmission, and any other confirmed
  transmission of an unblocked server has a release coming (`Closing`). A second key-down
  is let through only when the first is closing on the same rig, and its result comes behind
  that release (`OneTransmission`, `NoPhantomTalker`);
- `AInv`: a transmitter on the air is confirmed, or failed, or a release is in hand for it, or
  the last result in its line is that of its key-down (`AirAccounted`). What makes it inductive
  is that a key-down that no longer counts is overtaken by a release, or is taken back;
- `LogSound` and `SessionHeld`: each open row is the current one of a VFO unless a write
  failed and locked transmission (`RowsClosed`), and a VFO with a session is the talker's, or
  being released, or retried (`SessionsReal`). `LogStopAll` is a function defined by recursion over a set of VFOs;
  its result is proved by taking a least counterexample.

The hypothesis `OneStop` says that there is one rig, or that nobody uses the emergency stop.
It is needed: with two rigs the stop of one clears the talker of the other, and
`LiveHeld`, `OneTransmission` and `AirAccounted` are false (section 5). `RowsClosed` is proved
without it.

**TransmissionProofs, sessions of linked servers.** A session of a linked server adds ways to lose the transmitter that a
connection does not have: the watchdog, the loss of its media, the removal of the session
with or without notice to `ptt.c`. `RelaySteps` shows that whatever it does is a step of
`Ptt`, or forgets the row of a connection. What has to be shown is that `rr_relay_remove_remote`
never meets a refused release: its retry would not be a step of `Ptt`. So `PInv` and, with one rig,
`Transmission` without its log hold here too, and two facts are added for `UnattendedEnds`:

- `ConfirmedEnds`: a confirmed transmission is the talker's, or a release of it is pending,
  or the stop is retried;
- `NoneAcknowledged`: a VFO is not confirmed any more once the success of a release is in its
  line. When that result is replayed the pending release goes, which `ConfirmedEnds`
  survives only because of this; and a later key-down cannot be confirmed in between, as
  it would have to be confirmed while the release is still to be reported.

The hypothesis is one rig, not `OneStop`: the retry of a stop releases one rig
and clears the flag of all (finding 2).

**TransmissionProofs, types.** `PttTypeOK` and `RelayTypes` have no hypothesis. The conjunct
that takes work is that `outstanding` is a natural number: it is raised by a submission and
lowered by each completion, and were it lowered once too often, the limit of the queue would no
longer hold. `Owed` says that every completion slot of the jobs in a rig's line, queued,
running, finished or replayed, was counted when it was submitted. One job can have several
slots, and a handler moves them: a cancelled key-down passes to the results, a second release shares the
job of the first. `Slots` numbers the slots of a queue, and each edit of a queue is shown to
map them one to one. A free row of the log exists by the pigeonhole principle (`NewRowIs`).
The remaining conjuncts are `Flagged` for `Ptt` and `Tuned` for `Relay`.

**SupervisionProofs.** `SInv` says of every entry that its ticket was issued, is not
spent, and that each supervisor whose time has not run out consented to it; it bounds
the table and gives each elmer one slot of an entry. The handlers are sequences of
assignments around a tick, so the entry part (`Good`) is stated of the state record they
pass along and proved for each assignment. Two facts are less obvious. Tickets are unique:
otherwise spending one could leave another entry granted on it. Nobody in the table is
off-line: a session that takes over an address would inherit the entry otherwise, and
this is the reason why `closed` has to clear before the address is free.

**LinksProofs**, the tree. It proves that attaching any snapshot the code accepts (`AttachSound`),
adding (`AddSound`) and removing (`RemoveSound`) preserve `TreeOK`, and that removing a
server leaves all other branches as they were (`RemoveKeepsOtherBranches`). `NoCycle`
is stated without recursion, as "no set of entries is closed under parent"; for
`AttachSound` the entry of a set with fewest steps to the peer is the one whose parent
is outside, and for `RemoveSound` the marks are the smallest closed set.

**LinksProofs**, the network. `TreesInv`, for `TreesSound`, says nothing about
messages: `link.c` changes a tree only through `link.tree.c`, which checks whatever it
is given, so the soundness of a table does not depend on peers keeping to the protocol.
The other properties do depend on the order of things. `LinkInv` has: a socket is
used once, and a closing session hears nothing; each end has said no more than the other
heard plus what is in the stream, so a handshake with empty streams is finished
(`HandshakeMoves`); an open outgoing attempt is its server's current one, so only an
accepting end loses a tie, and the rule that decides (`Favoured`) gives the same answer at
both ends (`TieBreakAgrees`); the heads of the branches of a tree are the peers of the
admitted sessions, one each (`BranchesOwned`). The steps of `link.c` are sorted by what
they do to sessions, so each part is proved per kind of step and not per action.

**LinksProofs**, the mirror. `NeverBlocked` and `TreesAgree` relate the trees of all
servers and everything that is on its way between them. `MirrorInv` says what both rest on:

- `Mirror`: the branch a session has attached (`Seen`), changed by the unread messages in
  turn (`Follows`), ends as what the other end has told (`Told`: its own tree without the
  branch behind this link, and only servers that are established there), as long as
  that end is `InStep`, that is, its snapshot is not of an older generation. The
  views in between are named by a function on the positions of the stream, because what
  a recursive definition yields for every stream could not be proved.
- `OneWaiting`: a server admits one session at a time, and `Counted`: the change of
  generation by an admitted session's own branch is counted. Otherwise a session in
  admission could miss what is announced while another becomes established.
- A branch is announced parents first (`AnnounceViews`), so every message that
  introduces a server is read into a view that has its parent: `NeverBlocked`.

At rest the streams are empty, so each branch equals what the peer shows
(`Facing`); `Hangs` is carried from the root down a tree by `NoCycle`, and what one
server knows is what its neighbours know: `TreesAgree`.

**SerialProofs.** The properties say little about messages, but each depends on every
message that is still unread. `SerialInv` has four groups of facts.

- `StreamsGrow`: from the device through the unread frames to the endpoint, identifiers
  never fall, and a device that has accepted a frame meets only frames of its own
  attachment. A frame of an earlier attachment is therefore never taken for one of the present.
- `WInv`, for `WrittenOnce`: blocks in a connection ascend, and block and sequence number
  advance together except where the client starts to count anew (`FramesJoined`,
  `OwnJoined`, `ServerJoined`). The device accepts only the next number, so between two
  accepted frames of an attachment no block is missing; what was written before is older
  than anything pending or unread (`Ledger`). A retry that starts at 1 again on an
  attachment in use is the case to worry about: the number is refused, and the refusal
  closes the device.
- `HInv`, for `HeardInOrder`: a device's buffer continues what it sent on (`Buffered`), and
  it has more than one frame underway only after an acknowledgement, which exists only for
  what was heard (`ReadsHeard`, `FramesSent`).
- `GInv`, for `NoGhost`: the identifier the endpoint goes by, and every one it is about to
  be given by an unread "opened", belongs to an attached device or is followed by an unread
  "closed" or "error".

Each handler of the client is shown to be a `ClientStep` and each of the server a
`ServerStep` (what is posted or answered, and what becomes of a device: stays, is left,
writes, takes a frame, is attached), and each group is proved once per kind of step.
`Bounded` adds the counters of devices nobody uses, which `TypeOK` also covers.

**BridgeProofs.** `handle`, `finish`, `offline`, `disconnect`, `send_setting` and the rest
of the poll are functions of a state record, so the invariant `BInv` is stated of such a
record, and proved of each function and of their composition in the order of
`rrserver_bridges_poll`; the actions of the process follow. Its parts:

- `Phases`: hello, ready and on-line come in this order and need the socket; an empty
  socket once the supervisor's end is closed, a process that runs only with that end open.
- `Requests`: the accounting of the callback, and that a request is pending only while
  the receiver is on-line. With the types, this is `NoLostCallback`.
- `Kept`: the supervisor's `desired`, `requested` and `queued` are the choice in force,
  the one asked for and the one that waits (`choice`). It is what coalescing and outages
  could get wrong.
- `Service`, for `LastChoiceWins`: while the process serves (it runs and was not told to leave)
  the last `STATE` in the socket, or the one the supervisor has seen, is the tuning of
  the driver (`Reported`), and the pending request is in exactly one place
  (`InFlightOnce`): the last record on its way down, at the driver, or answered by the
  last `RESULT` on its way up, which, if it reports success, found the driver tuned
  to what was asked for; on-line with none pending, no request is anywhere (`Unasked`). From the
  first report after an outage until the restore is refused the receiver has the choice
  in force (`Tuned`): a request for another one is the only one on its way, so nothing
  else can have retuned it (`Alone`), while of the restore only the answer can tell.
  A process that does not serve can fall behind in any way: it is
  replaced before the receiver is on-line again.

What one poll reads has no bound, and induction over the list of records is out of the
provers' reach. The lemma `ReceiveInv` takes instead the least number of records after which
`BInv` would fail, with `ReadInv` for the step from its predecessor; that the function
`read` exists is shown in the same way.

The hypothesis `EndlessId` says that identifiers do not run out. The code numbers requests with
`++b->next_request`, 64 bits wide and never reset (`bridge.manager.c:361`), where the model
reuses numbers that are not in flight. With finitely many there would be none to choose
if results were left unread long enough; the run has four, which suffice there.

**Only model-checked:** the liveness properties, because fairness and ENABLED are out of
the provers' reach. Every invariant of a passing run is stated by a theorem; those under
`OneStop`, with one rig or under `EndlessId` only for the behaviours these admit.

## 5. Findings

1. **Shutdown can abandon a keyed transmitter** (`worker_abandon`). The final releases
   (`backend.worker.c:406`) cover VFOs tracked as keyed, and backends record only
   acknowledged key-downs. A key-down that took effect but timed out is not released,
   while the comment at line 402 says that "Shutdown never abandons an already keyed
   transmitter".
2. **The retry can go to another rig** (`ptt_wrong_retry`). A refused key-down has
   already moved `rig.ptt_rig`; `accounting_poll` then releases that rig, clears the
   flag, and the failed release is not tried again
   (`doc/media-adaptation-and-usage.md:155` promises a retry once per second).

Seen while modelling, not made runs of their own. Transmit control:

- a reset is not verified: with a worker the release loop reports success once releases
  are queued, so `events.admin.c:1219` lifts the stop before any reached the radio; its
  comment demands to "Prove hardware key-up while the interlock is still set".
  `ResetReleases` is what does hold;
- a retried release carries the current talker, which `ptt_log_stop` (`ptt.c:300`)
  prefers to the recorded owner of the row, so another operator can be debited;
- a completed forced release of an idle VFO closes, via the talker, that talker's row
  of another VFO;
- with a worker a failed log insert is noticed only after the radio was keyed, although
  `doc/media-adaptation-and-usage.md:152` says it "prevents the radio from being keyed";
- with two rigs the emergency stop of one can leave the other keyed. The stop releases its own
  rig's VFOs, then disarms the talk timeout and clears the talker, whatever rig the talker
  keyed (`ptt.c:791-804`). When the operator of the other rig then disconnects, nobody is
  known to be talking and `ptt_worker_closed` closes only the log row, or, if the key-down
  is still pending, marks it superseded, and its completion returns early (`ptt.c:468`): no release
  is sent and no timeout is left, although `doc/release-checklist.md:66` makes it a stop-ship condition
  if a build "can leave TX keyed after disconnect". With "trip" and "reset" among the `Causes` of
  `ptt_two_rigs` TLC shows `AirAccounted` and `OneTransmission` violated; this is why that run
  leaves it out and the theorems assume `OneStop`;
- `tx_blocked` is never cleared, and the failure of an untracked release is silent.

Relay:

- with a worker a remote session is freed once its release is queued, while
  `doc/media-direct.md:90` says that the server "retains it and retries rather than
  freeing accounting references while TX remains active"; `ptt.c` and `usage.c` learn of it only through the object
  layer's close event, and the relay emits `protocol.session.closed`;
- `whos_talking` skips a retained session, which is no longer authenticated, contrary to
  the comment at `events.c:572`; the departure handler of `usage.c` returns early for it.

Bridge:

- `attempts` is never reset, so after its third lost connection a driver stops for good
  (`module.kiwi.c:879`), while `doc/rrbridge.md:243` describes reconnection with backoff;
- a `RESULT` that is in the socket behind a `STATE` reporting the receiver offline is
  taken for a protocol error, and a healthy process is restarted;
- a tune that was sent when the receiver drops is not restored, only a queued one is, while
  the comment at `bridge.manager.c:317` wants "the latest operator-selected frequency,
  not the previous successful one, if the receiver drops mid-tune". A driver that loses its
  connection fails its request before it reports the receiver offline (`module.kiwi.c:90`),
  and on that `RESULT` the supervisor sends the queued tune, which the report then ends as
  well. `LastChoiceWins` therefore claims nothing for a choice already sent at an outage:
  the one in force before it is restored. A queued tune equal to a desired setting that
  was never acknowledged is dropped as a repetition when the restore is refused; the
  receiver then stays elsewhere, which the property allows after a refused restore
  (`astray`).

Serial:

- "opened" does not say for which device: after a change of rig with an open in flight
  the endpoint is attached to the earlier rig's device (`sercom.c:797`), while
  `doc/serial-interfaces.md:53` says that the unnumbered endpoints "follow the active rig";
- a mode change during an open leaves the device held at the server although the
  endpoint gave it up;
- an open that times out at the client and succeeds later leaves the first frame
  unread and the device waiting for its acknowledgement;
- leaving the mode (`host_sync`) keeps the sequence numbers, so the first block of the
  next attachment is refused as out of sequence and the device is opened once more.

The checked properties hold in spite of these: bytes are lost or an endpoint is left
without its device, but nothing is written twice and no sent block waits for ever.

## 6. Not modelled

- `Ptt`: synchronous (`event_driven`) backends, recording notices, SQL, frequency and
  mode handlers (one worker job each, covered by `BackendWorker`).
- `Links`: identity proof and ACLs, leaf-only, allowed-sites and depth limits, the
  `/link` commands, forwarding of application messages, capabilities, health
  statistics, shutdown. Policy blocks arise in the model only from the path check of
  an introduction.
- `LinkTree`: site names, the spelling of UUIDs; that a snapshot lists nothing twice
  holds by its being a function.
- `Relay`: catalogs, rooms and subscriptions of receive audio, forwarding along routes
  and its error replies; only the owner's side of remote transmission is modelled.
- `Supervision`: tokens (the properties hold without them), invitations, changes of role.
- `Bridge`: capabilities and coverage checks, metadata, media, directory of receivers,
  the other drivers of `rrbridge`, and several receivers (they share nothing).
- `Serial`: GPS services, line settings, USB discovery, partial writes, several bindings
  on one connection.
- `Mesh`: the topology fed to `link.mesh.c` in production is a star of cost-1 edges
  (`link.c:662`, `1043`) and its routes are not used for forwarding.
- Receiver slices: bookkeeping that no audio path depends on yet.
- The components with status `not_modelled` in `PROJECT.json`: device and media I/O,
  table editing, user interfaces and parsing, or planned below. By volume the
  repository is mostly these: GTK and web front ends, CAT dialects, SQL, audio pipelines
  and protocol formatting, which keep little state of their own that a model would add to.

## 7. Plan

Done: worker with its abstract service, transmit control with its log, remote operators,
supervision, link tree, links, bridges, serial tunnels, and the proofs of their invariants.
Next, in this order:

1. `Links`: `/link open` and `/link close`, depth and leaf policies.
2. `Relay`: subscriptions and catalogs across two hops, as messages over `Links`.
3. The codec subprocess manager (`libfwdspmgr`), along the lines of `Bridge`.
4. `Mesh`: the shortest-path search against a reference definition, once forwarding
   uses it.

Runs are merged where one instance answers several questions, so the set stays small
enough to be run as a whole.
