------------------------------- MODULE Bridge -------------------------------
(***************************************************************************)
(* One external receiver: the supervisor in the server (bridge.manager.c), *)
(* the rrbridge process it starts with its Kiwi driver (rrbridge/main.c,   *)
(* module.kiwi.c), and the socket pair between them.                       *)
(*                                                                         *)
(* rrserver_bridges_poll is one action on what the socket holds at that    *)
(* moment; the process takes its steps between polls.  Time is abstract: a *)
(* deadline of the supervisor passes when the process is stuck (a process  *)
(* slower than the deadline is one that was stuck before it), a retry or a *)
(* grace period ends at any poll.  Settings are within the coverage of the *)
(* receiver, so the range and mode checks pass; HEARTBEAT, METADATA,       *)
(* renewed CAPABILITIES and media change nothing here.                     *)
(***************************************************************************)
EXTENDS Integers, Sequences, SequencesExt

CONSTANTS
  Hz, Mode,     \* frequencies and modes of the receiver
  None,         \* no setting
  Configured,   \* the setting the driver starts with
  MaxAttempts,  \* connection attempts of the driver (3 in the code)
  Id,           \* request identifiers: only those in flight are told apart
  MaxFaults     \* bound: crashes, stalls, lost receivers and refusals

Setting == [hz : Hz, mode : Mode]

ASSUME BridgeAssumption ==
  /\ None \notin Setting /\ Configured \in Setting
  /\ MaxAttempts \in Nat \ {0} /\ Id \subseteq Nat \ {0} /\ MaxFaults \in Nat

VARIABLES
  b,        \* struct bridge_child
  kid,      \* the rrbridge process and its kiwi_instance
  up, down, \* records in the socket pair, to the server and to the process
  demand,   \* somebody receives: what bridge_rx_requested returns
  faults,   \* faults so far
  \* History, read by properties only.
  owed,     \* callbacks accepted and not called yet
  choice    \* what operators chose, and what became of it

vars == <<b, kid, up, down, demand, faults, owed, choice>>

Bridge == [
  temporary : BOOLEAN, removed : BOOLEAN, stopping : BOOLEAN,
  fd : BOOLEAN, hello : BOOLEAN, ready : BOOLEAN, online : BOOLEAN,
  idling : BOOLEAN, terminal_failure : BOOLEAN,
  backoff : BOOLEAN,                \* next_retry lies in the future
  desired : Setting \cup {None}, requested : Setting \cup {None},
  queued : Setting \cup {None},     \* queued_tune and the setting queued
  pending : Id \cup {0}, complete : BOOLEAN,
  seen : Setting \cup {None}]       \* the tuning shown to clients

Process == [
  \* none, started, running, stuck, signalled or cut off, exited but not reaped
  proc : {"none", "start", "up", "stuck", "doomed", "zombie"},
  link : {"down", "connecting", "online", "closing", "stopped"},
  attempts : 0..MaxAttempts,
  request : Id \cup {0},            \* host.pending, and the driver's request
  hz : Setting \cup {None},         \* the confirmed setting
  wanted : Setting]

Fresh == [proc |-> "start", link |-> "down", attempts |-> 0, request |-> 0,
          hz |-> None, wanted |-> Configured]

\* The history of choices.  It follows what operators, the driver's answers and
\* outages say, never what the supervisor keeps.
ChoiceHistory == [
  granted : Setting \cup {None},   \* the choice in force
  asked   : Setting \cup {None},   \* the one the receiver was asked for
  waiting : Setting \cup {None},   \* the one accepted behind it
  astray  : BOOLEAN]               \* the receiver refused to go back to granted

NoChoice == [granted |-> None, asked |-> None, waiting |-> None, astray |-> FALSE]

\* The last choice that was neither refused nor lost.
Latest(c) ==
  IF c.waiting # None THEN c.waiting ELSE IF c.asked # None THEN c.asked ELSE c.granted

Settled(c, success) ==
  [c EXCEPT !.granted = IF success THEN c.asked ELSE @, !.asked = None,
            !.astray  = ~success /\ (@ \/ c.asked = c.granted)]

\* An outage takes what was asked for and not granted, but no choice that
\* waited: that is what to go back to.
Survives(c) ==
  [NoChoice EXCEPT !.granted = IF c.waiting # None THEN c.waiting ELSE c.granted]

\* A process in a state in which its inside does not matter any more.
Husk(proc) == [Fresh EXCEPT !.proc = proc]

Init ==
  /\ b \in [temporary : BOOLEAN, removed : {FALSE}, stopping : {FALSE},
            fd : {FALSE}, hello : {FALSE}, ready : {FALSE}, online : {FALSE},
            idling : {FALSE}, terminal_failure : {FALSE}, backoff : {FALSE},
            desired : {None}, requested : {None}, queued : {None},
            pending : {0}, complete : {FALSE}, seen : {None}]
  /\ kid = Husk("none") /\ up = <<>> /\ down = <<>>
  /\ demand = FALSE /\ faults = 0 /\ owed = 0 /\ choice = NoChoice

----------------------------------------------------------------------------
(* The supervisor.  Its functions work on a record of the state. *)

Now == [b |-> b, kid |-> kid, up |-> up, down |-> down,
        owed |-> owed, choice |-> choice]

Become(w) ==
  /\ b' = w.b /\ kid' = w.kid /\ up' = w.up /\ down' = w.down
  /\ owed' = w.owed /\ choice' = w.choice

\* The request ends; its callback, if any, is called.  The requested setting
\* is read only while a request is pending, and forgotten here.
finish(w) ==
  [w EXCEPT !.b = [w.b EXCEPT !.pending = 0, !.complete = FALSE, !.requested = None],
            !.owed = IF w.b.complete THEN @ - 1 ELSE @]

\* Mutant: back to the acknowledged setting.
ReturnToDesired(w) == w.b.desired

\* What to go back to after an outage: a queued tune first.
ReturnTo(w) == IF w.b.queued # None THEN w.b.queued ELSE w.b.desired

\* The receiver is gone.
offline(w) ==
  finish([w EXCEPT
    !.b = [w.b EXCEPT !.online = FALSE, !.seen = None, !.queued = None,
                       !.desired = ReturnTo(w)],
    !.choice = Survives(@)])

disconnect(w) ==
  LET o == offline(w)
  IN  [o EXCEPT
         !.b = [o.b EXCEPT !.fd = FALSE, !.hello = FALSE, !.ready = FALSE],
         !.up = <<>>, !.down = <<>>,
         !.kid = IF @.proc \in {"start", "up", "stuck"} THEN Husk("doomed") ELSE @]

\* A record for the process, which reads nothing after SHUTDOWN.
Sent(w, m) ==
  IF [type |-> "SHUTDOWN"] \in ToSet(w.down) THEN w.down ELSE Append(w.down, m)

InFlight(w) ==
  {w.kid.request} \cup {m.request : m \in {x \in ToSet(w.up) \cup ToSet(w.down) :
                                             x.type \in {"SET", "RESULT"}}}

\* ++next_request: 64 bits, so it differs from every request in flight.
NewRequest(w) == CHOOSE id \in Id : id \notin InFlight(w)

CanSend(w) == w.b.ready /\ w.b.online /\ w.b.pending = 0

\* send_setting when CanSend.  Sending to a process that exited fails.
send_setting(w, s, callback) ==
  LET id == NewRequest(w)
  IN  IF w.kid.proc = "zombie" THEN disconnect(w)
      ELSE [w EXCEPT
              !.down = Sent(w, [type |-> "SET", request |-> id, setting |-> s]),
              !.b = [w.b EXCEPT !.pending = id, !.requested = s, !.complete = callback]]

----------------------------------------------------------------------------
(* control: an operator changes frequency or mode *)

\* The setting a change builds on.
Base(w) ==
  IF w.b.queued # None THEN w.b.queued
  ELSE IF w.b.pending # 0 THEN w.b.requested ELSE w.b.desired

Change(s, property, value) == [s EXCEPT ![property] = value]

\* What the operator means: the change on top of all accepted ones.
Intended(property, value) == Change(Latest(choice), property, value)

\* Mutant: a change with a callback is coalesced like any other.
CoalescesAny(w, callback) ==
  w.b.pending # 0 /\ ~w.b.complete /\ w.b.ready /\ w.b.online

\* Changes without a callback replace each other while one is under way.
Coalesces(w, callback) ==
  w.b.pending # 0 /\ ~w.b.complete /\ ~callback /\ w.b.ready /\ w.b.online

\* RR_CONTROL_PENDING: the change is accepted.
Accepted(w, callback) == [w EXCEPT !.owed = IF callback THEN @ + 1 ELSE @]

control(property, value, callback) ==
  /\ ~b.removed /\ ~b.stopping
  /\ b.desired # None /\ b.online
  /\ LET s == Change(Base(Now), property, value)
         tuned == send_setting(Now, s, callback)
     IN \/ /\ Coalesces(Now, callback)
           /\ Become([Accepted(Now, callback) EXCEPT
                        !.b.queued = s, !.choice.waiting = Intended(property, value)])
        \/ /\ ~Coalesces(Now, callback) /\ CanSend(Now)
           /\ Become(IF tuned.b.fd
                       THEN [Accepted(tuned, callback) EXCEPT
                               !.choice.asked = Intended(property, value)]
                       ELSE tuned)
  /\ UNCHANGED <<demand, faults>>

----------------------------------------------------------------------------
(* handle: a record from the process *)

\* The tuning after a result: a queued setting that differs is sent next.
Flush(w) ==
  LET s == w.b.queued
      idle == [w EXCEPT !.b.queued = None, !.choice.waiting = None]
  IN  IF s = None \/ ~CanSend(w) THEN w
      ELSE IF s = w.b.desired THEN idle
      ELSE send_setting([idle EXCEPT !.choice.asked = w.choice.waiting], s, FALSE)

HandleResult(w, m) ==
  LET done == [w EXCEPT
                 !.b.desired = IF m.success THEN w.b.requested ELSE @,
                 !.choice = Settled(@, m.success)]
  IN  IF m.request # w.b.pending THEN disconnect(w) ELSE Flush(finish(done))

\* The receiver is on the air.  The first report after an outage restores
\* the tuning it had.
HandleOnline(w, m) ==
  LET first == IF w.choice.granted = None THEN m.setting ELSE w.choice.granted
      shown == [w EXCEPT !.b = [w.b EXCEPT !.online = TRUE, !.seen = m.setting],
                         !.choice = [w.choice EXCEPT !.granted = first]]
  IN  IF w.b.desired = None THEN [shown EXCEPT !.b.desired = m.setting]
      ELSE IF w.b.online \/ w.b.pending # 0 THEN shown
      ELSE send_setting([shown EXCEPT !.choice.asked = w.choice.granted],
                        w.b.desired, FALSE)

HandleTerminal(w) ==
  IF w.b.temporary THEN disconnect([w EXCEPT !.b.terminal_failure = TRUE]) ELSE w

handle(w, m) ==
  CASE ~w.b.hello -> IF m.type = "HELLO" THEN [w EXCEPT !.b.hello = TRUE]
                     ELSE disconnect(w)
    [] w.b.hello /\ m.type = "LOG" -> HandleTerminal(w)
    [] w.b.hello /\ m.type # "LOG" /\ ~w.b.ready ->
         IF m.type = "CAPABILITIES" THEN [w EXCEPT !.b.ready = TRUE]
         ELSE disconnect(w)
    [] w.b.ready /\ m.type = "CAPABILITIES" -> w
    [] w.b.ready /\ m.type = "STATE" ->
         IF m.available THEN HandleOnline(w, m) ELSE offline(w)
    [] w.b.ready /\ m.type = "RESULT" -> HandleResult(w, m)
    [] w.b.ready /\ m.type = "HELLO" -> disconnect(w)

\* A record read in the poll.  While idling only diagnostics are looked at,
\* and nothing is read once the descriptor is closed.
Read(w, m) ==
  LET rest == [w EXCEPT !.up = Tail(@)]
  IN  IF ~w.b.fd THEN w
      ELSE IF w.b.idling /\ m.type # "LOG" THEN rest ELSE handle(rest, m)

\* All records that are there, then the end of file of a process that exited.
Receive(w) ==
  LET read[n \in 0..Len(w.up)] == IF n = 0 THEN w ELSE Read(read[n - 1], w.up[n])
      r == read[Len(w.up)]
  IN  IF r.b.fd /\ r.kid.proc = "zombie" THEN disconnect(r) ELSE r

----------------------------------------------------------------------------
(* rrserver_bridges_poll *)

\* Nobody receives any more: ask the process to leave.
Idle(w) ==
  LET i == [w EXCEPT !.b = [w.b EXCEPT !.idling = TRUE, !.backoff = FALSE]]
  IN  IF w.b.fd THEN offline([i EXCEPT !.down = Sent(w, [type |-> "SHUTDOWN"])])
      ELSE i

\* Mutant: only a receiver on the air is released.
DemandWhenOnline(w, wanted) ==
  IF wanted THEN [w EXCEPT !.b.idling = FALSE]
  ELSE IF w.b.idling \/ ~w.b.online THEN w ELSE Idle(w)

Demand(w, wanted) ==
  IF wanted THEN [w EXCEPT !.b.idling = FALSE]
  ELSE IF w.b.idling THEN w ELSE Idle(w)

\* Mutant: deadlines apply to the handshake only.
ExpireHandshake(w, expired) ==
  IF expired /\ w.b.fd /\ ~w.b.ready THEN disconnect(w) ELSE w

Expire(w, expired) == IF expired /\ w.b.fd THEN disconnect(w) ELSE w

\* Mutant: a process is not started again after it exited.
ReapForgets(w, wanted) ==
  IF w.kid.proc # "zombie" THEN w ELSE [disconnect(w) EXCEPT !.b.backoff = TRUE]

Reap(w, wanted) ==
  IF w.kid.proc # "zombie" THEN w
  ELSE [disconnect(w) EXCEPT !.kid = Husk("none"), !.b.backoff = wanted /\ ~w.b.idling]

spawn_child(w) ==
  [w EXCEPT !.b = [w.b EXCEPT !.fd = TRUE, !.hello = FALSE, !.ready = FALSE,
                           !.idling = FALSE],
            !.kid = Fresh]

Spawn(w, wanted, fails) ==
  IF ~wanted \/ w.kid.proc # "none" \/ w.b.backoff THEN w
  ELSE IF fails THEN [w EXCEPT !.b.backoff = TRUE] ELSE spawn_child(w)

\* destroy() disconnects and stops the process.
websdr_remove(w) == [disconnect(w) EXCEPT !.b.removed = TRUE, !.kid = Husk("none")]

Sweep(w, wanted, unused) ==
  IF w.b.temporary /\ \/ w.b.terminal_failure /\ w.kid.proc = "none"
                      \/ unused /\ ~wanted
    THEN websdr_remove(w) ELSE w

\* due: the retry delay is over; grace: so is the time to leave; late: a
\* control, handshake or heartbeat deadline passed; fails: no process could be
\* started; unused: a temporary receiver was idle for long enough.
Polled(due, grace, late, fails, unused) ==
  LET wanted == demand /\ ~b.terminal_failure
      w0 == Demand([Now EXCEPT !.b.backoff = @ /\ ~due], wanted)
      w1 == Expire(w0, grace /\ w0.b.idling)
      w2 == Expire(Receive(w1), late)
      w3 == Spawn(Reap(w2, wanted), wanted, fails)
  IN  Sweep(w3, wanted, unused)

rrserver_bridges_poll(due, grace, late, fails, unused) ==
  /\ ~b.removed /\ ~b.stopping
  /\ late => kid.proc = "stuck"
  /\ fails => faults < MaxFaults /\ kid.proc \in {"none", "zombie"} /\ demand
  /\ unused => b.temporary /\ ~demand
  /\ UNCHANGED demand
  /\ faults' = IF fails THEN faults + 1 ELSE faults
  /\ Become(Polled(due, grace, late, fails, unused))

\* The server stops: every process is told, waited for and stopped.
rrserver_bridges_stop ==
  /\ ~b.stopping
  /\ Become([disconnect(Now) EXCEPT !.b.stopping = TRUE, !.kid = Husk("none")])
  /\ UNCHANGED <<demand, faults>>

\* Somebody starts or stops to receive.
Subscribe ==
  /\ ~b.removed /\ ~b.stopping
  /\ demand' = ~demand
  /\ UNCHANGED <<b, kid, up, down, faults, owed, choice>>

----------------------------------------------------------------------------
(* The rrbridge process *)

Host(k, out, in) ==
  /\ kid' = k /\ up' = out /\ down' = in
  /\ UNCHANGED <<b, demand, owed, choice>>

State(setting) ==
  [type |-> "STATE", available |-> setting # None, setting |-> setting]

Result(id, success) == [type |-> "RESULT", request |-> id, success |-> success]

Fault == faults < MaxFaults /\ faults' = faults + 1

\* main(): the handshake.
Start ==
  /\ kid.proc = "start"
  /\ Host([kid EXCEPT !.proc = "up"],
          up \o <<[type |-> "HELLO"], [type |-> "CAPABILITIES"], State(None)>>, down)
  /\ UNCHANGED faults

\* kiwi_set_receiver: what becomes of a setting.  A command may be refused
\* because the connection is stalled.
SetReceiver(m) ==
  \/ /\ kid.link # "online"
     /\ Host(kid, Append(up, Result(m.request, FALSE)), Tail(down))
     /\ UNCHANGED faults
  \/ /\ kid.link = "online" /\ m.setting = kid.hz
     /\ Host(kid, Append(up, Result(m.request, TRUE)), Tail(down))
     /\ UNCHANGED faults
  \/ /\ kid.link = "online" /\ m.setting # kid.hz
     /\ Host([kid EXCEPT !.wanted = m.setting, !.request = m.request], up, Tail(down))
     /\ UNCHANGED faults
  \/ /\ kid.link = "online" /\ m.setting # kid.hz
     /\ Host(kid, Append(up, Result(m.request, FALSE)), Tail(down))
     /\ Fault

\* A record from the server.  A second setting while one is under way, and
\* SHUTDOWN, end the process.
Command ==
  /\ kid.proc = "up" /\ down # <<>>
  /\ LET m == Head(down)
     IN \/ /\ m.type = "SHUTDOWN" \/ kid.request # 0
           /\ Host(Husk("zombie"), up, <<>>)
           /\ UNCHANGED faults
        \/ m.type = "SET" /\ kid.request = 0 /\ SetReceiver(m)

\* kiwi_poll: the next connection attempt.
Connect ==
  /\ kid.proc = "up" /\ kid.link = "down" /\ kid.attempts < MaxAttempts
  /\ Host([kid EXCEPT !.link = "connecting", !.attempts = @ + 1], up, down)
  /\ UNCHANGED faults

\* kiwi_receive: audio with the NEW_FREQ flag confirms the wanted setting.
NewFreq ==
  /\ kid.proc = "up"
  /\ kid.link = "connecting" \/ (kid.link = "online" /\ kid.request # 0)
  /\ Host([kid EXCEPT !.link = "online", !.hz = kid.wanted, !.request = 0],
          (Append(up, State(kid.wanted))) \o
            (IF kid.request # 0 THEN <<Result(kid.request, TRUE)>> ELSE <<>>),
          down)
  /\ UNCHANGED faults

\* unavailable: the records sent, the failed request first.
Unavailable(k) ==
  (IF k.request # 0 THEN <<Result(k.request, FALSE)>> ELSE <<>>) \o <<State(None)>>

\* The confirmed setting is what the next connection asks for.
Dropped(k, link) ==
  [k EXCEPT !.link = link, !.request = 0,
            !.wanted = IF k.hz # None THEN k.hz ELSE @]

\* fail: a timeout or bad stream; the connection is to be closed.
Fail ==
  /\ kid.proc = "up" /\ kid.link \in {"connecting", "online"}
  /\ Host(Dropped(kid, "closing"), up \o Unavailable(kid), down)
  /\ Fault

\* The connection is closed, after fail or by the receiver.
Close ==
  /\ kid.proc = "up" /\ kid.link \in {"connecting", "online", "closing"}
  /\ LET last == kid.attempts >= MaxAttempts
     IN Host(Dropped(kid, IF last THEN "stopped" ELSE "down"),
             up \o Unavailable(kid) \o
               (IF last THEN <<[type |-> "LOG"]>> ELSE <<>>), down)
  /\ IF kid.link = "closing" THEN UNCHANGED faults ELSE Fault

\* The process gets stuck, or crashes.
Stick ==
  /\ kid.proc \in {"start", "up"}
  /\ Host(Husk("stuck"), up, down)
  /\ Fault

Crash ==
  /\ kid.proc \in {"start", "up"}
  /\ Host(Husk("zombie"), up, <<>>)
  /\ Fault

\* SIGTERM, the closed socket or at last SIGKILL end the process.
Die ==
  /\ kid.proc = "doomed"
  /\ Host(Husk("zombie"), up, down)
  /\ UNCHANGED faults

----------------------------------------------------------------------------
Supervisor ==
  \/ \E due, grace, late, fails, unused \in BOOLEAN :
       rrserver_bridges_poll(due, grace, late, fails, unused)
  \/ \E callback \in BOOLEAN :
       \/ \E hz \in Hz : control("hz", hz, callback)
       \/ \E mode \in Mode : control("mode", mode, callback)
  \/ rrserver_bridges_stop
  \/ Subscribe

Driver ==
  \/ Start \/ Command \/ Connect \/ NewFreq \/ Die
  \/ Fail \/ Close \/ Stick \/ Crash

Next == Supervisor \/ Driver

Spec == Init /\ [][Next]_vars

\* A poll at which everything that was waited for is over.
FullPoll == rrserver_bridges_poll(TRUE, TRUE, kid.proc = "stuck", FALSE, FALSE)

\* Such a poll changes something.
PollDue ==
  /\ ~b.removed /\ ~b.stopping
  /\ Polled(TRUE, TRUE, kid.proc = "stuck", FALSE, FALSE) # Now

\* What the process does unless it fails: its loop reads what the server sent,
\* connects, gets the receiver's answer or closes, in whatever order.
Works == Start \/ Command \/ Connect \/ NewFreq \/ Die
           \/ (kid.link = "closing" /\ Close)

WorkDue ==
  \/ kid.proc \in {"start", "doomed"}
  \/ /\ kid.proc = "up"
     /\ \/ down # <<>> \/ kid.link \in {"connecting", "closing"}
        \/ kid.link = "down" /\ kid.attempts < MaxAttempts
        \/ kid.link = "online" /\ kid.request # 0

\* The main loop polls for ever, and a process that is not stuck goes on.
\* These are WF_vars(FullPoll) and WF_vars(Works), PollDue and WorkDue being
\* the states in which the actions can be taken, written out for TLC.
FairSpec ==
  /\ Spec
  /\ []<>~PollDue \/ []<><<FullPoll>>_vars
  /\ []<>~WorkDue \/ []<><<Works>>_vars

----------------------------------------------------------------------------
(* Properties *)

Record ==
  [type : {"HELLO", "CAPABILITIES", "LOG", "SHUTDOWN"}]
    \cup [type : {"STATE"}, available : BOOLEAN, setting : Setting \cup {None}]
    \cup [type : {"RESULT"}, request : Id, success : BOOLEAN]
    \cup [type : {"SET"}, request : Id, setting : Setting]

\* Type invariant of the supervisor, the process and the socket.
TypeOK ==
  /\ b \in Bridge /\ kid \in Process
  /\ up \in Seq(Record) /\ down \in Seq(Record)
  /\ ~b.fd => up = <<>> /\ down = <<>>
  /\ demand \in BOOLEAN /\ faults \in 0..MaxFaults /\ owed \in Nat
  /\ choice \in ChoiceHistory

\* "never silently discard another caller's completion notification": a
\* callback accepted by control is the pending one or has been called, once.
\* (With the type invariant; no record outlives the socket it was sent on.)
NoLostCallback ==
  /\ TypeOK
  /\ owed = IF b.pending # 0 /\ b.complete THEN 1 ELSE 0

Quiet ==
  b.online /\ b.pending = 0 /\ up = <<>> /\ down = <<>> /\ kid.proc = "up"

\* When nothing is under way, what clients see is what the receiver has, and
\* the supervisor would restore the operator's last choice, through any number
\* of outages and processes: no change is lost or merged with an older one by
\* coalescing, one that waits when the receiver drops is kept, and one that was
\* refused, or was already sent when the receiver dropped, leaves the choice
\* that was in force before it.  The receiver has that setting too, unless it
\* refused to go back to it since it was last lost.
LastChoiceWins ==
  Quiet => /\ b.queued = None /\ b.seen = kid.hz
           /\ b.desired = Latest(choice)
           /\ choice.astray \/ kid.hz = Latest(choice)

\* Demand ends or the server does.
Over == ~demand \/ b.removed \/ b.stopping

\* Every callback is called, also when the process is stuck or crashes.
CallbacksAnswered == []<>(owed = 0)

\* "The last user leaving/disconnecting releases the receiver": a process that
\* nobody needs ends, whatever state it was in when demand went away.
ReceiverReleased == []<>(kid.proc = "none" \/ ~Over)

\* A receiver somebody wants comes on the air, through crashes, stalls and
\* demand that comes back while its process is leaving, unless the driver
\* used up its attempts.
ComesOnline == []<>(b.online \/ Over \/ kid.link = "stopped")
=============================================================================
