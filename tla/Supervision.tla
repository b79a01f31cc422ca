---------------------------- MODULE Supervision ----------------------------
(***************************************************************************)
(* Session-scoped control-operator consent (supervision.c): a noob may     *)
(* transmit in a room only while an elmer who accepted responsibility for  *)
(* that session and room is active.  All handlers run on the server        *)
(* thread; every one of them begins or ends with the tick that withdraws   *)
(* lapsed consent.                                                         *)
(*                                                                         *)
(* A session stands for the address of its connection, which is reused     *)
(* after it closed.  The token that tells two sessions at one address      *)
(* apart is left out: nothing below relies on it.  Invitations only tell   *)
(* elmers the ticket, so here an elmer may answer any ticket at any time.  *)
(* The tables are sets: at most Requests requests, one per session and     *)
(* room, and at most Slots supervisors in each; which slot of the array    *)
(* holds which is left open.  Roles are fixed.  Transmission is reduced    *)
(* to who holds the channel and whether a forced release was refused; Ptt  *)
(* has the rest.                                                           *)
(***************************************************************************)
EXTENDS Integers, FiniteSets

CONSTANTS
  Noob, Elmer,  \* connections of users who need, and who give, supervision
  NoSession,    \* the NULL connection
  Room,         \* the transmit rooms
  Requests,     \* the slots of requests[]
  Slots,        \* the slots of elmers[] of a request
  Idle,         \* noob.supervisor-idle-seconds
  MaxTickets    \* bound: tickets ever issued

ASSUME SupervisionAssumption ==
  /\ NoSession \notin Noob \cup Elmer
  /\ Noob \cap Elmer = {}
  /\ Requests \in Nat \ {0} /\ Slots \in Nat \ {0}
  /\ Idle \in Nat \ {0} /\ MaxTickets \in Nat

Session == Noob \cup Elmer

VARIABLES
  requests,     \* requests[]: the entries with a client
  online,       \* the sessions that are logged in
  fit,          \* the sessions whose account is enabled, not muted, not expired
  talker,       \* the noob whose is_ptt is set
  ptt_room,
  tickets,      \* tickets issued so far
  \* History, read by properties only.
  consent,      \* <<ticket, elmer>>: accepted and not withdrawn or left since
  spent,        \* tickets that were revoked or closed
  lapse         \* the last tick's release was refused, or an account changed since

vars == <<requests, online, fit, talker, ptt_room, tickets, consent, spent, lapse>>

\* struct supervisor: age is now - active, counted to Idle.
Supervisor == [client : Elmer, age : 0..Idle]

\* struct supervision.  id 0 is the empty ticket.
Entry == [client : Noob, room : Room, id : 0..MaxTickets,
          granted : BOOLEAN, elmers : SUBSET Supervisor]

Init ==
  /\ requests = {}
  /\ online = Session /\ fit = Session
  /\ talker = NoSession /\ ptt_room \in Room
  /\ tickets = 0 /\ consent = {} /\ spent = {} /\ lapse = FALSE

----------------------------------------------------------------------------
eligible(c) == c \in online /\ c \in fit

active(s) == eligible(s.client) /\ s.age < Idle

allowed(q) == q.granted /\ eligible(q.client) /\ \E s \in q.elmers : active(s)

\* The entries of session c for a room (there is at most one).
find(rq, c, room) == {q \in rq : q.client = c /\ q.room = room}

Consented(rq, c, room) == \E q \in find(rq, c, room) : allowed(q)

(***************************************************************************)
(* A handler is the tick and a few assignments around it, so the state it  *)
(* works on is passed along as a record.                                   *)
(***************************************************************************)
Now == [requests |-> requests, talker |-> talker, consent |-> consent,
        spent |-> spent, lapse |-> lapse]

Become(s) ==
  /\ requests' = s.requests /\ talker' = s.talker
  /\ consent' = s.consent /\ spent' = s.spent /\ lapse' = s.lapse

\* Tickets that end take the consent given to them along.
Spend(s, ids) ==
  [s EXCEPT !.spent = @ \cup ids, !.consent = {p \in @ : p[1] \notin ids}]

Lapsed(rq) == {q \in rq : q.granted /\ ~allowed(q)}

Revoked(q) == [q EXCEPT !.granted = FALSE, !.id = 0, !.elmers = {}]

\* Mutant: the release is asked for only when consent is withdrawn.
MustReleaseOnce(s) ==
  \E q \in Lapsed(s.requests) : q.client = s.talker /\ q.room = ptt_room

\* A request of the talker for the room it transmits in is not allowed.
MustRelease(s) ==
  \E q \in find(s.requests, s.talker, ptt_room) : ~allowed(q)

\* rrserver_supervision_tick.  rr_ptt_set_all_off_reason may be refused; then
\* the talker keeps the channel.
tick(s, refused) ==
  LET gone == Lapsed(s.requests)
      swept == Spend(s, {q.id : q \in gone})
  IN  [swept EXCEPT
         !.requests = (@ \ gone) \cup {Revoked(q) : q \in gone},
         !.talker = IF MustRelease(s) /\ ~refused THEN NoSession ELSE @,
         !.lapse = MustRelease(s) /\ refused]

----------------------------------------------------------------------------
Older(q, d) ==
  [q EXCEPT !.elmers =
     {[s EXCEPT !.age = IF @ + d > Idle THEN Idle ELSE @ + d] : s \in @}]

\* The clock moves on by d seconds.  Consent ends with the supervisor's time.
Aged(d) ==
  LET older == {Older(q, d) : q \in requests}
  IN  [Now EXCEPT
         !.requests = older,
         !.consent = {p \in @ : \A q \in older : q.id = p[1] =>
                        [client |-> p[2], age |-> Idle] \notin q.elmers}]

\* Mutant: the tick runs only when consent has lapsed.
TimerWhenLapsing(refused) ==
  /\ UNCHANGED <<online, fit, ptt_room, tickets>>
  /\ \E d \in 1..Idle : Become(IF Lapsed(Aged(d).requests) # {}
                               THEN tick(Aged(d), refused) ELSE Aged(d))

\* The once-per-second timer: now changes here and the tick follows at once.
timer_clock_tick_fn(refused) ==
  /\ UNCHANGED <<online, fit, ptt_room, tickets>>
  /\ \E d \in 1..Idle : Become(tick(Aged(d), refused))

\* Mutant: every request takes another entry.
PlacesNew(rq, c, room) ==
  {[client |-> c, room |-> room, id |-> 0, granted |-> FALSE, elmers |-> {}]}

\* Where check() writes a new ticket: to the session's entry for the room,
\* unless that has one, or else to a free entry if there is any.
Places(rq, c, room) ==
  IF find(rq, c, room) # {} THEN {q \in find(rq, c, room) : q.id = 0}
  ELSE IF Cardinality(rq) < Requests
    THEN {[client |-> c, room |-> room, id |-> 0, granted |-> FALSE, elmers |-> {}]}
    ELSE {}

\* A noob presses PTT: check() with query->request set.  With consent the
\* key-down goes on, unless it is refused elsewhere or somebody is talking;
\* without consent it becomes a request.
Press(c, room) ==
  /\ eligible(c)
  /\ \E refused \in BOOLEAN :
       LET s == tick(Now, refused)
           places == Places(s.requests, c, room)
       IN \/ /\ Consented(s.requests, c, room) /\ s.talker = NoSession
             /\ Become([s EXCEPT !.talker = c])
             /\ ptt_room' = room
             /\ UNCHANGED tickets
          \/ /\ Consented(s.requests, c, room) \/ places = {}
             /\ Become(s)
             /\ UNCHANGED <<ptt_room, tickets>>
          \/ /\ ~Consented(s.requests, c, room) /\ tickets < MaxTickets
             /\ \E q \in places :
                  Become([s EXCEPT !.requests =
                    (@ \ {q}) \cup {[q EXCEPT !.id = tickets + 1]}])
             /\ tickets' = tickets + 1
             /\ UNCHANGED ptt_room
  /\ UNCHANGED <<online, fit>>

\* The talker releases PTT.
Release ==
  /\ talker # NoSession
  /\ Become([Now EXCEPT !.talker = NoSession])
  /\ UNCHANGED <<online, fit, ptt_room, tickets>>

----------------------------------------------------------------------------
(* command: an elmer answers a ticket *)

\* The request that the answer is about.
Answered(id) == {q \in requests : q.id = id /\ eligible(q.client)}

\* The supervisors after e accepts: in its own slot, in a free one, or in
\* that of one who is not active any more; none when all slots are taken.
Joined(q, e) ==
  LET own == {s \in q.elmers : s.client = e}
      idle == {s \in q.elmers : ~active(s)}
      new == [client |-> e, age |-> 0]
  IN  IF own # {} THEN {(q.elmers \ own) \cup {new}}
      ELSE {(q.elmers \ {s}) \cup {new} : s \in idle}
             \cup {T \in {q.elmers \cup {new}} : Cardinality(T) <= Slots}

Accept(e, id) ==
  /\ eligible(e)
  /\ \E q \in Answered(id) : \E elmers \in Joined(q, e) :
       Become([Now EXCEPT
         !.requests = (@ \ {q}) \cup {[q EXCEPT !.granted = TRUE, !.elmers = elmers]},
         !.consent = @ \cup {<<id, e>>}])
  /\ UNCHANGED <<online, fit, ptt_room, tickets>>

\* The elmer's slots are cleared.
Leaves(q, e) == [q EXCEPT !.elmers = {s \in @ : s.client # e}]

Decline(e, id) ==
  /\ eligible(e)
  /\ \E q \in Answered(id), refused \in BOOLEAN :
       Become(tick([Now EXCEPT !.requests = (@ \ {q}) \cup {Leaves(q, e)},
                               !.consent = @ \ {<<id, e>>}], refused))
  /\ UNCHANGED <<online, fit, ptt_room, tickets>>

----------------------------------------------------------------------------
\* Mutant: activity renews whoever is in the table.
RenewedAny(q, c) ==
  [q EXCEPT !.elmers =
     {IF s.client = c THEN [s EXCEPT !.age = 0] ELSE s : s \in @}]

Renewed(q, c) ==
  [q EXCEPT !.elmers =
     {IF s.client = c /\ active(s) THEN [s EXCEPT !.age = 0] ELSE s : s \in @}]

\* A deliberate message of a session: expire first, then renew.
activity(c) ==
  /\ c \in online
  /\ \E refused \in BOOLEAN :
       Become([tick(Now, refused) EXCEPT !.requests = {Renewed(q, c) : q \in @}])
  /\ UNCHANGED <<online, fit, ptt_room, tickets>>

\* A session closes.  The channel it held is released by the departure
\* handler of events.rig.c.
closed(c) ==
  /\ c \in online
  /\ online' = online \ {c}
  /\ \E refused \in BOOLEAN :
       LET own == {q \in requests : q.client = c}
           s == Spend(Now, {q.id : q \in own})
       IN  Become(tick([s EXCEPT
             !.requests = {Leaves(q, c) : q \in @ \ own},
             !.consent = {p \in @ : p[2] # c},
             !.talker = IF @ = c THEN NoSession ELSE @], refused))
  /\ UNCHANGED <<fit, ptt_room, tickets>>

\* A session opens, at an address that may have been another one's.
Login(c) ==
  /\ c \notin online
  /\ online' = online \cup {c}
  /\ UNCHANGED <<requests, fit, talker, ptt_room, tickets, consent, spent, lapse>>

\* An account is muted, disabled or expires, or is restored.
Account(c) ==
  /\ fit' = IF c \in fit THEN fit \ {c} ELSE fit \cup {c}
  /\ lapse' = TRUE
  /\ UNCHANGED <<requests, online, talker, ptt_room, tickets, consent, spent>>

----------------------------------------------------------------------------
Next ==
  \/ \E refused \in BOOLEAN : timer_clock_tick_fn(refused)
  \/ \E c \in Noob, room \in Room : Press(c, room)
  \/ Release
  \/ \E e \in Elmer, id \in 1..tickets : Accept(e, id) \/ Decline(e, id)
  \/ \E c \in Session : activity(c) \/ closed(c) \/ Login(c) \/ Account(c)

Spec == Init /\ [][Next]_vars

\* A tick that finds the talker without consent and whose release is accepted.
Enforce == MustRelease(Now) /\ timer_clock_tick_fn(FALSE)

\* The clock ticks once per second, and the worker does not refuse releases
\* for ever: its queue is drained every cycle.  This is WF_vars(Enforce):
\* Enforce can be taken when the talker must be released, and takes it off.
FairSpec == Spec /\ ([]<>~MustRelease(Now) \/ []<><<Enforce>>_vars)

----------------------------------------------------------------------------
(* Properties *)

\* Type invariant of the request table and the channel; the arrays of the
\* code have room for what the sets hold.
TypeOK ==
  /\ requests \subseteq Entry /\ Cardinality(requests) <= Requests
  /\ \A q \in requests : Cardinality(q.elmers) <= Slots
  /\ online \subseteq Session /\ fit \subseteq Session
  /\ talker \in Noob \cup {NoSession} /\ ptt_room \in Room
  /\ tickets \in 0..MaxTickets
  /\ consent \subseteq (1..MaxTickets) \X Elmer /\ spent \subseteq 0..MaxTickets
  /\ lapse \in BOOLEAN

\* A noob who holds the channel has an active supervisor for that room, except
\* until the next tick after an account changed or a release was refused:
\* whatever elmers answer, leave, fall silent or come back.
SupervisedOnAir ==
  talker # NoSession => Consented(requests, talker, ptt_room) \/ lapse

\* Whoever counts as a supervisor accepted this very ticket in this session,
\* has neither withdrawn nor timed out since, and the ticket was never
\* revoked: consent is not inherited by a later ticket or by a session at the
\* same address, and "activity cannot silently renew consent".
ConsentExplicit ==
  \A q \in requests : q.granted =>
    /\ q.id \notin spent
    /\ \A s \in q.elmers : active(s) => <<q.id, s.client>> \in consent

Stale == talker # NoSession /\ ~Consented(requests, talker, ptt_room)

\* "never let stale consent keep RF active": a transmission without consent
\* ends, or consent comes back, however often the release is refused.
LapseEndsTransmission == []<>~Stale
=============================================================================
