-------------------------- MODULE SupervisionProofs --------------------------
(***************************************************************************)
(* Proofs about Supervision for every number of users, rooms, table sizes, *)
(* idle time and tickets.                                                  *)
(***************************************************************************)
EXTENDS Supervision, FiniteSetTheorems, TLAPS

----------------------------------------------------------------------------
(* The inductive invariant *)

\* An entry fits the table; only a granted one, which has a ticket, has
\* supervisors, and no supervisor has two slots.
EntryOK(q) ==
  /\ q \in Entry
  /\ IsFiniteSet(q.elmers) /\ Cardinality(q.elmers) <= Slots
  /\ \A s, t \in q.elmers : s.client = t.client => s = t
  /\ ~q.granted => q.elmers = {}
  /\ q.granted => q.id # 0

\* A ticket in use was issued and never spent, and every supervisor whose time
\* has not run out consented to it.
Backed(q, given, gone) ==
  /\ q.id \in 0..tickets
  /\ q.id # 0 => q.id \notin gone
  /\ \A s \in q.elmers : s.age < Idle => <<q.id, s.client>> \in given

\* Two entries never share a ticket.
Unique(rq) == \A q, r \in rq : q.id = r.id /\ q.id # 0 => q = r

\* Nobody in the table is off-line.
Present(q, on) == q.client \in on /\ \A s \in q.elmers : s.client \in on

\* Whoever holds the channel has an entry for the room, granted or not.
HasEntry(rq, c) == c # NoSession => find(rq, c, ptt_room) # {}

\* What the handlers keep up between any two of their assignments.
Table(rq) == /\ IsFiniteSet(rq) /\ Cardinality(rq) <= Requests
             /\ \A q \in rq : EntryOK(q)
             /\ Unique(rq)

Good(s) ==
  /\ Table(s.requests)
  /\ \A q \in s.requests : Backed(q, s.consent, s.spent)
  /\ s.consent \subseteq (1..tickets) \X Elmer /\ s.spent \subseteq 0..tickets
  /\ s.talker \in Noob \cup {NoSession}
  /\ HasEntry(s.requests, s.talker)
  /\ s.lapse \in BOOLEAN

SInv ==
  /\ Good(Now)
  /\ \A q \in requests : Present(q, online)
  /\ SupervisedOnAir
  /\ online \subseteq Session /\ fit \subseteq Session
  /\ ptt_room \in Room /\ tickets \in 0..MaxTickets

----------------------------------------------------------------------------
(* The state record the handlers pass along *)

IsState(s) ==
  s = [requests |-> s.requests, talker |-> s.talker, consent |-> s.consent,
       spent |-> s.spent, lapse |-> s.lapse]

\* The current state, and a state with some of its fields assigned.
LEMMA NowFields ==
  /\ IsState(Now) /\ Now.requests = requests /\ Now.talker = talker
  /\ Now.consent = consent /\ Now.spent = spent /\ Now.lapse = lapse
  BY DEF Now, IsState

\* What the tick assigns.
LEMMA TickFields ==
  ASSUME NEW s, IsState(s), NEW refused \in BOOLEAN
  PROVE  LET t == tick(s, refused)
             gone == Lapsed(s.requests)
             ids == {q.id : q \in gone}
         IN  /\ IsState(t)
             /\ t.requests = (s.requests \ gone) \cup {Revoked(q) : q \in gone}
             /\ t.talker = IF MustRelease(s) /\ ~refused THEN NoSession ELSE s.talker
             /\ t.consent = {p \in s.consent : p[1] \notin ids}
             /\ t.spent = s.spent \cup ids
             /\ t.lapse = (MustRelease(s) /\ refused)
<1> DEFINE gone == Lapsed(s.requests)
           ids == {q.id : q \in gone}
           must == MustRelease(s)
           rq == (s.requests \ gone) \cup {Revoked(q) : q \in gone}
           c == {p \in s.consent : p[1] \notin ids}
           u == s.spent \cup ids
           w == Spend(s, ids)
           lp == must /\ refused
           tk == IF must /\ ~refused THEN NoSession ELSE s.talker
<1>1. w = [s EXCEPT !.spent = s.spent \cup ids, !.consent = {p \in s.consent : p[1] \notin ids}]
  BY DEF Spend
<1>2. tick(s, refused) = [w EXCEPT !.requests = (w.requests \ gone) \cup {Revoked(q) : q \in gone},
                                   !.talker = IF must /\ ~refused THEN NoSession ELSE w.talker,
                                   !.lapse = lp]
  BY DEF tick
<1> HIDE DEF gone, ids, must, w, lp
<1>3. /\ w.requests = s.requests /\ w.talker = s.talker /\ w.consent = c /\ w.spent = u
      /\ w = [requests |-> w.requests, talker |-> w.talker, consent |-> c,
              spent |-> u, lapse |-> w.lapse]
  BY <1>1 DEF IsState
<1>4. tick(s, refused) = [w EXCEPT !.requests = rq, !.talker = tk, !.lapse = lp]
  BY <1>2, <1>3
<1> HIDE DEF rq, c, u, tk
<1>5. tick(s, refused) = [requests |-> rq, talker |-> tk, consent |-> c, spent |-> u, lapse |-> lp]
  BY <1>3, <1>4
<1> HIDE DEF tick
<1>6. /\ IsState(tick(s, refused))
      /\ tick(s, refused).requests = rq /\ tick(s, refused).talker = tk
      /\ tick(s, refused).consent = c /\ tick(s, refused).spent = u
      /\ tick(s, refused).lapse = lp
  BY <1>5 DEF IsState
<1> QED
  BY <1>6 DEF rq, tk, c, u, lp, gone, ids, must

----------------------------------------------------------------------------
(* Entries *)

\* The fields of an entry.
LEMMA EntryFields ==
  ASSUME NEW q \in Entry
  PROVE  /\ q.client \in Noob /\ q.room \in Room /\ q.id \in 0..MaxTickets
         /\ q.granted \in BOOLEAN /\ q.elmers \in SUBSET Supervisor
  BY DEF Entry

\* The fields of an entry whose supervisors are replaced.
LEMMA EntryElmers ==
  ASSUME NEW q \in Entry, NEW T \in SUBSET Supervisor
  PROVE  LET r == [q EXCEPT !.elmers = T]
         IN  /\ r \in Entry /\ r.elmers = T
             /\ r.client = q.client /\ r.room = q.room /\ r.id = q.id
             /\ r.granted = q.granted
  BY DEF Entry

\* A revoked entry keeps its session and room, and nothing else.
LEMMA RevokedFields ==
  ASSUME NEW q \in Entry, SupervisionAssumption
  PROVE  /\ Revoked(q) \in Entry
         /\ Revoked(q).client = q.client /\ Revoked(q).room = q.room
         /\ Revoked(q).id = 0 /\ Revoked(q).granted = FALSE /\ Revoked(q).elmers = {}
<1>1. 0 \in 0..MaxTickets
  BY DEF SupervisionAssumption
<1>2. /\ q.client \in Noob /\ q.room \in Room
      /\ q = [client |-> q.client, room |-> q.room, id |-> q.id,
              granted |-> q.granted, elmers |-> q.elmers]
  BY DEF Entry
<1> DEFINE no == FALSE
<1>3. Revoked(q) = [q EXCEPT !.granted = no, !.id = 0, !.elmers = {}]
  BY DEF Revoked
<1>4. no \in BOOLEAN
  OBVIOUS
<1> HIDE DEF no
<1>5. Revoked(q) = [client |-> q.client, room |-> q.room, id |-> 0,
                    granted |-> no, elmers |-> {}]
  BY <1>2, <1>3
<1>6. /\ Revoked(q) \in Entry
      /\ Revoked(q).client = q.client /\ Revoked(q).room = q.room
      /\ Revoked(q).id = 0 /\ Revoked(q).granted = no /\ Revoked(q).elmers = {}
  BY <1>1, <1>2, <1>4, <1>5 DEF Entry
<1> QED
  BY <1>6 DEF no

\* Replacing entries one by one overfills no table and, when tickets are kept
\* or given up, shares none.
LEMMA MapTable ==
  ASSUME NEW rq, IsFiniteSet(rq), Cardinality(rq) <= Requests, Unique(rq),
         SupervisionAssumption,
         NEW F \in [rq -> Entry], \A q \in rq : F[q].id \in {q.id, 0}
  PROVE  LET img == {F[q] : q \in rq}
         IN  IsFiniteSet(img) /\ Cardinality(img) <= Requests /\ Unique(img)
<1> DEFINE img == {F[q] : q \in rq}
<1>1. F \in Surjection(rq, img)
  BY DEF Surjection
<1>2. IsFiniteSet(img) /\ Cardinality(img) <= Cardinality(rq)
  BY <1>1, FS_Surjection
<1>3. Cardinality(img) \in Nat /\ Cardinality(rq) \in Nat /\ Requests \in Nat
  BY <1>2, FS_CardinalityType DEF SupervisionAssumption
<1>4. Unique(img)
  <2> SUFFICES ASSUME NEW q \in rq, NEW r \in rq, F[q].id = F[r].id, F[q].id # 0
               PROVE  F[q] = F[r]
    BY DEF Unique
  <2>1. q.id = r.id /\ q.id # 0
    OBVIOUS
  <2> QED
    BY <2>1 DEF Unique
<1> QED
  BY <1>2, <1>3, <1>4

\* Replacing supervisors one by one takes no more slots.
LEMMA MapElmers ==
  ASSUME NEW T \in SUBSET Supervisor, IsFiniteSet(T), Cardinality(T) <= Slots,
         \A s, t \in T : s.client = t.client => s = t,
         SupervisionAssumption,
         NEW F \in [T -> Supervisor], \A s \in T : F[s].client = s.client
  PROVE  LET img == {F[s] : s \in T}
         IN  /\ img \in SUBSET Supervisor /\ IsFiniteSet(img) /\ Cardinality(img) <= Slots
             /\ \A s, t \in img : s.client = t.client => s = t
<1> DEFINE img == {F[s] : s \in T}
<1>1. F \in Surjection(T, img)
  BY DEF Surjection
<1>2. IsFiniteSet(img) /\ Cardinality(img) <= Cardinality(T)
  BY <1>1, FS_Surjection
<1>3. Cardinality(img) \in Nat /\ Cardinality(T) \in Nat /\ Slots \in Nat
  BY <1>2, FS_CardinalityType DEF SupervisionAssumption
<1> QED
  BY <1>2, <1>3

----------------------------------------------------------------------------
(* The tick *)

\* The tick restores SupervisedOnAir from whatever a handler left behind, and
\* withdraws lapsed consent without touching anybody else's.
LEMMA TickGood ==
  ASSUME NEW s, IsState(s), Good(s), NEW refused \in BOOLEAN, SupervisionAssumption,
         tickets \in 0..MaxTickets
  PROVE  LET t == tick(s, refused)
         IN  /\ IsState(t) /\ Good(t)
             /\ \A q \in t.requests : \E r \in s.requests :
                  q.client = r.client /\ q.elmers \subseteq r.elmers
             /\ t.talker # NoSession =>
                  Consented(t.requests, t.talker, ptt_room) \/ t.lapse
<1> DEFINE t == tick(s, refused)
           rq == s.requests
           gone == Lapsed(rq)
           ids == {q.id : q \in gone}
           F == [q \in rq |-> IF q \in gone THEN Revoked(q) ELSE q]
<1>1. /\ IsState(t)
      /\ t.requests = (rq \ gone) \cup {Revoked(q) : q \in gone}
      /\ t.talker = IF MustRelease(s) /\ ~refused THEN NoSession ELSE s.talker
      /\ t.consent = {p \in s.consent : p[1] \notin ids}
      /\ t.spent = s.spent \cup ids
      /\ t.lapse = (MustRelease(s) /\ refused)
  BY TickFields
<1>2. /\ IsFiniteSet(rq) /\ Cardinality(rq) <= Requests /\ Unique(rq)
      /\ \A q \in rq : EntryOK(q) /\ q \in Entry /\ Backed(q, s.consent, s.spent)
      /\ s.consent \subseteq (1..tickets) \X Elmer /\ s.spent \subseteq 0..tickets
      /\ s.talker \in Noob \cup {NoSession} /\ HasEntry(rq, s.talker)
  BY DEF Good, Table, EntryOK
<1>3. gone \subseteq rq /\ \A q \in gone : q.granted /\ ~allowed(q)
  BY DEF Lapsed
<1>4. \A q \in rq : q \notin gone => ~q.granted \/ allowed(q)
  BY DEF Lapsed
<1>5. /\ F \in [rq -> Entry] /\ \A q \in rq : F[q].id \in {q.id, 0}
  BY <1>2, RevokedFields
<1>7. \A q \in rq : F[q] = IF q \in gone THEN Revoked(q) ELSE q
  OBVIOUS
<1> HIDE DEF F, t, gone, rq
<1>6. t.requests = {F[q] : q \in rq}
  <2>1. t.requests \subseteq {F[q] : q \in rq}
    BY <1>1, <1>3, <1>7
  <2>2. {F[q] : q \in rq} \subseteq t.requests
    BY <1>1, <1>3, <1>7
  <2> QED
    BY <2>1, <2>2
<1> USE DEF rq
<1>8. IsFiniteSet(t.requests) /\ Cardinality(t.requests) <= Requests /\ Unique(t.requests)
  BY <1>2, <1>5, <1>6, MapTable
<1>9. \A q \in rq : EntryOK(F[q])
  <2> SUFFICES ASSUME NEW q \in rq PROVE EntryOK(F[q])
    OBVIOUS
  <2>1. CASE q \in gone
    <3>1. /\ F[q] \in Entry /\ F[q].elmers = {} /\ F[q].granted = FALSE
      BY <1>2, <1>7, <2>1, RevokedFields, ZenonT(60)
    <3>2. IsFiniteSet({}) /\ Cardinality({}) <= Slots
      BY FS_EmptySet DEF SupervisionAssumption
    <3> QED
      BY <3>1, <3>2 DEF EntryOK
  <2>2. CASE q \notin gone
    BY <1>2, <1>7, <2>2
  <2> QED
    BY <2>1, <2>2
<1>10. ids \subseteq 0..tickets
  BY <1>2, <1>3 DEF Backed
<1>11. \A q \in rq : Backed(F[q], t.consent, t.spent)
  <2> SUFFICES ASSUME NEW q \in rq PROVE Backed(F[q], t.consent, t.spent)
    OBVIOUS
  <2>1. CASE q \in gone
    <3>1. F[q].elmers = {} /\ F[q].id = 0
      BY <1>2, <1>7, <2>1, RevokedFields
    <3> QED
      BY <3>1 DEF Backed
  <2>2. CASE q \notin gone
    <3>1. F[q] = q /\ Backed(q, s.consent, s.spent) /\ EntryOK(q)
      BY <1>2, <1>7, <2>2
    <3>2. q.id # 0 => q.id \notin ids
      BY <1>2, <1>3, <2>2 DEF Unique
    <3>3. \A e \in q.elmers : q.id # 0
      BY <3>1 DEF EntryOK
    <3>4. \A e \in q.elmers : e.age < Idle => <<q.id, e.client>> \in t.consent
      BY <1>1, <3>1, <3>2, <3>3 DEF Backed
    <3> QED
      BY <1>1, <3>1, <3>2, <3>4 DEF Backed
  <2> QED
    BY <2>1, <2>2
<1>12. \A c \in Noob : find(rq, c, ptt_room) # {} => find(t.requests, c, ptt_room) # {}
  <2> SUFFICES ASSUME NEW c \in Noob, NEW q \in find(rq, c, ptt_room)
               PROVE  F[q] \in find(t.requests, c, ptt_room)
    OBVIOUS
  <2>1. q \in rq /\ q.client = c /\ q.room = ptt_room
    BY DEF find
  <2>2. F[q].client = c /\ F[q].room = ptt_room
    BY <1>2, <1>7, <2>1, RevokedFields
  <2> QED
    BY <1>6, <2>1, <2>2 DEF find
<1>13. t.talker \in {NoSession, s.talker}
  BY <1>1
<1>14. Good(t)
  <2>1. Table(t.requests)
    BY <1>6, <1>8, <1>9 DEF Table
  <2>2. \A q \in t.requests : Backed(q, t.consent, t.spent)
    BY <1>6, <1>11
  <2>3. t.consent \subseteq (1..tickets) \X Elmer /\ t.spent \subseteq 0..tickets
    BY <1>1, <1>2, <1>10
  <2>4. t.talker \in Noob \cup {NoSession} /\ HasEntry(t.requests, t.talker)
    BY <1>2, <1>12, <1>13 DEF HasEntry
  <2>5. t.lapse \in BOOLEAN
    BY <1>1
  <2> QED
    BY <2>1, <2>2, <2>3, <2>4, <2>5 DEF Good
<1>15. \A q \in t.requests : \E r \in rq : q.client = r.client /\ q.elmers \subseteq r.elmers
  <2> SUFFICES ASSUME NEW r \in rq
               PROVE  F[r].client = r.client /\ F[r].elmers \subseteq r.elmers
    BY <1>6
  <2> QED
    BY <1>2, <1>7, RevokedFields
<1>16. ASSUME t.talker # NoSession, ~t.lapse
       PROVE  Consented(t.requests, t.talker, ptt_room)
  <2>1. t.talker = s.talker /\ ~MustRelease(s)
    BY <1>1, <1>16
  <2>2. PICK q : q \in find(rq, t.talker, ptt_room)
    BY <1>2, <1>16, <2>1 DEF HasEntry
  <2>3. q \in rq /\ allowed(q)
    BY <2>1, <2>2 DEF MustRelease, find
  <2>4. q \notin gone
    BY <1>3, <2>3
  <2>5. q \in t.requests
    BY <1>1, <2>3, <2>4
  <2> QED
    BY <2>2, <2>3, <2>5 DEF Consented, find
<1> QED
  BY <1>1, <1>14, <1>15, <1>16 DEF t

----------------------------------------------------------------------------
(* The handlers *)

\* A handler that replaces entries one by one, and keeps who and where they
\* are for, keeps the table good.
LEMMA MapGood ==
  ASSUME SupervisionAssumption, NEW s, Good(s), NEW t,
         NEW F \in [s.requests -> Entry],
         \A q \in s.requests :
           /\ EntryOK(F[q]) /\ F[q].client = q.client /\ F[q].room = q.room
           /\ F[q].id \in {q.id, 0} /\ Backed(F[q], t.consent, t.spent),
         t.requests = {F[q] : q \in s.requests},
         t.consent \subseteq (1..tickets) \X Elmer, t.spent \subseteq 0..tickets,
         t.talker \in {s.talker, NoSession}, t.lapse \in BOOLEAN
  PROVE  Good(t)
<1>1. IsFiniteSet(t.requests) /\ Cardinality(t.requests) <= Requests /\ Unique(t.requests)
  BY MapTable DEF Good, Table
<1>2. Table(t.requests)
  BY <1>1 DEF Table
<1>3. HasEntry(t.requests, t.talker)
  <2> SUFFICES ASSUME t.talker # NoSession PROVE find(t.requests, t.talker, ptt_room) # {}
    BY DEF HasEntry
  <2>1. PICK q : q \in find(s.requests, t.talker, ptt_room)
    BY DEF Good, HasEntry
  <2>2. F[q] \in find(t.requests, t.talker, ptt_room)
    BY <2>1 DEF find
  <2> QED
    BY <2>2
<1> QED
  BY <1>2, <1>3 DEF Good

\* The end of a handler: what it worked out becomes the state.
LEMMA BecomeSInv ==
  ASSUME SInv, NEW s, Good(s), Become(s), UNCHANGED <<online, fit, tickets, ptt_room>>,
         \A q \in s.requests : Present(q, online),
         s.talker # NoSession => Consented(s.requests, s.talker, ptt_room) \/ s.lapse
  PROVE  SInv'
<1>1. /\ requests' = s.requests /\ talker' = s.talker /\ consent' = s.consent
      /\ spent' = s.spent /\ lapse' = s.lapse
  BY DEF Become
<1>2. /\ Now'.requests = s.requests /\ Now'.talker = s.talker /\ Now'.consent = s.consent
      /\ Now'.spent = s.spent /\ Now'.lapse = s.lapse
  BY <1>1 DEF Now
<1>3. Good(Now)'
  BY <1>2 DEF Good, Backed, HasEntry, find, Table
<1>4. \A q \in requests' : Present(q, online')
  BY <1>1
<1>5. SupervisedOnAir'
  <2>1. Consented(s.requests, s.talker, ptt_room) => Consented(requests, talker, ptt_room)'
    BY <1>1 DEF Consented, find, allowed, active, eligible
  <2> QED
    BY <1>1, <2>1 DEF SupervisedOnAir
<1> QED
  BY <1>3, <1>4, <1>5 DEF SInv, Present

\* The end of a handler whose last act is the tick.
LEMMA TickSInv ==
  ASSUME SInv, NEW s, IsState(s), Good(s), NEW refused \in BOOLEAN, SupervisionAssumption,
         Become(tick(s, refused)), UNCHANGED <<online, fit, tickets, ptt_room>>,
         \A q \in s.requests : Present(q, online)
  PROVE  SInv'
<1> DEFINE t == tick(s, refused)
<1>1. /\ Good(t)
      /\ \A q \in t.requests : \E r \in s.requests :
           q.client = r.client /\ q.elmers \subseteq r.elmers
      /\ t.talker # NoSession => Consented(t.requests, t.talker, ptt_room) \/ t.lapse
  BY TickGood DEF SInv
<1>2. \A q \in t.requests : Present(q, online)
  BY <1>1 DEF Present
<1> HIDE DEF t
<1> QED
  BY <1>1, <1>2, BecomeSInv DEF t

\* Time passes for the supervisors of an entry.
LEMMA OlderFields ==
  ASSUME NEW q, EntryOK(q), NEW d \in 1..Idle, SupervisionAssumption
  PROVE  /\ EntryOK(Older(q, d))
         /\ Older(q, d).client = q.client /\ Older(q, d).room = q.room
         /\ Older(q, d).id = q.id /\ Older(q, d).granted = q.granted
         /\ \A s \in Older(q, d).elmers :
              \E r \in q.elmers : r.client = s.client /\ r.age <= s.age
<1> DEFINE up(s) == [s EXCEPT !.age = IF @ + d > Idle THEN Idle ELSE @ + d]
           F == [s \in q.elmers |-> up(s)]
           img == {F[s] : s \in q.elmers}
<1>1. q \in Entry /\ q.elmers \in SUBSET Supervisor /\ Idle \in Nat \ {0}
  BY EntryFields DEF EntryOK, SupervisionAssumption
<1>2. ASSUME NEW s \in q.elmers
      PROVE  up(s) \in Supervisor /\ up(s).client = s.client /\ s.age <= up(s).age
  <2>1. s \in Supervisor /\ s.age \in 0..Idle
    BY <1>1 DEF Supervisor
  <2> DEFINE a == IF s.age + d > Idle THEN Idle ELSE s.age + d
  <2>2. a \in 0..Idle /\ s.age <= a
    BY <1>1, <2>1
  <2>3. up(s) = [s EXCEPT !.age = a]
    OBVIOUS
  <2> HIDE DEF a, up
  <2> QED
    BY <2>1, <2>2, <2>3 DEF Supervisor
<1> HIDE DEF up
<1>3. F \in [q.elmers -> Supervisor] /\ \A s \in q.elmers : F[s].client = s.client
  BY <1>2
<1>4. img \in SUBSET Supervisor /\ IsFiniteSet(img) /\ Cardinality(img) <= Slots
        /\ \A s, t \in img : s.client = t.client => s = t
  BY <1>1, <1>3, MapElmers DEF EntryOK
<1>5. Older(q, d) = [q EXCEPT !.elmers = img]
  <2>1. Older(q, d) = [q EXCEPT !.elmers = {up(s) : s \in q.elmers}]
    BY DEF Older, up
  <2>2. {up(s) : s \in q.elmers} = img
    OBVIOUS
  <2> QED
    BY <2>1, <2>2
<1>6. \A s \in img : \E r \in q.elmers : r.client = s.client /\ r.age <= s.age
  BY <1>2
<1>7. ~q.granted => img = {}
  BY DEF EntryOK
<1> HIDE DEF img
<1>8. /\ Older(q, d) \in Entry /\ Older(q, d).elmers = img
      /\ Older(q, d).client = q.client /\ Older(q, d).room = q.room
      /\ Older(q, d).id = q.id /\ Older(q, d).granted = q.granted
  BY <1>1, <1>4, <1>5, EntryElmers
<1> HIDE DEF Older
<1>9. EntryOK(Older(q, d))
  BY <1>4, <1>7, <1>8 DEF EntryOK
<1> QED
  BY <1>6, <1>8, <1>9

\* The clock moves on and the tick follows.
LEMMA TimerSInv ==
  ASSUME SInv, NEW refused \in BOOLEAN, timer_clock_tick_fn(refused), SupervisionAssumption
  PROVE  SInv'
<1>1. PICK d \in 1..Idle : Become(tick(Aged(d), refused))
  BY DEF timer_clock_tick_fn
<1> DEFINE s == Aged(d)
           older == {Older(q, d) : q \in requests}
           kept == {p \in consent : \A q \in older : q.id = p[1] =>
                      [client |-> p[2], age |-> Idle] \notin q.elmers}
           F == [q \in requests |-> Older(q, d)]
<1>2. /\ IsState(s) /\ s.requests = older /\ s.talker = talker /\ s.consent = kept
      /\ s.spent = spent /\ s.lapse = lapse
  <2>1. s = [Now EXCEPT !.requests = older, !.consent = kept]
    BY NowFields DEF Aged
  <2> HIDE DEF older, kept, s
  <2> QED
    BY <2>1, NowFields DEF IsState
<1>3. /\ Good(Now) /\ Table(requests) /\ \A q \in requests : EntryOK(q)
      /\ \A q \in requests : Backed(q, consent, spent)
      /\ consent \subseteq (1..tickets) \X Elmer /\ spent \subseteq 0..tickets
      /\ lapse \in BOOLEAN /\ Unique(requests)
  BY NowFields DEF SInv, Good, Table
<1>4. \A q \in requests : F[q] = Older(q, d)
  OBVIOUS
<1>5. F \in [requests -> Entry] /\ older = {F[q] : q \in requests}
  BY <1>3, OlderFields DEF EntryOK
<1> HIDE DEF s, F
<1>6. ASSUME NEW q \in requests PROVE Backed(F[q], kept, spent)
  <2>1. Backed(q, consent, spent) /\ EntryOK(q) /\ EntryOK(F[q])
    BY <1>3, <1>4, OlderFields
  <2>2. F[q].id = q.id /\ F[q].granted = q.granted
    BY <1>3, <1>4, OlderFields
  <2>3. ASSUME NEW x \in F[q].elmers, x.age < Idle
        PROVE  <<q.id, x.client>> \in kept
    <3>1. PICK r \in q.elmers : r.client = x.client /\ r.age <= x.age
      BY <1>3, <1>4, OlderFields
    <3>2. r \in Supervisor /\ x \in Supervisor
      BY <2>1, EntryFields DEF EntryOK
    <3>3. r.age < Idle
      BY <2>3, <3>1, <3>2 DEF Supervisor, SupervisionAssumption
    <3>4. <<q.id, x.client>> \in consent
      BY <2>1, <3>1, <3>3 DEF Backed
    <3>5. q.id # 0
      BY <2>1, <3>1 DEF EntryOK
    <3>6. ASSUME NEW k \in requests, F[k].id = q.id,
                 [client |-> x.client, age |-> Idle] \in F[k].elmers
          PROVE  FALSE
      <4>1. k.id = q.id
        BY <1>3, <1>4, <3>6, OlderFields
      <4>2. k = q
        BY <1>3, <3>5, <4>1 DEF Unique
      <4> DEFINE y == [client |-> x.client, age |-> Idle]
      <4>3. y.client = x.client /\ y.age = Idle
        OBVIOUS
      <4>4. y \in F[q].elmers
        BY <3>6, <4>2
      <4> HIDE DEF y
      <4>5. y = x
        BY <2>1, <4>3, <4>4 DEF EntryOK
      <4> QED
        BY <2>3, <4>3, <4>5, <3>2 DEF Supervisor, SupervisionAssumption
    <3>7. \A k \in older : k.id = q.id => [client |-> x.client, age |-> Idle] \notin k.elmers
      BY <1>5, <3>6
    <3> QED
      BY <3>4, <3>7
  <2> HIDE DEF kept
  <2> QED
    BY <2>1, <2>2, <2>3 DEF Backed
<1>7. kept \subseteq consent
  OBVIOUS
<1> HIDE DEF older, kept
<1>8. \A q \in requests : /\ EntryOK(F[q]) /\ F[q].client = q.client /\ F[q].room = q.room
                           /\ F[q].id \in {q.id, 0} /\ Backed(F[q], s.consent, s.spent)
  BY <1>2, <1>3, <1>4, <1>6, OlderFields
<1>9. Good(s)
  <2>1. Now.requests = requests /\ Now.talker = talker
    BY NowFields
  <2> QED
    BY <1>2, <1>3, <1>5, <1>7, <1>8, <2>1, MapGood
<1>10. \A q \in s.requests : Present(q, online)
  <2> SUFFICES ASSUME NEW q \in requests PROVE Present(F[q], online)
    BY <1>2, <1>5
  <2>1. Present(q, online)
    BY DEF SInv
  <2>2. /\ F[q].client = q.client
        /\ \A x \in F[q].elmers : \E r \in q.elmers : r.client = x.client
    BY <1>3, <1>4, OlderFields
  <2> QED
    BY <2>1, <2>2 DEF Present
<1>11. Become(tick(s, refused))
  BY <1>1 DEF s
<1> QED
  BY <1>2, <1>9, <1>10, <1>11, TickSInv DEF timer_clock_tick_fn

\* The talker lets go.
LEMMA ReleaseSInv == SInv /\ Release => SInv'
<1> SUFFICES ASSUME SInv, Release PROVE SInv'
  OBVIOUS
<1> DEFINE s == [Now EXCEPT !.talker = NoSession]
<1>1. /\ s.requests = requests /\ s.talker = NoSession /\ s.consent = consent
      /\ s.spent = spent /\ s.lapse = lapse
  BY DEF Now
<1>2. Good(s)
  BY <1>1, NowFields DEF SInv, Good, HasEntry
<1>3. Become(s) /\ UNCHANGED <<online, fit, tickets, ptt_room>>
  BY DEF Release
<1>4. \A q \in s.requests : Present(q, online)
  BY <1>1 DEF SInv
<1> HIDE DEF s
<1> QED
  BY <1>1, <1>2, <1>3, <1>4, BecomeSInv

\* An accepting elmer gets one slot, nobody else gets any, and nobody but an
\* inactive supervisor gives up one.
LEMMA JoinedFields ==
  ASSUME NEW q, EntryOK(q), NEW e \in Elmer, NEW T \in Joined(q, e), SupervisionAssumption
  PROVE  LET new == [client |-> e, age |-> 0]
         IN  /\ new \in T /\ T \subseteq q.elmers \cup {new}
             /\ T \in SUBSET Supervisor /\ IsFiniteSet(T) /\ Cardinality(T) <= Slots
             /\ \A s, t \in T : s.client = t.client => s = t
             /\ new.client = e /\ new.age = 0
<1> DEFINE own == {s \in q.elmers : s.client = e}
           idle == {s \in q.elmers : ~active(s)}
           new == [client |-> e, age |-> 0]
<1>1. /\ q.elmers \in SUBSET Supervisor /\ IsFiniteSet(q.elmers)
      /\ Cardinality(q.elmers) <= Slots /\ Cardinality(q.elmers) \in Nat /\ Slots \in Nat
      /\ \A s, t \in q.elmers : s.client = t.client => s = t
  BY EntryFields, FS_CardinalityType DEF EntryOK, SupervisionAssumption
<1>2. new \in Supervisor /\ new.client = e /\ new.age = 0
  BY DEF Supervisor, SupervisionAssumption
<1>3. \/ own # {} /\ T = (q.elmers \ own) \cup {new}
      \/ own = {} /\ \E s \in idle : T = (q.elmers \ {s}) \cup {new}
      \/ own = {} /\ T = q.elmers \cup {new} /\ Cardinality(T) <= Slots
  BY DEF Joined
<1>4. ASSUME NEW s \in q.elmers, T = (q.elmers \ {s}) \cup {new}
      PROVE  IsFiniteSet(T) /\ Cardinality(T) <= Slots
  <2>1. /\ IsFiniteSet(q.elmers \ {s})
        /\ Cardinality(q.elmers \ {s}) = Cardinality(q.elmers) - 1
    BY <1>1, FS_RemoveElement
  <2>2. /\ IsFiniteSet((q.elmers \ {s}) \cup {new})
        /\ \/ Cardinality((q.elmers \ {s}) \cup {new}) = Cardinality(q.elmers \ {s})
           \/ Cardinality((q.elmers \ {s}) \cup {new}) = Cardinality(q.elmers \ {s}) + 1
    BY <2>1, FS_AddElement
  <2> QED
    BY <1>1, <1>4, <2>1, <2>2
<1> HIDE DEF new
<1>5. CASE own # {} /\ T = (q.elmers \ own) \cup {new}
  <2>1. PICK s : s \in own
    BY <1>5
  <2>2. s \in q.elmers /\ own = {s}
    BY <1>1, <2>1
  <2>3. IsFiniteSet(T) /\ Cardinality(T) <= Slots
    BY <1>4, <1>5, <2>2
  <2>4. \A x, y \in T : x.client = y.client => x = y
    BY <1>1, <1>2, <1>5
  <2> QED
    BY <1>1, <1>2, <1>5, <2>3, <2>4 DEF new
<1>6. CASE own = {} /\ \E s \in idle : T = (q.elmers \ {s}) \cup {new}
  <2>1. IsFiniteSet(T) /\ Cardinality(T) <= Slots
    BY <1>4, <1>6
  <2>2. \A x, y \in T : x.client = y.client => x = y
    BY <1>1, <1>2, <1>6
  <2> QED
    BY <1>1, <1>2, <1>6, <2>1, <2>2 DEF new
<1>7. CASE own = {} /\ T = q.elmers \cup {new} /\ Cardinality(T) <= Slots
  <2>1. IsFiniteSet(T)
    BY <1>1, <1>7, FS_AddElement
  <2>2. \A x, y \in T : x.client = y.client => x = y
    BY <1>1, <1>2, <1>7
  <2> QED
    BY <1>1, <1>2, <1>7, <2>1, <2>2 DEF new
<1> QED
  BY <1>3, <1>5, <1>6, <1>7

\* An elmer accepts a ticket.
LEMMA AcceptSInv ==
  ASSUME SInv, NEW e \in Elmer, NEW id \in 1..tickets, Accept(e, id), SupervisionAssumption
  PROVE  SInv'
<1>0. PICK q \in Answered(id) : \E T \in Joined(q, e) :
        Become([Now EXCEPT
          !.requests = (requests \ {q}) \cup {[q EXCEPT !.granted = TRUE, !.elmers = T]},
          !.consent = consent \cup {<<id, e>>}])
  BY NowFields DEF Accept
<1>1. PICK T \in Joined(q, e) :
        Become([Now EXCEPT
          !.requests = (requests \ {q}) \cup {[q EXCEPT !.granted = TRUE, !.elmers = T]},
          !.consent = consent \cup {<<id, e>>}])
  BY <1>0
<1> DEFINE yes == TRUE
           q2 == [q EXCEPT !.granted = yes, !.elmers = T]
           rq == (requests \ {q}) \cup {q2}
           given == consent \cup {<<id, e>>}
           s == [Now EXCEPT !.requests = rq, !.consent = given]
           new == [client |-> e, age |-> 0]
           F == [r \in requests |-> IF r = q THEN q2 ELSE r]
<1>2. Become(s) /\ UNCHANGED <<online, fit, tickets, ptt_room>>
  BY <1>1 DEF Accept
<1>3. yes \in BOOLEAN /\ yes
  OBVIOUS
<1> HIDE DEF yes
<1>4. /\ Good(Now) /\ \A r \in requests : EntryOK(r) /\ Backed(r, consent, spent)
      /\ consent \subseteq (1..tickets) \X Elmer /\ spent \subseteq 0..tickets
      /\ lapse \in BOOLEAN /\ Unique(requests) /\ eligible(e)
  BY NowFields DEF SInv, Good, Table, Accept
<1>5. q \in requests /\ q.id = id /\ eligible(q.client) /\ q \in Entry /\ EntryOK(q) /\ id # 0
  BY <1>4 DEF Answered, EntryOK, SInv
<1>6. /\ new \in T /\ T \subseteq q.elmers \cup {new} /\ T \in SUBSET Supervisor
      /\ IsFiniteSet(T) /\ Cardinality(T) <= Slots /\ new.client = e /\ new.age = 0
      /\ \A x, y \in T : x.client = y.client => x = y
  BY <1>5, JoinedFields
<1>7. /\ s.requests = rq /\ s.talker = talker /\ s.consent = given
      /\ s.spent = spent /\ s.lapse = lapse
  <2> HIDE DEF rq, given
  <2> QED BY NowFields DEF IsState
<1>8. /\ q2 \in Entry /\ q2.client = q.client /\ q2.room = q.room /\ q2.id = id
      /\ q2.granted = yes /\ q2.elmers = T
  BY <1>3, <1>5, <1>6 DEF Entry
<1> HIDE DEF new, q2, s
<1>9. EntryOK(q2)
  BY <1>3, <1>5, <1>6, <1>8 DEF EntryOK
<1>10. Backed(q2, given, spent)
  <2>1. id \notin spent /\ id \in 0..tickets
    BY <1>4, <1>5 DEF Backed
  <2>2. ASSUME NEW x \in T, x.age < Idle PROVE <<id, x.client>> \in given
    <3>1. CASE x = new
      BY <1>6, <3>1
    <3>2. CASE x \in q.elmers
      <4>1. <<id, x.client>> \in consent
        BY <1>4, <1>5, <2>2, <3>2 DEF Backed
      <4> QED
        BY <4>1
    <3> QED
      BY <1>6, <3>1, <3>2
  <2> QED
    BY <1>8, <2>1, <2>2 DEF Backed
<1>11. \A r \in requests : F[r] = IF r = q THEN q2 ELSE r
  OBVIOUS
<1>12. F \in [requests -> Entry]
  BY <1>4, <1>8 DEF EntryOK
<1> HIDE DEF F
<1>13. rq = {F[r] : r \in requests}
  BY <1>5, <1>11
<1>14. given \subseteq (1..tickets) \X Elmer
  BY <1>4
<1>15. \A r \in requests : /\ EntryOK(F[r]) /\ F[r].client = r.client /\ F[r].room = r.room
                            /\ F[r].id \in {r.id, 0} /\ Backed(F[r], given, spent)
  <2> SUFFICES ASSUME NEW r \in requests, r # q PROVE Backed(r, given, spent)
    BY <1>4, <1>5, <1>8, <1>9, <1>10, <1>11
  <2> QED
    BY <1>4 DEF Backed
<1> HIDE DEF rq, given
<1>16. Good(s)
  <2>1. Now.requests = requests /\ Now.talker = talker
    BY NowFields
  <2>2. \A r \in requests : /\ EntryOK(F[r]) /\ F[r].client = r.client /\ F[r].room = r.room
                             /\ F[r].id \in {r.id, 0} /\ Backed(F[r], s.consent, s.spent)
    BY <1>7, <1>15
  <2> QED
    BY <1>4, <1>7, <1>12, <1>13, <1>14, <2>1, <2>2, MapGood
<1>17. \A r \in s.requests : Present(r, online)
  <2>1. \A r \in requests : Present(r, online)
    BY DEF SInv
  <2>2. Present(q2, online)
    BY <1>4, <1>5, <1>6, <1>8, <2>1 DEF Present, eligible
  <2> QED
    BY <1>7, <2>1, <2>2 DEF rq
<1>18. allowed(q2)
  <2>1. active(new)
    BY <1>4, <1>6 DEF active, SupervisionAssumption
  <2> QED
    BY <1>3, <1>5, <1>6, <1>8, <2>1 DEF allowed
<1>19. talker # NoSession => Consented(rq, talker, ptt_room) \/ lapse
  <2> SUFFICES ASSUME NEW r \in find(requests, talker, ptt_room), allowed(r)
               PROVE  Consented(rq, talker, ptt_room)
    BY DEF SInv, SupervisedOnAir, Consented
  <2>1. r \in requests /\ r.client = talker /\ r.room = ptt_room
    BY DEF find
  <2>2. CASE r = q
    <3>1. q2 \in find(rq, talker, ptt_room)
      BY <1>8, <2>1, <2>2 DEF find, rq
    <3> QED
      BY <1>18, <3>1 DEF Consented
  <2>3. CASE r # q
    <3>1. r \in find(rq, talker, ptt_room)
      BY <2>1, <2>3 DEF find, rq
    <3> QED
      BY <3>1 DEF Consented
  <2> QED
    BY <2>2, <2>3
<1> QED
  BY <1>2, <1>7, <1>16, <1>17, <1>19, BecomeSInv

\* A supervisor gives up its slot.
LEMMA LeavesFields ==
  ASSUME NEW q, EntryOK(q), NEW e, SupervisionAssumption
  PROVE  /\ EntryOK(Leaves(q, e)) /\ Leaves(q, e) \in Entry
         /\ Leaves(q, e).client = q.client /\ Leaves(q, e).room = q.room
         /\ Leaves(q, e).id = q.id /\ Leaves(q, e).granted = q.granted
         /\ Leaves(q, e).elmers = {s \in q.elmers : s.client # e}
<1> DEFINE T == {s \in q.elmers : s.client # e}
<1>1. q \in Entry /\ q.elmers \in SUBSET Supervisor
  BY EntryFields DEF EntryOK
<1>2. T \in SUBSET Supervisor /\ T \in SUBSET q.elmers
  BY <1>1
<1>3. IsFiniteSet(T) /\ Cardinality(T) <= Slots
  <2>1. IsFiniteSet(q.elmers) /\ Cardinality(q.elmers) <= Slots /\ Slots \in Nat
    BY DEF EntryOK, SupervisionAssumption
  <2>2. IsFiniteSet(T) /\ Cardinality(T) <= Cardinality(q.elmers)
    BY <1>2, <2>1, FS_Subset
  <2>3. Cardinality(T) \in Nat /\ Cardinality(q.elmers) \in Nat
    BY <2>1, <2>2, FS_CardinalityType
  <2> QED
    BY <2>1, <2>2, <2>3
<1>4. Leaves(q, e) = [q EXCEPT !.elmers = T]
  BY DEF Leaves
<1>5. /\ Leaves(q, e) \in Entry /\ Leaves(q, e).elmers = T
      /\ Leaves(q, e).client = q.client /\ Leaves(q, e).room = q.room
      /\ Leaves(q, e).id = q.id /\ Leaves(q, e).granted = q.granted
  BY <1>1, <1>2, <1>4, EntryElmers
<1>6. EntryOK(Leaves(q, e))
  BY <1>2, <1>3, <1>5 DEF EntryOK
<1> QED
  BY <1>5, <1>6

\* An elmer declines a ticket, or withdraws from it.
LEMMA DeclineSInv ==
  ASSUME SInv, NEW e \in Elmer, NEW id \in 1..tickets, Decline(e, id), SupervisionAssumption
  PROVE  SInv'
<1>1. PICK q \in Answered(id), refused \in BOOLEAN :
        Become(tick([Now EXCEPT !.requests = (requests \ {q}) \cup {Leaves(q, e)},
                                !.consent = consent \ {<<id, e>>}], refused))
  BY NowFields DEF Decline
<1> DEFINE q2 == Leaves(q, e)
           rq == (requests \ {q}) \cup {q2}
           given == consent \ {<<id, e>>}
           s == [Now EXCEPT !.requests = rq, !.consent = given]
           F == [r \in requests |-> IF r = q THEN q2 ELSE r]
<1>2. Become(tick(s, refused)) /\ UNCHANGED <<online, fit, tickets, ptt_room>>
  BY <1>1 DEF Decline
<1>4. /\ Good(Now) /\ \A r \in requests : EntryOK(r) /\ Backed(r, consent, spent)
      /\ consent \subseteq (1..tickets) \X Elmer /\ spent \subseteq 0..tickets
      /\ lapse \in BOOLEAN /\ Unique(requests) /\ tickets \in 0..MaxTickets
  BY NowFields DEF SInv, Good, Table
<1>5. q \in requests /\ q.id = id /\ EntryOK(q) /\ id # 0
  BY <1>4 DEF Answered
<1>7. /\ IsState(s) /\ s.requests = rq /\ s.talker = talker /\ s.consent = given
      /\ s.spent = spent /\ s.lapse = lapse
  <2>1. s = [Now EXCEPT !.requests = rq, !.consent = given]
    OBVIOUS
  <2> HIDE DEF rq, given, s
  <2> QED
    BY <2>1, NowFields DEF IsState
<1> HIDE DEF q2, s
<1>8. /\ EntryOK(q2) /\ q2 \in Entry /\ q2.client = q.client /\ q2.room = q.room
      /\ q2.id = id /\ q2.elmers = {x \in q.elmers : x.client # e}
  BY <1>5, LeavesFields DEF q2
<1>10. Backed(q2, given, spent)
  <2>1. id \notin spent /\ id \in 0..tickets
    BY <1>4, <1>5 DEF Backed
  <2>2. ASSUME NEW x \in q2.elmers, x.age < Idle PROVE <<id, x.client>> \in given
    BY <1>4, <1>5, <1>8, <2>2 DEF Backed
  <2> QED
    BY <1>8, <2>1, <2>2 DEF Backed
<1>11. \A r \in requests : F[r] = IF r = q THEN q2 ELSE r
  OBVIOUS
<1>12. F \in [requests -> Entry]
  BY <1>4, <1>8 DEF EntryOK
<1> HIDE DEF F
<1>13. rq = {F[r] : r \in requests}
  BY <1>5, <1>11
<1>14. given \subseteq (1..tickets) \X Elmer
  BY <1>4
<1>15. \A r \in requests : /\ EntryOK(F[r]) /\ F[r].client = r.client /\ F[r].room = r.room
                            /\ F[r].id \in {r.id, 0} /\ Backed(F[r], s.consent, s.spent)
  <2> SUFFICES ASSUME NEW r \in requests, r # q PROVE Backed(r, given, spent)
    BY <1>4, <1>5, <1>7, <1>8, <1>10, <1>11
  <2>1. r.id # id
    BY <1>4, <1>5 DEF Unique
  <2>2. \A x : <<r.id, x>> # <<id, e>>
    BY <2>1
  <2> QED
    BY <1>4, <2>2 DEF Backed
<1> HIDE DEF rq, given
<1>16. Good(s)
  <2>1. Now.requests = requests /\ Now.talker = talker
    BY NowFields
  <2> QED
    BY <1>4, <1>7, <1>12, <1>13, <1>14, <1>15, <2>1, MapGood
<1>17. \A r \in s.requests : Present(r, online)
  <2>1. \A r \in requests : Present(r, online)
    BY DEF SInv
  <2>2. Present(q2, online)
    BY <1>5, <1>8, <2>1 DEF Present
  <2> QED
    BY <1>7, <2>1, <2>2 DEF rq
<1> QED
  BY <1>2, <1>7, <1>16, <1>17, TickSInv

\* Activity renews the time of a supervisor that is still active, and of no
\* other.
LEMMA RenewedFields ==
  ASSUME NEW q, EntryOK(q), NEW c, SupervisionAssumption
  PROVE  /\ EntryOK(Renewed(q, c))
         /\ Renewed(q, c).client = q.client /\ Renewed(q, c).room = q.room
         /\ Renewed(q, c).id = q.id /\ Renewed(q, c).granted = q.granted
         /\ \A s \in Renewed(q, c).elmers : \E r \in q.elmers :
              r.client = s.client /\ (s.age < Idle => r.age < Idle)
         /\ allowed(q) => allowed(Renewed(q, c))
<1> DEFINE up(s) == IF s.client = c /\ active(s) THEN [s EXCEPT !.age = 0] ELSE s
           F == [s \in q.elmers |-> up(s)]
           img == {F[s] : s \in q.elmers}
<1>1. q \in Entry /\ q.elmers \in SUBSET Supervisor /\ Idle \in Nat \ {0}
  BY EntryFields DEF EntryOK, SupervisionAssumption
<1>2. ASSUME NEW s \in q.elmers
      PROVE  /\ up(s) \in Supervisor /\ up(s).client = s.client
             /\ up(s).age < Idle => s.age < Idle
             /\ active(s) => active(up(s))
  <2>1. s \in Supervisor
    BY <1>1
  <2>2. CASE s.client = c /\ active(s)
    <3>1. up(s) = [s EXCEPT !.age = 0]
      BY <2>2
    <3>2. up(s) \in Supervisor /\ up(s).client = s.client /\ up(s).age = 0
      BY <1>1, <2>1, <3>1 DEF Supervisor
    <3> HIDE DEF up
    <3> QED
      BY <1>1, <2>2, <3>2 DEF active
  <2>3. CASE ~(s.client = c /\ active(s))
    BY <2>1, <2>3
  <2> QED
    BY <2>2, <2>3
<1> HIDE DEF up
<1>3. F \in [q.elmers -> Supervisor] /\ \A s \in q.elmers : F[s].client = s.client
  BY <1>2
<1>4. img \in SUBSET Supervisor /\ IsFiniteSet(img) /\ Cardinality(img) <= Slots
        /\ \A s, t \in img : s.client = t.client => s = t
  BY <1>1, <1>3, MapElmers DEF EntryOK
<1>5. Renewed(q, c) = [q EXCEPT !.elmers = img]
  <2>1. Renewed(q, c) = [q EXCEPT !.elmers = {up(s) : s \in q.elmers}]
    BY DEF Renewed, up
  <2>2. {up(s) : s \in q.elmers} = img
    OBVIOUS
  <2> QED
    BY <2>1, <2>2
<1>6. \A s \in img : \E r \in q.elmers :
        r.client = s.client /\ (s.age < Idle => r.age < Idle)
  <2> SUFFICES ASSUME NEW s \in img
               PROVE  \E r \in q.elmers :
                        r.client = s.client /\ (s.age < Idle => r.age < Idle)
    OBVIOUS
  <2>1. PICK r \in q.elmers : s = up(r)
    OBVIOUS
  <2>2. r.client = s.client /\ (s.age < Idle => r.age < Idle)
    BY <1>2, <2>1
  <2> QED
    BY <2>2
<1>7. (~q.granted => img = {}) /\ \A s \in q.elmers : active(s) => \E r \in img : active(r)
  BY <1>2 DEF EntryOK
<1> HIDE DEF img
<1>8. /\ Renewed(q, c) \in Entry /\ Renewed(q, c).elmers = img
      /\ Renewed(q, c).client = q.client /\ Renewed(q, c).room = q.room
      /\ Renewed(q, c).id = q.id /\ Renewed(q, c).granted = q.granted
  BY <1>1, <1>4, <1>5, EntryElmers
<1> HIDE DEF Renewed
<1>9. EntryOK(Renewed(q, c))
  BY <1>4, <1>7, <1>8 DEF EntryOK
<1>10. allowed(q) => allowed(Renewed(q, c))
  BY <1>7, <1>8 DEF allowed
<1> QED
  BY <1>6, <1>8, <1>9, <1>10

\* A session does something deliberate.
LEMMA ActivitySInv ==
  ASSUME SInv, NEW c \in Session, activity(c), SupervisionAssumption
  PROVE  SInv'
<1>1. PICK refused \in BOOLEAN :
        Become([tick(Now, refused) EXCEPT !.requests = {Renewed(q, c) : q \in @}])
  BY DEF activity
<1> DEFINE t == tick(Now, refused)
           rq == {Renewed(q, c) : q \in t.requests}
           s == [t EXCEPT !.requests = rq]
           F == [q \in t.requests |-> Renewed(q, c)]
<1>2. Become(s) /\ UNCHANGED <<online, fit, tickets, ptt_room>>
  BY <1>1 DEF activity
<1>3. /\ IsState(t) /\ Good(t)
      /\ \A q \in t.requests : \E r \in requests :
           q.client = r.client /\ q.elmers \subseteq r.elmers
      /\ t.talker # NoSession => Consented(t.requests, t.talker, ptt_room) \/ t.lapse
  <2>1. IsState(Now) /\ Good(Now) /\ tickets \in 0..MaxTickets /\ Now.requests = requests
    BY NowFields DEF SInv
  <2> QED
    BY <2>1, TickGood
<1> HIDE DEF t
<1>4. /\ s.requests = rq /\ s.talker = t.talker /\ s.consent = t.consent
      /\ s.spent = t.spent /\ s.lapse = t.lapse
  <2> HIDE DEF rq
  <2> QED BY <1>3 DEF IsState
<1>5. /\ \A q \in t.requests : EntryOK(q) /\ Backed(q, t.consent, t.spent)
      /\ t.consent \subseteq (1..tickets) \X Elmer /\ t.spent \subseteq 0..tickets
      /\ t.lapse \in BOOLEAN
  BY <1>3 DEF Good, Table
<1>6. \A q \in t.requests : F[q] = Renewed(q, c)
  OBVIOUS
<1>7. F \in [t.requests -> Entry] /\ rq = {F[q] : q \in t.requests}
  <2>1. \A q \in t.requests : Renewed(q, c) \in Entry
    BY <1>5, RenewedFields DEF EntryOK
  <2> QED
    BY <2>1
<1> HIDE DEF F, s
<1>8. ASSUME NEW q \in t.requests PROVE Backed(F[q], t.consent, t.spent)
  <2>1. /\ F[q].id = q.id
        /\ \A x \in F[q].elmers : \E r \in q.elmers :
             r.client = x.client /\ (x.age < Idle => r.age < Idle)
    BY <1>5, <1>6, RenewedFields
  <2>2. Backed(q, t.consent, t.spent)
    BY <1>5
  <2>3. ASSUME NEW x \in F[q].elmers, x.age < Idle
        PROVE  <<F[q].id, x.client>> \in t.consent
    <3>1. PICK r \in q.elmers : r.client = x.client /\ r.age < Idle
      BY <2>1, <2>3
    <3> QED
      BY <2>1, <2>2, <3>1 DEF Backed
  <2> QED
    BY <2>1, <2>2, <2>3 DEF Backed
<1>9. \A q \in t.requests : /\ EntryOK(F[q]) /\ F[q].client = q.client /\ F[q].room = q.room
                             /\ F[q].id \in {q.id, 0} /\ Backed(F[q], s.consent, s.spent)
  BY <1>4, <1>5, <1>6, <1>8, RenewedFields
<1> HIDE DEF rq
<1>10. Good(s)
  BY <1>3, <1>4, <1>5, <1>7, <1>9, MapGood
<1>11. \A q \in s.requests : Present(q, online)
  <2> SUFFICES ASSUME NEW q \in t.requests PROVE Present(F[q], online)
    BY <1>4, <1>7
  <2>1. PICK r \in requests : q.client = r.client /\ q.elmers \subseteq r.elmers
    BY <1>3
  <2>2. Present(r, online)
    BY DEF SInv
  <2>3. /\ F[q].client = q.client
        /\ \A x \in F[q].elmers : \E y \in q.elmers : y.client = x.client
    BY <1>5, <1>6, RenewedFields
  <2> QED
    BY <2>1, <2>2, <2>3 DEF Present
<1>12. s.talker # NoSession => Consented(s.requests, s.talker, ptt_room) \/ s.lapse
  <2> SUFFICES ASSUME NEW q \in find(t.requests, t.talker, ptt_room), allowed(q)
               PROVE  Consented(s.requests, t.talker, ptt_room)
    BY <1>3, <1>4 DEF Consented
  <2>1. q \in t.requests /\ q.client = t.talker /\ q.room = ptt_room
    BY DEF find
  <2>2. F[q].client = q.client /\ F[q].room = q.room /\ allowed(F[q])
    BY <1>5, <1>6, <2>1, RenewedFields
  <2>3. F[q] \in find(s.requests, t.talker, ptt_room)
    BY <1>4, <1>7, <2>1, <2>2 DEF find
  <2> QED
    BY <2>2, <2>3 DEF Consented
<1> QED
  BY <1>2, <1>10, <1>11, <1>12, BecomeSInv

\* A session closes: its requests end, its slots are cleared, and the channel
\* is released if it held it.
LEMMA ClosedSInv ==
  ASSUME SInv, NEW c \in Session, closed(c), SupervisionAssumption
  PROVE  SInv'
<1> DEFINE own == {q \in requests : q.client = c}
           ids == {q.id : q \in own}
           rest == requests \ own
           F == [q \in rest |-> Leaves(q, c)]
           rq == {Leaves(q, c) : q \in rest}
           given == {p \in {p \in consent : p[1] \notin ids} : p[2] # c}
           gone == spent \cup ids
           tk == IF talker = c THEN NoSession ELSE talker
           s0 == [requests |-> rest, talker |-> tk, consent |-> consent,
                  spent |-> gone, lapse |-> lapse]
           s == [requests |-> rq, talker |-> tk, consent |-> given,
                 spent |-> gone, lapse |-> lapse]
<1>1. PICK refused \in BOOLEAN : Become(tick(s, refused))
  <2>1. PICK refused \in BOOLEAN :
          LET w == Spend(Now, ids)
          IN  Become(tick([w EXCEPT !.requests = {Leaves(q, c) : q \in w.requests \ own},
                                    !.consent = {p \in w.consent : p[2] # c},
                                    !.talker = IF w.talker = c THEN NoSession ELSE w.talker],
                          refused))
    BY DEF closed
  <2> DEFINE w == Spend(Now, ids)
             c1 == {p \in consent : p[1] \notin ids}
  <2>2. w = [Now EXCEPT !.spent = gone, !.consent = c1]
    BY NowFields DEF Spend
  <2> HIDE DEF w, gone, c1, ids
  <2>3. /\ w.requests = requests /\ w.talker = talker /\ w.consent = c1
        /\ w = [requests |-> requests, talker |-> talker, consent |-> c1,
                spent |-> gone, lapse |-> lapse]
    BY <2>2 DEF Now
  <2>4. Become(tick([w EXCEPT !.requests = rq, !.consent = given, !.talker = tk], refused))
    BY <2>1, <2>3 DEF w, c1
  <2> HIDE DEF rq, given, tk, s
  <2>5. w = [requests |-> w.requests, talker |-> w.talker, consent |-> w.consent,
             spent |-> w.spent, lapse |-> w.lapse] /\ w.spent = gone /\ w.lapse = lapse
    BY <2>3
  <2> DEFINE x == [w EXCEPT !.requests = rq]
             y == [x EXCEPT !.consent = given]
             z == [y EXCEPT !.talker = tk]
  <2>6. z = [requests |-> rq, talker |-> tk, consent |-> given,
             spent |-> w.spent, lapse |-> w.lapse]
    <3>1. x = [requests |-> rq, talker |-> w.talker, consent |-> w.consent,
               spent |-> w.spent, lapse |-> w.lapse]
      BY <2>5
    <3> HIDE DEF x
    <3>2. y = [requests |-> rq, talker |-> w.talker, consent |-> given,
               spent |-> w.spent, lapse |-> w.lapse]
      BY <3>1
    <3> HIDE DEF y
    <3> QED
      BY <3>2
  <2>7. z = s
    BY <2>5, <2>6 DEF s
  <2> QED
    BY <2>4, <2>7
<1>2. online' = online \ {c} /\ UNCHANGED <<fit, tickets, ptt_room>>
  BY DEF closed
<1>3. /\ Good(Now) /\ \A q \in requests : EntryOK(q) /\ Backed(q, consent, spent)
      /\ consent \subseteq (1..tickets) \X Elmer /\ spent \subseteq 0..tickets
      /\ lapse \in BOOLEAN /\ Unique(requests) /\ tickets \in 0..MaxTickets
      /\ IsFiniteSet(requests) /\ Cardinality(requests) <= Requests
      /\ talker \in Noob \cup {NoSession} /\ HasEntry(requests, talker)
  BY NowFields DEF SInv, Good, Table
<1>4. \A q \in rest : q \in requests /\ q.client # c
  OBVIOUS
<1>5. \A q \in rest : q.id # 0 => q.id \notin ids
  BY <1>3 DEF Unique
<1>6. ids \subseteq 0..tickets
  BY <1>3 DEF Backed
<1>7. \A q \in rest : F[q] = Leaves(q, c)
  OBVIOUS
<1>8. /\ s.requests = rq /\ s.talker = tk /\ s.consent = given /\ s.spent = gone
      /\ s.lapse = lapse /\ IsState(s)
      /\ s0.requests = rest /\ s0.talker = tk /\ s0.lapse = lapse
      /\ s0.consent = consent /\ s0.spent = gone
  <2> HIDE DEF rest, tk, rq, given, gone
  <2> QED
    BY DEF IsState
<1> HIDE DEF s, s0
<1>9. Good(s0)
  <2>1. IsFiniteSet(rest) /\ Cardinality(rest) <= Requests
    <3>1. rest \in SUBSET requests /\ Requests \in Nat
      BY DEF SupervisionAssumption
    <3>2. IsFiniteSet(rest) /\ Cardinality(rest) <= Cardinality(requests)
      BY <1>3, <3>1, FS_Subset
    <3>3. Cardinality(rest) \in Nat /\ Cardinality(requests) \in Nat
      BY <1>3, <3>2, FS_CardinalityType
    <3> QED
      BY <1>3, <3>1, <3>2, <3>3
  <2>2. Table(rest)
    BY <1>3, <1>4, <2>1 DEF Table, Unique
  <2>3. \A q \in rest : Backed(q, consent, gone)
    BY <1>3, <1>4, <1>5 DEF Backed
  <2>4. tk \in Noob \cup {NoSession} /\ HasEntry(rest, tk)
    BY <1>3 DEF HasEntry, find
  <2> HIDE DEF rest, tk
  <2> QED
    BY <1>3, <1>6, <1>8, <2>2, <2>3, <2>4 DEF Good
<1> HIDE DEF rest
<1>10. F \in [rest -> Entry] /\ rq = {F[q] : q \in rest}
  <2>1. \A q \in rest : Leaves(q, c) \in Entry
    BY <1>3, <1>4, LeavesFields
  <2> QED
    BY <2>1
<1> HIDE DEF F
<1>11. ASSUME NEW q \in rest PROVE Backed(F[q], given, gone)
  <2>1. Backed(q, consent, spent) /\ EntryOK(q)
    BY <1>3, <1>4
  <2>2. F[q].id = q.id /\ F[q].elmers = {x \in q.elmers : x.client # c}
    BY <1>7, <2>1, LeavesFields
  <2>3. ASSUME NEW x \in F[q].elmers, x.age < Idle PROVE <<q.id, x.client>> \in given
    <3>1. x \in q.elmers /\ x.client # c /\ q.id # 0
      BY <2>1, <2>2 DEF EntryOK
    <3>2. <<q.id, x.client>> \in consent /\ q.id \notin ids
      BY <1>5, <2>1, <2>3, <3>1 DEF Backed
    <3> QED
      BY <3>1, <3>2
  <2>4. q.id # 0 => q.id \notin gone
    BY <1>5, <2>1 DEF Backed
  <2> QED
    BY <2>1, <2>2, <2>3, <2>4 DEF Backed
<1>13. given \subseteq (1..tickets) \X Elmer /\ gone \subseteq 0..tickets
  BY <1>3, <1>6
<1> HIDE DEF rq, given, gone, tk
<1>12. \A q \in rest : /\ EntryOK(F[q]) /\ F[q].client = q.client /\ F[q].room = q.room
                        /\ F[q].id \in {q.id, 0} /\ Backed(F[q], s.consent, s.spent)
  <2> SUFFICES ASSUME NEW q \in rest
               PROVE  /\ EntryOK(F[q]) /\ F[q].client = q.client /\ F[q].room = q.room
                      /\ F[q].id = q.id /\ Backed(F[q], given, gone)
    BY <1>8
  <2> QED
    BY <1>3, <1>4, <1>7, <1>11, LeavesFields
<1>14. Good(s)
  BY <1>3, <1>8, <1>9, <1>10, <1>12, <1>13, MapGood
<1> DEFINE t == tick(s, refused)
<1>15. /\ Good(t)
       /\ \A q \in t.requests : \E r \in s.requests :
            q.client = r.client /\ q.elmers \subseteq r.elmers
       /\ t.talker # NoSession => Consented(t.requests, t.talker, ptt_room) \/ t.lapse
  BY ZenonT(40), <1>3, <1>8, <1>14, TickGood
<1> HIDE DEF t
<1>16. \A r \in s.requests : Present(r, online \ {c})
  <2>1. ASSUME NEW q \in rest PROVE Present(F[q], online \ {c})
    <3>1. Present(q, online)
      BY <1>4, <2>1 DEF SInv
    <3>2. F[q].client = q.client /\ F[q].elmers = {x \in q.elmers : x.client # c}
      BY <1>3, <1>4, <1>7, <2>1, LeavesFields
    <3> QED
      BY <1>4, <2>1, <3>1, <3>2 DEF Present
  <2>2. \A r \in s.requests : \E q \in rest : r = F[q]
    BY <1>8, <1>10
  <2> QED
    BY <2>1, <2>2
<1>17. \A q \in t.requests : Present(q, online')
  BY <1>2, <1>15, <1>16 DEF Present
<1>18. /\ requests' = t.requests /\ talker' = t.talker /\ consent' = t.consent
       /\ spent' = t.spent /\ lapse' = t.lapse
  BY <1>1 DEF Become, t
<1>19. /\ Now'.requests = t.requests /\ Now'.talker = t.talker /\ Now'.consent = t.consent
       /\ Now'.spent = t.spent /\ Now'.lapse = t.lapse
  BY <1>18 DEF Now
<1>20. Good(Now)'
  BY <1>2, <1>15, <1>19 DEF Good, Backed, HasEntry, find, Table
<1>21. \A q \in t.requests : allowed(q) => allowed(q)'
  <2> SUFFICES ASSUME NEW q \in t.requests, allowed(q) PROVE allowed(q)'
    OBVIOUS
  <2>1. q.client \in online' /\ \A x \in q.elmers : x.client \in online'
    BY <1>17 DEF Present
  <2> QED
    BY <1>2, <2>1 DEF allowed, active, eligible
<1>22. SupervisedOnAir'
  <2>1. Consented(t.requests, t.talker, ptt_room) => Consented(requests, talker, ptt_room)'
    BY <1>2, <1>18, <1>21 DEF Consented, find
  <2> QED
    BY <1>15, <1>18, <2>1 DEF SupervisedOnAir
<1>23. /\ (\A q \in requests : Present(q, online))'
       /\ (online \subseteq Session /\ fit \subseteq Session)'
       /\ (ptt_room \in Room /\ tickets \in 0..MaxTickets)'
  BY <1>2, <1>17, <1>18 DEF SInv, Present
<1> QED
  BY <1>20, <1>22, <1>23 DEF SInv

\* A noob presses PTT: it gets the channel, is turned away, or gets a ticket.
LEMMA PressSInv ==
  ASSUME SInv, NEW c \in Noob, NEW room \in Room, Press(c, room), SupervisionAssumption
  PROVE  SInv'
<1>1. PICK refused \in BOOLEAN :
        LET s == tick(Now, refused)
            places == Places(s.requests, c, room)
        IN \/ /\ Consented(s.requests, c, room) /\ s.talker = NoSession
              /\ Become([s EXCEPT !.talker = c])
              /\ ptt_room' = room
              /\ UNCHANGED tickets
           \/ /\ Become(s)
              /\ UNCHANGED <<ptt_room, tickets>>
           \/ /\ ~Consented(s.requests, c, room) /\ tickets < MaxTickets
              /\ \E q \in places :
                   Become([s EXCEPT !.requests =
                     (s.requests \ {q}) \cup {[q EXCEPT !.id = tickets + 1]}])
              /\ tickets' = tickets + 1
              /\ UNCHANGED ptt_room
  BY DEF Press
<1> DEFINE s == tick(Now, refused)
<1>2. UNCHANGED <<online, fit>> /\ eligible(c)
  BY DEF Press
<1>3. /\ IsState(s) /\ Good(s)
      /\ \A q \in s.requests : \E r \in requests :
           q.client = r.client /\ q.elmers \subseteq r.elmers
      /\ s.talker # NoSession => Consented(s.requests, s.talker, ptt_room) \/ s.lapse
  <2>1. IsState(Now) /\ Good(Now) /\ tickets \in 0..MaxTickets /\ Now.requests = requests
    BY NowFields DEF SInv
  <2> QED
    BY <2>1, TickGood
<1>4. \A q \in s.requests : Present(q, online)
  BY <1>3 DEF SInv, Present
<1>5. /\ Table(s.requests) /\ \A q \in s.requests : EntryOK(q) /\ Backed(q, s.consent, s.spent)
      /\ s.consent \subseteq (1..tickets) \X Elmer /\ s.spent \subseteq 0..tickets
      /\ s.lapse \in BOOLEAN /\ Unique(s.requests) /\ tickets \in 0..MaxTickets
      /\ IsFiniteSet(s.requests) /\ Cardinality(s.requests) <= Requests
      /\ s.talker \in Noob \cup {NoSession} /\ HasEntry(s.requests, s.talker)
  BY <1>3 DEF SInv, Good, Table
<1>6. \/ /\ Consented(s.requests, c, room) /\ s.talker = NoSession
         /\ Become([s EXCEPT !.talker = c]) /\ ptt_room' = room /\ UNCHANGED tickets
      \/ Become(s) /\ UNCHANGED <<ptt_room, tickets>>
      \/ /\ tickets < MaxTickets
         /\ \E q \in Places(s.requests, c, room) :
              Become([s EXCEPT !.requests =
                (s.requests \ {q}) \cup {[q EXCEPT !.id = tickets + 1]}])
         /\ tickets' = tickets + 1 /\ UNCHANGED ptt_room
  BY <1>1
<1> HIDE DEF s
<1>7. CASE /\ Consented(s.requests, c, room) /\ s.talker = NoSession
           /\ Become([s EXCEPT !.talker = c]) /\ ptt_room' = room /\ UNCHANGED tickets
  <2> DEFINE t == [s EXCEPT !.talker = c]
  <2>1. /\ t.requests = s.requests /\ t.talker = c /\ t.consent = s.consent
        /\ t.spent = s.spent /\ t.lapse = s.lapse
    BY <1>3 DEF IsState
  <2>2. /\ requests' = s.requests /\ talker' = c /\ consent' = s.consent
        /\ spent' = s.spent /\ lapse' = s.lapse
    BY <1>7, <2>1 DEF Become
  <2>3. /\ Now'.requests = s.requests /\ Now'.talker = c /\ Now'.consent = s.consent
        /\ Now'.spent = s.spent /\ Now'.lapse = s.lapse
    BY <2>2 DEF Now
  <2>4. find(s.requests, c, room) # {}
    BY <1>7 DEF Consented
  <2>5. Good(Now)'
    BY <1>5, <1>7, <2>3, <2>4 DEF Good, Backed, HasEntry, find
  <2>6. Consented(requests, talker, ptt_room)'
    BY <1>2, <1>7, <2>2 DEF Consented, find, allowed, active, eligible
  <2>7. SupervisedOnAir'
    BY <2>6 DEF SupervisedOnAir
  <2> QED
    BY <1>2, <1>4, <1>7, <2>2, <2>5, <2>7 DEF SInv, Present
<1>8. CASE Become(s) /\ UNCHANGED <<ptt_room, tickets>>
  BY <1>2, <1>3, <1>4, <1>8, BecomeSInv
<1>9. CASE /\ tickets < MaxTickets
           /\ \E q \in Places(s.requests, c, room) :
                Become([s EXCEPT !.requests =
                  (s.requests \ {q}) \cup {[q EXCEPT !.id = tickets + 1]}])
           /\ tickets' = tickets + 1 /\ UNCHANGED ptt_room
  <2>1. PICK q \in Places(s.requests, c, room) :
          Become([s EXCEPT !.requests =
            (s.requests \ {q}) \cup {[q EXCEPT !.id = tickets + 1]}])
    BY <1>9
  <2> DEFINE q2 == [q EXCEPT !.id = tickets + 1]
             rq == (s.requests \ {q}) \cup {q2}
             t == [s EXCEPT !.requests = rq]
             no == FALSE
             new == [client |-> c, room |-> room, id |-> 0, granted |-> no, elmers |-> {}]
  <2>2. \/ q \in s.requests
        \/ Cardinality(s.requests) < Requests /\ q = new
    BY DEF Places, find
  <2>3. q.id = 0 /\ q.client = c
    BY DEF Places, find
  <2>4. EntryOK(q)
    <3>1. EntryOK(new)
      <4>1. no \in BOOLEAN /\ ~no /\ 0 \in 0..MaxTickets /\ {} \in SUBSET Supervisor
        BY DEF SupervisionAssumption
      <4> HIDE DEF no
      <4>2. new \in Entry /\ new.elmers = {} /\ new.granted = no
        BY <4>1 DEF Entry
      <4> HIDE DEF new
      <4>3. IsFiniteSet({}) /\ Cardinality({}) <= Slots
        BY FS_EmptySet DEF SupervisionAssumption
      <4> QED
        BY <4>1, <4>2, <4>3 DEF EntryOK
    <3> QED
      BY <1>5, <2>2, <3>1
  <2> HIDE DEF no, new
  <2>5. ~q.granted /\ q.elmers = {}
    BY <2>3, <2>4 DEF EntryOK
  <2>6. /\ q2 \in Entry /\ q2.id = tickets + 1 /\ q2.client = q.client /\ q2.room = q.room
        /\ q2.granted = q.granted /\ q2.elmers = q.elmers
    <3>1. q \in Entry /\ tickets + 1 \in 0..MaxTickets
      BY <1>5, <1>9, <2>4 DEF EntryOK, SupervisionAssumption
    <3> QED
      BY <3>1 DEF Entry
  <2>7. /\ t.requests = rq /\ t.talker = s.talker /\ t.consent = s.consent
        /\ t.spent = s.spent /\ t.lapse = s.lapse
    <3> HIDE DEF rq
    <3> QED
      BY <1>3 DEF IsState
  <2> HIDE DEF q2
  <2>8. /\ requests' = rq /\ talker' = s.talker /\ consent' = s.consent
        /\ spent' = s.spent /\ lapse' = s.lapse
    BY <2>1, <2>7 DEF Become, q2
  <2>9. /\ Now'.requests = rq /\ Now'.talker = s.talker /\ Now'.consent = s.consent
        /\ Now'.spent = s.spent /\ Now'.lapse = s.lapse
    BY <2>8 DEF Now
  <2>10. EntryOK(q2)
    BY <1>5, <2>4, <2>5, <2>6 DEF EntryOK
  <2>11. IsFiniteSet(rq) /\ Cardinality(rq) <= Requests
    <3> DEFINE R == s.requests \ {q}
    <3>1. /\ IsFiniteSet(R)
          /\ Cardinality(R) = IF q \in s.requests THEN Cardinality(s.requests) - 1
                                                  ELSE Cardinality(s.requests)
      BY <1>5, FS_RemoveElement
    <3> HIDE DEF R
    <3>2. /\ IsFiniteSet(R \cup {q2})
          /\ Cardinality(R \cup {q2}) = IF q2 \in R THEN Cardinality(R) ELSE Cardinality(R) + 1
      BY <3>1, FS_AddElement
    <3>3. Cardinality(s.requests) \in Nat /\ Cardinality(R) \in Nat /\ Requests \in Nat
      BY <1>5, <3>1, FS_CardinalityType DEF SupervisionAssumption
    <3>4. Cardinality(R \cup {q2}) <= Requests
      BY <1>5, <2>2, <3>1, <3>2, <3>3
    <3> QED
      BY <3>2, <3>4 DEF R
  <2>12. \A r \in s.requests : r.id \in 0..tickets
    BY <1>5 DEF Backed
  <2>13. Unique(rq)
    <3>1. \A r \in s.requests : r.id # q2.id
      BY <1>5, <2>6, <2>12
    <3> QED
      BY <1>5, <3>1 DEF Unique
  <2>14. Table(rq)
    BY <1>5, <2>10, <2>11, <2>13 DEF Table
  <2>15. (\A r \in requests : Backed(r, consent, spent))'
    <3> SUFFICES ASSUME NEW r \in rq
                 PROVE  /\ r.id \in 0..(tickets + 1)
                        /\ r.id # 0 => r.id \notin s.spent
                        /\ \A x \in r.elmers : x.age < Idle => <<r.id, x.client>> \in s.consent
      BY <1>9, <2>8 DEF Backed
    <3>1. CASE r = q2
      <4>1. tickets + 1 \notin s.spent
        BY <1>5
      <4> QED
        BY <1>5, <2>5, <2>6, <3>1, <4>1
    <3>2. CASE r \in s.requests
      <4>1. Backed(r, s.consent, s.spent)
        BY <1>5, <3>2
      <4>2. r.id \in 0..(tickets + 1)
        BY <1>5, <2>12, <3>2
      <4> QED
        BY <4>1, <4>2 DEF Backed
    <3> QED
      BY <3>1, <3>2
  <2>16. HasEntry(requests, talker)'
    <3> SUFFICES ASSUME s.talker # NoSession PROVE find(rq, s.talker, ptt_room) # {}
      BY <1>9, <2>8 DEF HasEntry, find
    <3>1. PICK r : r \in find(s.requests, s.talker, ptt_room)
      BY <1>5 DEF HasEntry
    <3>2. CASE r = q
      <4>1. q2 \in find(rq, s.talker, ptt_room)
        BY <2>6, <3>1, <3>2 DEF find
      <4> QED
        BY <4>1
    <3>3. CASE r # q
      <4>1. r \in find(rq, s.talker, ptt_room)
        BY <3>1, <3>3 DEF find
      <4> QED
        BY <4>1
    <3> QED
      BY <3>2, <3>3
  <2>17. Good(Now)'
    <3>1. /\ s.consent \subseteq (1..(tickets + 1)) \X Elmer
          /\ s.spent \subseteq 0..(tickets + 1)
      BY <1>5
    <3>2. Table(requests)'
      BY <2>8, <2>14 DEF Table
    <3> QED
      BY <1>5, <1>9, <2>8, <2>9, <2>15, <2>16, <3>1, <3>2 DEF Good
  <2>18. SupervisedOnAir'
    <3>1. ASSUME NEW r \in find(s.requests, s.talker, ptt_room), allowed(r)
          PROVE  Consented(requests, talker, ptt_room)'
      <4>1. r \in s.requests /\ r.client = s.talker /\ r.room = ptt_room /\ r # q
        BY <2>5, <3>1 DEF find, allowed
      <4>2. r \in find(requests, talker, ptt_room)'
        BY <1>9, <2>8, <4>1 DEF find
      <4>3. allowed(r)'
        BY <1>2, <3>1 DEF allowed, active, eligible
      <4> QED
        BY <4>2, <4>3 DEF Consented
    <3> QED
      BY <1>3, <2>8, <3>1 DEF SupervisedOnAir, Consented
  <2>19. (\A r \in requests : Present(r, online))'
    <3>1. Present(q2, online)
      BY <1>2, <2>3, <2>5, <2>6 DEF Present, eligible
    <3> QED
      BY <1>2, <1>4, <2>8, <3>1 DEF Present
  <2>20. tickets' \in 0..MaxTickets
    BY <1>5, <1>9 DEF SupervisionAssumption
  <2> QED
    BY <1>2, <1>9, <2>17, <2>18, <2>19, <2>20 DEF SInv
<1> QED
  BY <1>6, <1>7, <1>8, <1>9

\* A session opens where nobody in the table is, so it revives no consent.
LEMMA LoginSInv ==
  ASSUME SInv, NEW c \in Session, Login(c)
  PROVE  SInv'
<1>1. /\ online' = online \cup {c}
      /\ UNCHANGED <<requests, fit, talker, ptt_room, tickets, consent, spent, lapse>>
  BY DEF Login
<1>2. /\ Now'.requests = Now.requests /\ Now'.talker = Now.talker
      /\ Now'.consent = Now.consent /\ Now'.spent = Now.spent /\ Now'.lapse = Now.lapse
  BY <1>1 DEF Now
<1>3. Good(Now)'
  BY <1>1, <1>2 DEF SInv, Good, Backed, HasEntry, find, Table
<1>4. SupervisedOnAir'
  BY <1>1 DEF SInv, SupervisedOnAir, Consented, find, allowed, active, eligible
<1> QED
  BY <1>1, <1>3, <1>4 DEF SInv, Present

\* An account changes: until the next tick the channel may be held without an
\* active supervisor.
LEMMA AccountSInv ==
  ASSUME SInv, NEW c \in Session, Account(c)
  PROVE  SInv'
<1>1. /\ fit' \in {fit \ {c}, fit \cup {c}} /\ lapse'
      /\ UNCHANGED <<requests, online, talker, ptt_room, tickets, consent, spent>>
  BY DEF Account
<1>2. /\ Now'.requests = Now.requests /\ Now'.talker = Now.talker
      /\ Now'.consent = Now.consent /\ Now'.spent = Now.spent /\ Now'.lapse = lapse'
  BY <1>1 DEF Now
<1>0. lapse' \in BOOLEAN
  BY DEF Account
<1>3. Good(Now)'
  BY <1>0, <1>1, <1>2 DEF SInv, Good, Backed, HasEntry, find, Table
<1>4. SupervisedOnAir'
  BY <1>1 DEF SupervisedOnAir
<1> QED
  BY <1>1, <1>3, <1>4 DEF SInv, Present

----------------------------------------------------------------------------
(* The theorems *)

\* The server starts with an empty table and a free channel.
LEMMA InitSInv == Init => SInv
<1> SUFFICES ASSUME Init PROVE SInv
  OBVIOUS
<1>1. /\ requests = {} /\ talker = NoSession /\ consent = {} /\ spent = {}
      /\ tickets = 0 /\ ptt_room \in Room /\ online = Session /\ fit = Session
  BY DEF Init
<1>2. lapse \in BOOLEAN
  BY DEF Init
<1>3. IsFiniteSet({}) /\ Cardinality({}) <= Requests /\ 0 \in 0..MaxTickets
  BY FS_EmptySet, SupervisionAssumption
<1>4. Good(Now)
  BY <1>1, <1>2, <1>3, NowFields DEF Good, Table, Unique, HasEntry
<1> QED
  BY <1>1, <1>3, <1>4 DEF SInv, SupervisedOnAir

\* Every handler of supervision.c keeps the invariant.
LEMMA NextSInv == SInv /\ [Next]_vars => SInv'
<1> SUFFICES ASSUME SInv, [Next]_vars PROVE SInv'
  OBVIOUS
<1> USE SupervisionAssumption
<1>1. ASSUME NEW refused \in BOOLEAN, timer_clock_tick_fn(refused) PROVE SInv'
  BY <1>1, TimerSInv
<1>2. ASSUME NEW c \in Noob, NEW room \in Room, Press(c, room) PROVE SInv'
  BY <1>2, PressSInv
<1>3. ASSUME Release PROVE SInv'
  BY <1>3, ReleaseSInv
<1>4. ASSUME NEW e \in Elmer, NEW id \in 1..tickets, Accept(e, id) PROVE SInv'
  BY <1>4, AcceptSInv
<1>5. ASSUME NEW e \in Elmer, NEW id \in 1..tickets, Decline(e, id) PROVE SInv'
  BY <1>5, DeclineSInv
<1>6. ASSUME NEW c \in Session, activity(c) PROVE SInv'
  BY <1>6, ActivitySInv
<1>7. ASSUME NEW c \in Session, closed(c) PROVE SInv'
  BY <1>7, ClosedSInv
<1>8. ASSUME NEW c \in Session, Login(c) PROVE SInv'
  BY <1>8, LoginSInv
<1>9. ASSUME NEW c \in Session, Account(c) PROVE SInv'
  BY <1>9, AccountSInv
<1>10. ASSUME UNCHANGED vars PROVE SInv'
  <2>1. UNCHANGED <<requests, online, fit, talker, ptt_room, tickets, consent, spent, lapse>>
    BY <1>10 DEF vars
  <2>2. Now' = Now
    BY <2>1 DEF Now
  <2>3. Good(Now)'
    BY <2>1, <2>2 DEF SInv, Good, Backed, HasEntry, find, Table
  <2>4. SupervisedOnAir'
    BY <2>1 DEF SInv, SupervisedOnAir, Consented, find, allowed, active, eligible
  <2> QED
    BY <2>1, <2>3, <2>4 DEF SInv, Present
<1> QED
  BY <1>1, <1>2, <1>3, <1>4, <1>5, <1>6, <1>7, <1>8, <1>9, <1>10 DEF Next

\* The table stays good in every behaviour of elmers, noobs, accounts and the
\* clock, for every size of the tables.
THEOREM SupervisionInvariant == Spec => []SInv
  BY InitSInv, NextSInv, PTL DEF Spec

\* requests[] and elmers[] of supervision.c never overflow, and the channel and
\* the tickets keep their types.
THEOREM SupervisionTypeOK == Spec => []TypeOK
<1>1. SInv => TypeOK
  <2> SUFFICES ASSUME SInv PROVE TypeOK
    OBVIOUS
  <2>1. /\ \A q \in requests : q \in Entry /\ Cardinality(q.elmers) <= Slots
        /\ Cardinality(requests) <= Requests
    BY NowFields DEF SInv, Good, Table, EntryOK
  <2>2. /\ consent \subseteq (1..tickets) \X Elmer /\ spent \subseteq 0..tickets
        /\ tickets \in 0..MaxTickets /\ MaxTickets \in Nat
    BY NowFields, SupervisionAssumption DEF SInv, Good
  <2>3. 1..tickets \subseteq 1..MaxTickets /\ 0..tickets \subseteq 0..MaxTickets
    BY <2>2
  <2>4. consent \subseteq (1..MaxTickets) \X Elmer /\ spent \subseteq 0..MaxTickets
    BY <2>2, <2>3
  <2>5. talker \in Noob \cup {NoSession} /\ lapse \in BOOLEAN
    BY NowFields DEF SInv, Good
  <2> QED
    BY <2>1, <2>4, <2>5 DEF SInv, TypeOK
<1> QED
  BY <1>1, SupervisionInvariant, PTL

\* Whoever transmits as a noob is supervised, or a forced release was refused
\* or an account changed since the last tick of rrserver_supervision_tick.
THEOREM SupervisionOnAir == Spec => []SupervisedOnAir
<1>1. SInv => SupervisedOnAir
  BY DEF SInv
<1> QED
  BY <1>1, SupervisionInvariant, PTL

\* Consent counts only where the elmer gave it to this very ticket: none is
\* inherited through a reused address, a reused entry, a late renewal or a
\* restored account.
THEOREM SupervisionConsentExplicit == Spec => []ConsentExplicit
<1>1. SInv => ConsentExplicit
  <2> SUFFICES ASSUME SInv, NEW q \in requests, q.granted
               PROVE  /\ q.id \notin spent
                      /\ \A s \in q.elmers : active(s) => <<q.id, s.client>> \in consent
    BY DEF ConsentExplicit
  <2>1. EntryOK(q) /\ Backed(q, consent, spent)
    BY NowFields DEF SInv, Good, Table
  <2> QED
    BY <2>1 DEF EntryOK, Backed, active
<1> QED
  BY <1>1, SupervisionInvariant, PTL
==============================================================================
