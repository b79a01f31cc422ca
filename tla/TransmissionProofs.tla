------------------------- MODULE TransmissionProofs -------------------------
(***************************************************************************)
(* What the server counts as transmitting, for every number of rigs, VFOs  *)
(* and connections: the channel, the confirmed transmissions, what is on   *)
(* the air and the rows of the log agree; and the sessions of linked       *)
(* servers do not disturb it.                                              *)
(*                                                                         *)
(* PInv says where the requests of a rig are in its line.  Here the        *)
(* requests are compared with the talker: there is one key-down that still *)
(* counts, it is the talker's, and nothing behind it takes it back.        *)
(*                                                                         *)
(* The last part proves the types, of which one is a matter of counting:   *)
(* no job is completed more often than it was submitted.                   *)
(***************************************************************************)
EXTENDS Relay, PttProofs

\* The emergency stop of one of several rigs clears the talker of another.
\* Without it, or with a single rig, the talker is cleared only by a loop that
\* releases the rig that is keyed.
OneStop == Rigs = {DefaultRig} \/ Causes \cap {"trip", "reset"} = {}

----------------------------------------------------------------------------
(* The key-down that still counts *)

Live(p) == p.on /\ ~p.superseded

NoneLive(pd) == \A p \in Elems(pd) : ~Live(p)

\* A release of v of r is pending.
ReleasePending(pd, r, v) == \E q \in Elems(pd) : ~q.on /\ q.rig = r /\ q.vfo = v

\* It is the talker's, and a loop that is running has yet to release it.
LiveHeld ==
  \A p \in Elems(pending) : Live(p) =>
    /\ talker # NoClient /\ p.owner = talker /\ p.rig = ptt_rig /\ p.vfo = ptt_vfo
    /\ off # NoLoop => off.next <= p.vfo
    /\ dying => off # NoLoop

OneLive(pd) == \A p, q \in Elems(pd) : Live(p) /\ Live(q) => p.id = q.id

\* Releases are pending on its own rig only.
LiveAlone(pd) == \A p, q \in Elems(pd) : Live(p) /\ ~q.on => q.rig = p.rig

\* Only a key-down is superseded, and only by a newer release of its VFO.
ReleasesCount(pd) == \A p \in Elems(pd) : ~p.on => ~p.superseded

SupersededOvertaken(pd) ==
  \A p \in Elems(pd) : p.on /\ p.superseded => Overtaken(pd, p.id)

TalkerRig == talker # NoClient => ptt_rig \in Rigs

\* The loop has requested the releases of the VFOs it has been through.
LoopPending ==
  off # NoLoop => \A v \in VFO : v < off.next => ReleasePending(pending, Target, v)

GInv ==
  /\ LiveHeld /\ OneLive(pending) /\ LiveAlone(pending) /\ ReleasesCount(pending)
  /\ SupersededOvertaken(pending) /\ TalkerRig /\ LoopPending

\* Every key-down of list pe that counts is one of list pd.
LiveFrom(pd, pe) ==
  \A p \in Elems(pe) : Live(p) =>
    \E q \in Elems(pd) : /\ Live(q) /\ q.id = p.id /\ q.rig = p.rig /\ q.vfo = p.vfo
                         /\ q.owner = p.owner

\* What a request to release v of t makes of the pending requests: the release
\* is there, no other was lost, and the key-down of v no longer counts.
Reduced(pd, pe, t, v) ==
  /\ LiveFrom(pd, pe)
  /\ \A p \in Elems(pe) : Live(p) => ~(p.rig = t /\ p.vfo = v)
  /\ \A p \in Elems(pe) : ~p.on =>
       ~p.superseded /\ (ReleasePending(pd, p.rig, p.vfo) \/ (p.rig = t /\ p.vfo = v))
  /\ \A r, w : ReleasePending(pd, r, w) => ReleasePending(pe, r, w)
  /\ ReleasePending(pe, t, v)
  /\ SupersededOvertaken(pe)

\* A list in which key-downs of v of t, which a release follows or will follow,
\* may have been marked as superseded.
Marked(pd, pe, t, v) ==
  /\ pe \in Seq(Pending) /\ Len(pe) = Len(pd)
  /\ \A i \in 1..Len(pd) :
       /\ pe[i].id = pd[i].id /\ pe[i].rig = pd[i].rig
       /\ pe[i].vfo = pd[i].vfo /\ pe[i].on = pd[i].on
       /\ pd[i].superseded => pe[i].superseded
       /\ pe[i].superseded => pd[i].superseded \/ (pd[i].on /\ pd[i].rig = t /\ pd[i].vfo = v)
       /\ Live(pe[i]) => pe[i].owner = pd[i].owner

\* What a marked list has in common with the list it came from.
LEMMA MarkedKeeps ==
  ASSUME NEW pd \in Seq(Pending), NEW pe, NEW t, NEW v, Marked(pd, pe, t, v)
  PROVE  /\ LiveFrom(pd, pe)
         /\ \A r, w : ReleasePending(pd, r, w) <=> ReleasePending(pe, r, w)
         /\ ReleasesCount(pd) => ReleasesCount(pe)
         /\ \A k : Overtaken(pd, k) <=> Overtaken(pe, k)
         /\ Relabelled(pd, pe)
<1>1. Elems(pd) = {pd[i] : i \in 1..Len(pd)} /\ Elems(pe) = {pe[i] : i \in 1..Len(pd)}
  BY DEF Marked, Elems
<1>2. LiveFrom(pd, pe)
  <2>. SUFFICES ASSUME NEW i \in 1..Len(pd), Live(pe[i])
                PROVE  Live(pd[i]) /\ pd[i].id = pe[i].id /\ pd[i].rig = pe[i].rig
                       /\ pd[i].vfo = pe[i].vfo /\ pd[i].owner = pe[i].owner
    BY <1>1 DEF LiveFrom
  <2>. QED
    BY DEF Marked, Live
<1>3. \A r, w : ReleasePending(pd, r, w) <=> ReleasePending(pe, r, w)
  BY <1>1 DEF Marked, ReleasePending
<1>4. ReleasesCount(pd) => ReleasesCount(pe)
  BY <1>1 DEF Marked, ReleasesCount
<1>5. \A k : Overtaken(pd, k) <=> Overtaken(pe, k)
  BY DEF Marked, Overtaken
<1>6. Relabelled(pd, pe)
  BY DEF Marked, Relabelled
<1>. QED
  BY <1>2, <1>3, <1>4, <1>5, <1>6

\* Marking twice.
LEMMA MarkedTwice ==
  ASSUME NEW pd \in Seq(Pending), NEW q, NEW t, NEW v, Marked(pd, q, t, v)
  PROVE  /\ Marked(pd, Supersede(q, t, v), t, v)
         /\ \A z \in Elems(Supersede(q, t, v)) : ~(Live(z) /\ z.rig = t /\ z.vfo = v)
<1>. DEFINE s == Supersede(q, t, v)
<1>1. q \in Seq(Pending) /\ Len(q) = Len(pd)
  BY DEF Marked
<1>2. /\ s \in Seq(Pending) /\ Len(s) = Len(pd)
      /\ \A z \in Elems(s) : z.on /\ z.rig = t /\ z.vfo = v => z.superseded
  BY <1>1, SupersedeIs DEF Relabelled
<1>3. \A i \in 1..Len(q) :
        /\ s[i].id = q[i].id /\ s[i].rig = q[i].rig /\ s[i].vfo = q[i].vfo
        /\ s[i].on = q[i].on /\ s[i].owner = q[i].owner
        /\ s[i].superseded = (q[i].superseded \/ (q[i].rig = t /\ q[i].vfo = v /\ q[i].on))
  BY DEF Supersede
<1>. HIDE DEF s
<1>4. Marked(pd, s, t, v)
  <2>1. ASSUME NEW i \in 1..Len(pd)
        PROVE  /\ s[i].id = pd[i].id /\ s[i].rig = pd[i].rig
               /\ s[i].vfo = pd[i].vfo /\ s[i].on = pd[i].on
               /\ pd[i].superseded => s[i].superseded
               /\ s[i].superseded => pd[i].superseded \/ (pd[i].on /\ pd[i].rig = t /\ pd[i].vfo = v)
               /\ Live(s[i]) => s[i].owner = pd[i].owner
    <3>1. i \in 1..Len(q) /\ q[i] \in Pending /\ pd[i] \in Pending
      BY <1>1, <2>1
    <3>2. /\ q[i].id = pd[i].id /\ q[i].rig = pd[i].rig
          /\ q[i].vfo = pd[i].vfo /\ q[i].on = pd[i].on
          /\ pd[i].superseded => q[i].superseded
          /\ q[i].superseded => pd[i].superseded \/ (pd[i].on /\ pd[i].rig = t /\ pd[i].vfo = v)
          /\ Live(q[i]) => q[i].owner = pd[i].owner
      BY <2>1 DEF Marked
    <3>3. /\ s[i].id = q[i].id /\ s[i].rig = q[i].rig /\ s[i].vfo = q[i].vfo
          /\ s[i].on = q[i].on /\ s[i].owner = q[i].owner
          /\ s[i].superseded = (q[i].superseded \/ (q[i].rig = t /\ q[i].vfo = v /\ q[i].on))
      BY <3>1, <1>3
    <3>4. q[i].superseded \in BOOLEAN
      BY <3>1 DEF Pending
    <3>5. Live(s[i]) => Live(q[i])
      BY <3>3, <3>4, ZenonT(30) DEF Live
    <3>. QED
      BY <3>2, <3>3, <3>4, <3>5
  <2>. QED
    BY <1>2, <2>1 DEF Marked
<1>5. \A z \in Elems(s) : ~(Live(z) /\ z.rig = t /\ z.vfo = v)
  BY <1>2 DEF Live
<1>. QED
  BY <1>4, <1>5 DEF s

\* The list of pending requests as it is, and that of a connection that closes.
LEMMA OrphanMarked ==
  ASSUME NEW pd \in Seq(Pending), NEW c, NEW t, NEW v,
         \A p \in Elems(pd) : Live(p) /\ p.owner = c => p.rig = t /\ p.vfo = v
  PROVE  Marked(pd, pd, t, v) /\ Marked(pd, Orphan(pd, c), t, v)
<1>1. Marked(pd, pd, t, v)
  BY DEF Marked
<1>. DEFINE s == Orphan(pd, c)
<1>2. s \in Seq(Pending) /\ Len(s) = Len(pd)
  BY OrphanIs DEF Relabelled
<1>3. \A i \in 1..Len(pd) :
        /\ s[i].id = pd[i].id /\ s[i].rig = pd[i].rig /\ s[i].vfo = pd[i].vfo
        /\ s[i].on = pd[i].on
        /\ s[i].owner = IF pd[i].owner = c THEN NoClient ELSE pd[i].owner
        /\ s[i].superseded = (pd[i].superseded \/ (pd[i].owner = c /\ pd[i].on))
  BY DEF Orphan
<1>4. \A i \in 1..Len(pd) : pd[i] \in Elems(pd)
  BY DEF Elems
<1>. HIDE DEF s
<1>5. ASSUME NEW i \in 1..Len(pd)
      PROVE  /\ pd[i].superseded => s[i].superseded
             /\ s[i].superseded => pd[i].superseded \/ (pd[i].on /\ pd[i].rig = t /\ pd[i].vfo = v)
             /\ Live(s[i]) => s[i].owner = pd[i].owner
  BY <1>3, <1>4 DEF Live
<1>6. Marked(pd, s, t, v)
  BY <1>2, <1>3, <1>5 DEF Marked
<1>. QED
  BY <1>1, <1>6 DEF s

\* A request to release v.
LEMMA RequestReduces ==
  ASSUME PInv, GInv, NEW v \in VFO, NEW owner \in Client, NEW q, Marked(pending, q, Target, v),
         RequestRelease(q, v, owner, FALSE)
  PROVE  Reduced(pending, pending', Target, v)
<1>. DEFINE t == Target
<1>1. /\ pending \in Seq(Pending) /\ Unique(pending) /\ OvertakenSuperseded(pending)
  BY DEF PInv, Ordered, Lines
<1>2. t \in Rigs
  BY TargetRig DEF PInv
<1>3. ReleasesCount(pending) /\ SupersededOvertaken(pending)
  BY DEF GInv
<1>4. Elems(pending) = {pending[i] : i \in 1..Len(pending)}
  BY DEF Elems
<1>. HIDE DEF t
<1>5. ASSUME NEW pe, Marked(pending, pe, t, v), NEW i \in 1..Len(pe),
             pe[i].on, pe[i].superseded
      PROVE  \/ Overtaken(pending, pe[i].id)
             \/ Live(pending[i]) /\ pending[i].rig = t /\ pending[i].vfo = v
  <2>1. pending[i].on /\ pending[i].id = pe[i].id /\ i \in 1..Len(pending)
    BY <1>5 DEF Marked
  <2>2. CASE pending[i].superseded
    BY <1>3, <1>4, <2>1, <2>2 DEF SupersededOvertaken
  <2>3. CASE ~pending[i].superseded
    BY <1>5, <2>1, <2>3 DEF Marked, Live
  <2>. QED
    BY <2>2, <2>3
<1>6. CASE Duplicate(t, v) /\ pending' = q
  <2>1. PICK m \in 1..Len(pending) :
          /\ pending[m].rig = t /\ pending[m].vfo = v /\ ~pending[m].on
          /\ \A k \in 1..(m - 1) : ~(pending[k].rig = t /\ pending[k].vfo = v)
    BY <1>6 DEF Duplicate
  <2>2. ASSUME NEW i \in 1..Len(pending), Live(pending[i]), pending[i].rig = t, pending[i].vfo = v
        PROVE  FALSE
    <3>1. i # m /\ ~(i < m)
      BY <2>1, <2>2 DEF Live
    <3>2. m < i
      BY <3>1
    <3>. QED
      BY <1>1, <2>1, <2>2, <3>2 DEF OvertakenSuperseded, Live
  <2>3. LiveFrom(pending, q) /\ ReleasesCount(q)
        /\ (\A r, w : ReleasePending(pending, r, w) <=> ReleasePending(q, r, w))
        /\ (\A k : Overtaken(pending, k) <=> Overtaken(q, k))
    BY <1>1, <1>3, MarkedKeeps DEF t
  <2>4. ReleasePending(pending, t, v)
    BY <1>4, <2>1 DEF ReleasePending
  <2>5. \A p \in Elems(q) : Live(p) => ~(p.rig = t /\ p.vfo = v)
    BY <1>4, <2>2, <2>3 DEF LiveFrom
  <2>6. SupersededOvertaken(q)
    <3>. SUFFICES ASSUME NEW i \in 1..Len(q), q[i].on, q[i].superseded PROVE Overtaken(q, q[i].id)
      BY DEF SupersededOvertaken, Elems
    <3>1. i \in 1..Len(pending)
      BY DEF Marked
    <3>. QED
      BY <1>5, <2>2, <2>3, <3>1 DEF t
  <2>7. \A p \in Elems(q) : ~p.on => ~p.superseded /\ ReleasePending(pending, p.rig, p.vfo)
    <3>1. \A p \in Elems(q) : ~p.on => ReleasePending(q, p.rig, p.vfo)
      BY DEF ReleasePending
    <3>. QED
      BY <2>3, <3>1 DEF ReleasesCount
  <2>. QED
    BY <1>6, <2>3, <2>4, <2>5, <2>6, <2>7 DEF Reduced, t
<1>7. CASE pending' = <<NewPending(t, v, FALSE, owner)>> \o Supersede(q, t, v)
  <2>. DEFINE n == NewPending(t, v, FALSE, owner)
              s == Supersede(q, t, v)
  <2>1. /\ Marked(pending, s, t, v)
        /\ \A z \in Elems(s) : ~(Live(z) /\ z.rig = t /\ z.vfo = v)
    BY <1>1, MarkedTwice DEF t
  <2>2. /\ LiveFrom(pending, s) /\ ReleasesCount(s) /\ Relabelled(pending, s)
        /\ (\A r, w : ReleasePending(pending, r, w) <=> ReleasePending(s, r, w))
        /\ (\A k : Overtaken(pending, k) <=> Overtaken(s, k))
    BY <1>1, <1>3, <2>1, MarkedKeeps
  <2>3. s \in Seq(Pending) /\ Unique(s)
    BY <1>1, <2>2 DEF Relabelled, Unique
  <2>4. n \in Pending /\ n.on = FALSE /\ n.rig = t /\ n.vfo = v /\ n.superseded = FALSE
        /\ n.id = NewId
    BY <1>1, <1>2, NewIdFresh DEF NewPending, Pending
  <2>5. \A z \in Elems(s) : z.id # n.id
    <3>1. \A i \in 1..Len(s) : i \in 1..Len(pending) /\ s[i].id = pending[i].id
      BY <2>2 DEF Relabelled
    <3>2. \A i \in 1..Len(pending) : pending[i].id # NewId
      BY <1>1, <1>4, NewIdFresh
    <3>. QED
      BY <2>4, <3>1, <3>2 DEF Elems
  <2>. DEFINE pe == <<n>> \o s
  <2>. HIDE DEF n, s
  <2>6. /\ Elems(pe) = Elems(s) \cup {n}
        /\ \A k : Overtaken(s, k) => Overtaken(pe, k)
        /\ \A z \in Elems(s) : z.rig = t /\ z.vfo = v => Overtaken(pe, z.id)
    BY <2>3, <2>4, <2>5, AddOrder
  <2>. HIDE DEF pe
  <2>7. LiveFrom(pending, pe) /\ (\A p \in Elems(pe) : Live(p) => ~(p.rig = t /\ p.vfo = v))
    BY <2>1, <2>2, <2>4, <2>6 DEF LiveFrom, Live
  <2>8. \A p \in Elems(pe) : ~p.on =>
          ~p.superseded /\ (ReleasePending(pending, p.rig, p.vfo) \/ (p.rig = t /\ p.vfo = v))
    <3>1. \A p \in Elems(s) : ~p.on => ReleasePending(s, p.rig, p.vfo)
      BY DEF ReleasePending
    <3>. QED
      BY <2>2, <2>4, <2>6, <3>1 DEF ReleasesCount
  <2>9. (\A r, w : ReleasePending(pending, r, w) => ReleasePending(pe, r, w)) /\ ReleasePending(pe, t, v)
    <3>1. \A r, w : ReleasePending(s, r, w) => ReleasePending(pe, r, w)
      BY <2>6 DEF ReleasePending
    <3>2. ReleasePending(pe, t, v)
      BY <2>4, <2>6 DEF ReleasePending
    <3>. QED
      BY <2>2, <3>1, <3>2
  <2>10. SupersededOvertaken(pe)
    <3>. SUFFICES ASSUME NEW p \in Elems(pe), p.on, p.superseded PROVE Overtaken(pe, p.id)
      BY DEF SupersededOvertaken
    <3>1. p \in Elems(s)
      BY <2>4, <2>6
    <3>2. PICK i \in 1..Len(s) : p = s[i]
      BY <3>1 DEF Elems
    <3>3. Overtaken(pending, p.id) \/ (p.rig = t /\ p.vfo = v)
      <4>1. i \in 1..Len(pending) /\ s[i].rig = pending[i].rig /\ s[i].vfo = pending[i].vfo
        BY <2>2, <3>2 DEF Relabelled
      <4>. QED
        BY <1>5, <2>1, <3>2, <4>1
    <3>. QED
      BY <2>2, <2>6, <3>1, <3>3
  <2>11. Reduced(pending, pe, t, v)
    BY <2>7, <2>8, <2>9, <2>10 DEF Reduced
  <2>. QED
    BY <1>7, <2>11 DEF pe, n, s, t
<1>8. \/ Duplicate(t, v) /\ pending' = q
      \/ pending' = <<NewPending(t, v, FALSE, owner)>> \o Supersede(q, t, v)
  BY DEF RequestRelease, t
<1>. QED
  BY <1>6, <1>7, <1>8
----------------------------------------------------------------------------
(* Replaying a result *)

\* The pending requests are requests.
LEMMA PendingElem ==
  ASSUME NEW pd \in Seq(Pending)
  PROVE  \A p \in Elems(pd) : p \in Pending
<1>1. \A i \in 1..Len(pd) : pd[i] \in Pending
  OBVIOUS
<1>. QED
  BY <1>1 DEF Elems

\* A pending request is answered by an item of the line of its rig.
LEMMA CarriedItem ==
  ASSUME NEW pd, Unique(pd), NEW r, NEW J, NEW D, NEW x, NEW Q, RigSound(pd, r, J, D, x, Q),
         NEW z \in Elems(pd), z.rig = r
  PROVE  \E X \in Items(J, D, x, Q) : z.id \in X.ids /\ X.vfo = z.vfo /\ X.on = z.on
<1>1. PICK X \in Items(J, D, x, Q) : z.id \in X.ids
  BY DEF RigSound, Carried
<1>2. PICK p \in Elems(pd) : p.id = z.id /\ p.vfo = X.vfo /\ p.on = X.on
  BY <1>1 DEF RigSound, Matched
<1>3. p = z
  BY <1>2 DEF Unique, Elems
<1>. QED
  BY <1>1, <1>2, <1>3

\* The first result and what is behind it.
LEMMA FirstResult ==
  ASSUME PInv, NEW j, Replay(j)
  PROVE  /\ j = Head(jobs) /\ jobs # <<>> /\ jobs \in Seq(Result) /\ j.rig \in Rigs
         /\ RigSound(pending, j.rig, jobs, done[j.rig], running[j.rig], queue[j.rig])
         /\ JobsOf(jobs, j.rig) = jobs /\ JobsOf(Tail(jobs), j.rig) = Tail(jobs)
         /\ \A s : s # j.rig => JobsOf(jobs, s) = <<>> /\ JobsOf(Tail(jobs), s) = <<>>
<1>1. j = Head(jobs) /\ jobs # <<>>
  BY DEF Replay
<1>2. Lines(pending, jobs, done, running, queue)
  BY DEF PInv, Ordered
<1>3. jobs \in Seq(Result) /\ OneRig(jobs)
  BY <1>2 DEF Lines
<1>4. /\ j \in Result /\ JobsOf(jobs, j.rig) = jobs /\ JobsOf(Tail(jobs), j.rig) = Tail(jobs)
      /\ \A s : s # j.rig => JobsOf(jobs, s) = <<>> /\ JobsOf(Tail(jobs), s) = <<>>
  BY <1>1, <1>3, JobsOfTail
<1>5. j.rig \in Rigs
  BY <1>4 DEF Result
<1>6. RigSound(pending, j.rig, jobs, done[j.rig], running[j.rig], queue[j.rig])
  BY <1>2, <1>4, <1>5 DEF Lines
<1>. QED
  BY <1>1, <1>3, <1>4, <1>5, <1>6

\* Unlinking the request of the first result: a release that has taken back a
\* key-down is not answered before it.
LEMMA UnlinkReduces ==
  ASSUME PInv, GInv, NEW j, Replay(j), NEW p \in Elems(pending), p.id = j.pend
  PROVE  LET w == Without(pending, {p})
         IN  /\ Elems(w) = Elems(pending) \ {p} /\ SupersededOvertaken(w)
             /\ \A z \in Elems(pending) : z.id = p.id => z = p
<1>. DEFINE w == Without(pending, {p})
<1>1. pending \in Seq(Pending) /\ Unique(pending)
  BY DEF PInv, Ordered, Lines
<1>2. /\ Elems(w) = Elems(pending) \ {p} /\ \A z \in Elems(w) : z.id # p.id
      /\ \A k : Overtaken(pending, k) /\ k # p.id =>
           \/ Overtaken(w, k)
           \/ /\ Newer(pending, p.id, k) /\ ~p.on
              /\ \A q \in Elems(pending) : q.id = k => q.rig = p.rig /\ q.vfo = p.vfo
  BY <1>1, UnlinkOrder
<1>3. \A z \in Elems(pending) : z.id = p.id => z = p
  BY <1>1 DEF Unique, Elems
<1>4. /\ p.rig = j.rig /\ p.vfo = j.vfo /\ p.on = j.on
  BY UnlinkFirst DEF PInv
<1>5. p.id # 0
  BY <1>1, PendingElem DEF Pending
<1>. DEFINE D == done[j.rig]
            x == running[j.rig]
            Q == queue[j.rig]
<1>6. /\ j = Head(jobs) /\ jobs # <<>> /\ jobs \in Seq(Result)
      /\ RigSound(pending, j.rig, jobs, D, x, Q)
  BY FirstResult
<1>. HIDE DEF D, x, Q, w
<1>7. /\ \A y \in Items(Tail(jobs), D, x, Q) : InOrder(pending, ResultItem(j), y)
      /\ Items(jobs, D, x, Q) = Items(Tail(jobs), D, x, Q) \cup {ResultItem(j)}
  BY <1>6, ReplayLine DEF RigSound
<1>8. /\ ResultItem(j).ids = {j.pend} \ {0} /\ ResultItem(j).on = j.on /\ ResultItem(j).vfo = j.vfo
  BY DEF ResultItem
<1>9. ASSUME NEW z \in Elems(w), z.on, z.superseded
      PROVE  Overtaken(w, z.id)
  <2>1. z \in Elems(pending) /\ z.id # p.id /\ Overtaken(pending, z.id)
    BY <1>2, <1>9 DEF GInv, SupersededOvertaken
  <2>2. SUFFICES ASSUME Newer(pending, p.id, z.id), ~p.on, z.rig = p.rig, z.vfo = p.vfo
                 PROVE  FALSE
    BY <1>2, <2>1
  <2>3. PICK X \in Items(jobs, D, x, Q) : z.id \in X.ids /\ X.vfo = z.vfo /\ X.on = z.on
    BY <1>1, <1>4, <1>6, <2>1, <2>2, CarriedItem
  <2>4. X \in Items(Tail(jobs), D, x, Q)
    BY <1>7, <1>8, <2>1, <2>3
  <2>5. InOrder(pending, ResultItem(j), X)
    BY <1>7, <2>4
  <2>6. p.id \in ResultItem(j).ids
    BY <1>5, <1>8
  <2>7. Newer(pending, z.id, p.id)
    BY <1>4, <1>8, <1>9, <2>2, <2>3, <2>5, <2>6 DEF InOrder
  <2>. QED
    BY <1>1, <2>2, <2>7, NewerAsymmetric
<1>10. SupersededOvertaken(w)
  BY <1>9 DEF SupersededOvertaken
<1>. QED
  BY <1>2, <1>3, <1>10 DEF w
----------------------------------------------------------------------------
(* The actions and the key-down that counts *)

\* The talker's rig is the one a release goes to.
LEMMA TalkerTarget ==
  ASSUME GInv, talker # NoClient
  PROVE  ptt_rig \in Rigs /\ Target = ptt_rig
BY PttAssumption DEF GInv, TalkerRig, Target

\* A key-down that counts is a talker's.
LEMMA LiveTalker ==
  ASSUME GInv, NEW p \in Elems(pending), Live(p)
  PROVE  /\ talker # NoClient /\ p.owner = talker /\ p.rig = ptt_rig /\ p.vfo = ptt_vfo
         /\ Target = p.rig
BY TalkerTarget DEF GInv, LiveHeld

\* No key-down counts any more.
LEMMA NoneLiveKeeps ==
  ASSUME NoneLive(pending'), off' = NoLoop, talker' # NoClient => ptt_rig' \in Rigs,
         ReleasesCount(pending'), SupersededOvertaken(pending')
  PROVE  GInv'
BY DEF GInv, NoneLive, LiveHeld, OneLive, LiveAlone, TalkerRig, LoopPending

\* A request to release keeps what is said of the list alone.
LEMMA ReducedKeeps ==
  ASSUME GInv, NEW v, Reduced(pending, pending', Target, v)
  PROVE  /\ OneLive(pending') /\ LiveAlone(pending') /\ ReleasesCount(pending')
         /\ SupersededOvertaken(pending')
         /\ \A p \in Elems(pending') : Live(p) =>
              /\ talker # NoClient /\ p.owner = talker /\ p.rig = ptt_rig /\ p.vfo = ptt_vfo
              /\ p.vfo # v
              /\ \E p0 \in Elems(pending) : Live(p0) /\ p0.id = p.id /\ p0.rig = p.rig /\ p0.vfo = p.vfo
         /\ NoneLive(pending) => NoneLive(pending')
<1>1. ASSUME NEW p \in Elems(pending'), Live(p)
      PROVE  /\ talker # NoClient /\ p.owner = talker /\ p.rig = ptt_rig /\ p.vfo = ptt_vfo
             /\ p.vfo # v /\ Target = p.rig
             /\ \E p0 \in Elems(pending) : Live(p0) /\ p0.id = p.id /\ p0.rig = p.rig /\ p0.vfo = p.vfo
  <2>1. PICK p0 \in Elems(pending) : /\ Live(p0) /\ p0.id = p.id /\ p0.rig = p.rig
                                     /\ p0.vfo = p.vfo /\ p0.owner = p.owner
    BY <1>1 DEF Reduced, LiveFrom
  <2>2. ~(p.rig = Target /\ p.vfo = v)
    BY <1>1 DEF Reduced
  <2>. QED
    BY <2>1, <2>2, LiveTalker
<1>2. OneLive(pending')
  BY <1>1 DEF OneLive, GInv
<1>3. ReleasesCount(pending') /\ SupersededOvertaken(pending')
  BY DEF Reduced, ReleasesCount
<1>4. LiveAlone(pending')
  <2>. SUFFICES ASSUME NEW p \in Elems(pending'), NEW q \in Elems(pending'), Live(p), ~q.on
                PROVE  q.rig = p.rig
    BY DEF LiveAlone
  <2>1. ReleasePending(pending, q.rig, q.vfo) \/ q.rig = Target
    BY DEF Reduced
  <2>2. CASE q.rig = Target
    BY <1>1, <2>2
  <2>3. CASE ReleasePending(pending, q.rig, q.vfo)
    BY <1>1, <2>3 DEF ReleasePending, GInv, LiveAlone
  <2>. QED
    BY <2>1, <2>2, <2>3
<1>5. NoneLive(pending) => NoneLive(pending')
  BY <1>1 DEF NoneLive
<1>. QED
  BY <1>1, <1>2, <1>3, <1>4, <1>5

\* The request of the talker.
LEMMA KeyUpGInv ==
  ASSUME PInv, GInv, KeyUp
  PROVE  GInv' /\ Reduced(pending, pending', Target, ptt_vfo) /\ NoneLive(pending')
<1>1. ptt_vfo \in VFO /\ talker # NoClient /\ off = NoLoop
  BY DEF PInv, Typed, KeyUp, Idle
<1>2. PICK rejected \in BOOLEAN :
        /\ RequestRelease(pending, ptt_vfo, NoClient, rejected)
        /\ IF rejected THEN UNCHANGED <<talker, ptt_vfo>>
                       ELSE talker' = NoClient /\ ptt_vfo' = NoVfo
  BY DEF KeyUp
<1>3. pending \in Seq(Pending) /\ NoClient \in Client
  BY DEF PInv, Ordered, Lines, Client
<1>4. ~rejected
  BY <1>1, <1>2, <1>3, SameRelabelled, RequestReleaseStep DEF PInv
<1>5. Marked(pending, pending, Target, ptt_vfo)
  BY <1>3 DEF Marked
<1>6. Reduced(pending, pending', Target, ptt_vfo)
  BY <1>1, <1>2, <1>3, <1>4, <1>5, RequestReduces
<1>7. NoneLive(pending') /\ ReleasesCount(pending') /\ SupersededOvertaken(pending')
  BY <1>6, ReducedKeeps DEF NoneLive
<1>8. talker' = NoClient /\ off' = NoLoop
  BY <1>1, <1>2, <1>4 DEF KeyUp
<1>. QED
  BY <1>6, <1>7, <1>8, NoneLiveKeeps

\* What a connection that closes does to the requests.
Closed(c) ==
  IF c = talker
    THEN /\ Reduced(pending, pending', Target, ptt_vfo) /\ NoneLive(pending')
         /\ talker' = NoClient
    ELSE /\ LiveFrom(pending, pending') /\ LiveFrom(pending', pending)
         /\ \A r, w : ReleasePending(pending, r, w) <=> ReleasePending(pending', r, w)
         /\ UNCHANGED <<talker, ptt_vfo, worker>>

\* A connection closes.
LEMMA DisconnectGInv ==
  ASSUME PInv, GInv, NEW c \in Clients, Disconnect(c)
  PROVE  GInv' /\ Closed(c)
<1>1. off = NoLoop /\ ~dying /\ off' = off /\ ptt_rig' = ptt_rig /\ dying' = dying
  BY DEF Disconnect, Idle
<1>2. pending \in Seq(Pending) /\ NoClient \in Client /\ c # NoClient
  BY LogAssumption DEF PInv, Ordered, Lines, Client
<1>3. CASE c = talker
  <2>1. ptt_vfo \in VFO
    BY <1>2, <1>3 DEF PInv, Typed
  <2>2. PICK rejected \in BOOLEAN : RequestRelease(Orphan(pending, c), ptt_vfo, NoClient, rejected)
    BY <1>3 DEF Disconnect
  <2>3. ~rejected
    BY <1>2, <2>1, <2>2, OrphanIs, RequestReleaseStep DEF PInv
  <2>4. \A p \in Elems(pending) : Live(p) /\ p.owner = c => p.rig = Target /\ p.vfo = ptt_vfo
    BY LiveTalker
  <2>5. Marked(pending, Orphan(pending, c), Target, ptt_vfo)
    BY <1>2, <2>4, OrphanMarked
  <2>6. Reduced(pending, pending', Target, ptt_vfo)
    BY <1>2, <2>1, <2>2, <2>3, <2>5, RequestReduces
  <2>7. NoneLive(pending') /\ ReleasesCount(pending') /\ SupersededOvertaken(pending')
    BY <2>6, ReducedKeeps DEF NoneLive
  <2>8. talker' = NoClient
    BY <1>3 DEF Disconnect
  <2>9. GInv'
    BY <1>1, <2>7, <2>8, NoneLiveKeeps
  <2>. QED
    BY <1>3, <2>6, <2>7, <2>8, <2>9 DEF Closed
<1>4. CASE c # talker
  <2>1. pending' = Orphan(pending, c) /\ UNCHANGED <<talker, ptt_vfo, worker>>
    BY <1>4 DEF Disconnect
  <2>2. \A p \in Elems(pending) : Live(p) => p.owner # c
    BY <1>4, LiveTalker
  <2>3. Marked(pending, pending', NoRig, NoVfo)
    BY <1>2, <2>1, <2>2, OrphanMarked
  <2>4. /\ LiveFrom(pending, pending') /\ ReleasesCount(pending')
        /\ (\A r, w : ReleasePending(pending, r, w) <=> ReleasePending(pending', r, w))
        /\ (\A k : Overtaken(pending, k) <=> Overtaken(pending', k))
    BY <1>2, <2>3, MarkedKeeps DEF GInv
  <2>5. \A i \in 1..Len(pending) : pending[i] \in Elems(pending)
    BY DEF Elems
  <2>6. ASSUME NEW i \in 1..Len(pending)
        PROVE  pending'[i].on = pending[i].on /\ pending'[i].id = pending[i].id
               /\ pending'[i].rig = pending[i].rig /\ pending'[i].vfo = pending[i].vfo
               /\ (pending'[i].superseded => pending[i].superseded)
               /\ (Live(pending[i]) => pending'[i].owner = pending[i].owner)
    <3>1. /\ pending'[i].on = pending[i].on /\ pending'[i].id = pending[i].id
          /\ pending'[i].rig = pending[i].rig /\ pending'[i].vfo = pending[i].vfo
          /\ pending'[i].owner = IF pending[i].owner = c THEN NoClient ELSE pending[i].owner
          /\ pending'[i].superseded = (pending[i].superseded \/ (pending[i].owner = c /\ pending[i].on))
      BY <2>1 DEF Orphan
    <3>2. Live(pending[i]) => pending[i].owner # c
      BY <2>2, <2>5
    <3>3. pending'[i].superseded => pending[i].superseded
      BY <3>1, <3>2 DEF Live
    <3>. QED
      BY <3>1, <3>2, <3>3
  <2>7. Len(pending') = Len(pending)
    BY <2>3 DEF Marked
  <2>8. LiveFrom(pending', pending)
    <3>. SUFFICES ASSUME NEW i \in 1..Len(pending), Live(pending[i])
                  PROVE  /\ Live(pending'[i]) /\ pending'[i].id = pending[i].id
                         /\ pending'[i].rig = pending[i].rig /\ pending'[i].vfo = pending[i].vfo
                         /\ pending'[i].owner = pending[i].owner
      BY <2>7 DEF LiveFrom, Elems
    <3>. QED
      BY <2>2, <2>5, <2>6 DEF Live
  <2>9. SupersededOvertaken(pending')
    <3>. SUFFICES ASSUME NEW i \in 1..Len(pending), pending'[i].on, pending'[i].superseded
                  PROVE  Overtaken(pending', pending'[i].id)
      BY <2>7 DEF SupersededOvertaken, Elems
    <3>1. pending[i].on /\ pending[i].superseded
      BY <2>2, <2>5, <2>6 DEF Live
    <3>2. Overtaken(pending, pending[i].id)
      BY <2>5, <3>1 DEF GInv, SupersededOvertaken
    <3>. QED
      BY <2>4, <2>6, <3>2
  <2>10. LiveHeld' /\ OneLive(pending')
    BY <1>1, <2>1, <2>4 DEF LiveHeld, OneLive, LiveFrom, GInv
  <2>11. LiveAlone(pending')
    <3>. SUFFICES ASSUME NEW p \in Elems(pending'), NEW q \in Elems(pending'), Live(p), ~q.on
                  PROVE  q.rig = p.rig
      BY DEF LiveAlone
    <3>1. ReleasePending(pending, q.rig, q.vfo)
      BY <2>4 DEF ReleasePending
    <3>. QED
      BY <2>4, <3>1 DEF LiveFrom, ReleasePending, LiveAlone, GInv
  <2>12. TalkerRig' /\ LoopPending'
    BY <1>1, <2>1 DEF TalkerRig, LoopPending, GInv
  <2>. QED
    BY <1>4, <2>1, <2>4, <2>8, <2>9, <2>10, <2>11, <2>12 DEF GInv, Closed
<1>. QED
  BY <1>3, <1>4

\* The channel is free: no key-down counts.
LEMMA FreeChannel ==
  ASSUME GInv, talker = NoClient
  PROVE  NoneLive(pending)
BY LiveTalker DEF NoneLive

\* Request p was added in front of the others, and is the one that counts.
KeyDownPending(p, r, v, c) ==
  /\ p \in Pending /\ p.id = NewId /\ p.on = TRUE /\ p.rig = r /\ p.vfo = v /\ p.owner = c
  /\ \A z \in Elems(pending) : z.id # p.id
  /\ pending' = <<p>> \o pending /\ Elems(pending') = Elems(pending) \cup {p}
  /\ \A z \in Elems(pending') : Live(z) <=> z = p
  /\ SubmitKeyDown(r, v, NewId)
  /\ talker' = c /\ ptt_vfo' = v /\ ~tx_blocked

\* A client keys.
LEMMA KeyDownGInv ==
  ASSUME PInv, GInv, NEW c \in Clients, NEW r \in Rigs, NEW v \in VFO, KeyDown(c, r, v)
  PROVE  /\ GInv' /\ NoneLive(pending)
         /\ \/ UNCHANGED <<talker, ptt_vfo, pending, worker>>
            \/ \E p : KeyDownPending(p, r, v, c)
<1>1. /\ off = NoLoop /\ ~dying /\ off' = off /\ ptt_rig' = r /\ dying' = dying
      /\ talker = NoClient
  BY DEF KeyDown, Idle, switches
<1>2. NoneLive(pending)
  BY <1>1, FreeChannel
<1>3. pending \in Seq(Pending) /\ Unique(pending)
  BY DEF PInv, Ordered, Lines
<1>4. ReleasesCount(pending) /\ SupersededOvertaken(pending)
  BY DEF GInv
<1>5. CASE UNCHANGED <<talker, ptt_vfo, pending, worker>>
  <2>1. GInv'
    BY <1>1, <1>2, <1>4, <1>5, NoneLiveKeeps
  <2>. QED
    BY <1>2, <1>5, <2>1
<1>6. CASE ~UNCHANGED <<talker, ptt_vfo, pending, worker>>
  <2>1. PICK denied \in BOOLEAN :
          /\ ~KeyDownBarred(r, denied) /\ ~KeyDownRefused(r)
          /\ talker' = c /\ ptt_vfo' = v /\ SubmitKeyDown(r, v, NewId)
          /\ pending' = <<NewPending(r, v, TRUE, c)>> \o pending
    BY <1>6 DEF KeyDown
  <2>. DEFINE p == NewPending(r, v, TRUE, c)
  <2>2. /\ p \in Pending /\ p.id = NewId /\ p.on = TRUE /\ p.rig = r /\ p.vfo = v /\ p.owner = c
        /\ p.superseded = FALSE
    BY <1>3, NewIdFresh DEF NewPending, Pending, Client
  <2>3. \A z \in Elems(pending) : z.id # p.id
    BY <1>3, <2>2, NewIdFresh
  <2>4. pending' = <<p>> \o pending
    BY <2>1
  <2>. HIDE DEF p
  <2>5. /\ Elems(pending') = Elems(pending) \cup {p}
        /\ \A k : Overtaken(pending, k) => Overtaken(pending', k)
    BY <1>3, <2>2, <2>3, <2>4, AddOrder
  <2>6. \A z \in Elems(pending') : Live(z) <=> z = p
    BY <1>2, <2>2, <2>5 DEF NoneLive, Live
  <2>7. ~tx_blocked /\ \A q \in Elems(pending) : ~q.on => q.rig = r
    BY <2>1 DEF KeyDownBarred, KeyDownRefused
  <2>8. LiveHeld' /\ OneLive(pending') /\ LiveAlone(pending')
    <3>1. c # NoClient
      BY LogAssumption
    <3>. QED
      BY <1>1, <2>1, <2>2, <2>5, <2>6, <2>7, <3>1 DEF LiveHeld, OneLive, LiveAlone
  <2>9. ReleasesCount(pending') /\ SupersededOvertaken(pending')
    BY <1>4, <2>2, <2>5 DEF ReleasesCount, SupersededOvertaken
  <2>10. TalkerRig' /\ LoopPending'
    BY <1>1 DEF TalkerRig, LoopPending
  <2>11. KeyDownPending(p, r, v, c)
    BY <2>1, <2>2, <2>3, <2>4, <2>5, <2>6, <2>7 DEF KeyDownPending
  <2>. QED
    BY <1>2, <2>8, <2>9, <2>10, <2>11 DEF GInv
<1>. QED
  BY <1>5, <1>6

\* rr_ptt_set_all_off_reason starts, for the rig of the talker if there is one.
LEMMA StartOffGInv ==
  ASSUME OneStop, PInv, GInv, NEW why, NEW r, StartOff(why, r),
         r = ptt_rig \/ (r \in Rigs /\ why \in {"trip", "reset"})
  PROVE  GInv' /\ (talker # NoClient => ptt_rig' = ptt_rig)
<1>1. /\ off = NoLoop /\ off' # NoLoop /\ off'.next = 0 /\ ptt_rig' = r
      /\ UNCHANGED <<talker, ptt_vfo, pending>> /\ why \in Causes
  BY DEF StartOff, NoLoop
<1>2. talker # NoClient => r = ptt_rig
  <2>. SUFFICES ASSUME talker # NoClient, r \in Rigs, why \in {"trip", "reset"} PROVE r = ptt_rig
    OBVIOUS
  <2>1. Rigs = {DefaultRig}
    BY <1>1 DEF OneStop
  <2>. QED
    BY <2>1, TalkerTarget
<1>3. \A p \in Elems(pending) : p.vfo \in VFO
  <2>1. pending \in Seq(Pending)
    BY DEF PInv, Ordered, Lines
  <2>. QED
    BY <2>1, PendingElem DEF Pending
<1>4. \A v \in VFO : 0 <= v /\ ~(v < 0)
  BY LogAssumption DEF VFO
<1>5. LiveHeld'
  BY <1>1, <1>2, <1>3, <1>4 DEF LiveHeld, GInv
<1>6. LoopPending'
  BY <1>1, <1>4 DEF LoopPending
<1>7. TalkerRig'
  BY <1>1, <1>2 DEF TalkerRig, GInv
<1>8. /\ OneLive(pending') /\ LiveAlone(pending') /\ ReleasesCount(pending')
      /\ SupersededOvertaken(pending')
  BY <1>1 DEF GInv
<1>. QED
  BY <1>1, <1>2, <1>5, <1>6, <1>7, <1>8 DEF GInv

\* One VFO of the loop.
LEMMA OffVfoGInv ==
  ASSUME PInv, GInv, OffVfo
  PROVE  GInv' /\ Reduced(pending, pending', Target, off.next) /\ off.next \in VFO /\ off' # NoLoop
<1>1. /\ off # NoLoop /\ off.next < MaxVfos /\ UNCHANGED <<talker, ptt_vfo, ptt_rig, dying>>
      /\ off \in Loop
  BY DEF OffVfo, PInv, Typed, switches
<1>2. off.next \in VFO /\ off.next \in Nat
  BY <1>1, LogAssumption DEF Loop, VFO
<1>3. PICK rejected \in BOOLEAN :
        /\ RequestRelease(pending, off.next, talker, rejected)
        /\ off' = [why |-> off.why, next |-> off.next + 1,
                   failed |-> off.failed \/ rejected, previous |-> off.previous]
  BY DEF OffVfo
<1>4. pending \in Seq(Pending) /\ talker \in Client
  BY DEF PInv, Ordered, Lines, Typed
<1>5. ~rejected
  BY <1>2, <1>3, <1>4, SameRelabelled, RequestReleaseStep DEF PInv
<1>6. Marked(pending, pending, Target, off.next)
  BY <1>4 DEF Marked
<1>7. Reduced(pending, pending', Target, off.next)
  BY <1>2, <1>3, <1>4, <1>5, <1>6, RequestReduces
<1>8. /\ OneLive(pending') /\ LiveAlone(pending') /\ ReleasesCount(pending')
      /\ SupersededOvertaken(pending')
      /\ \A p \in Elems(pending') : Live(p) =>
           /\ talker # NoClient /\ p.owner = talker /\ p.rig = ptt_rig /\ p.vfo = ptt_vfo
           /\ p.vfo # off.next
           /\ \E p0 \in Elems(pending) : Live(p0) /\ p0.id = p.id /\ p0.rig = p.rig /\ p0.vfo = p.vfo
  BY <1>7, ReducedKeeps
<1>9. off' # NoLoop /\ off'.next = off.next + 1
  BY <1>3 DEF NoLoop
<1>10. LiveHeld'
  <2>. SUFFICES ASSUME NEW p \in Elems(pending'), Live(p) PROVE off.next + 1 <= p.vfo
    BY <1>1, <1>8, <1>9 DEF LiveHeld
  <2>1. PICK p0 \in Elems(pending) : Live(p0) /\ p0.vfo = p.vfo
    BY <1>8
  <2>2. off.next <= p.vfo /\ p.vfo # off.next
    BY <1>1, <1>8, <2>1 DEF GInv, LiveHeld
  <2>3. p.vfo \in VFO
    BY <1>4, <2>1, PendingElem DEF Pending
  <2>4. p.vfo \in Int
    BY <2>3, LogAssumption DEF VFO
  <2>. QED
    BY <1>2, <2>2, <2>4
<1>11. LoopPending'
  <2>1. Target' = Target
    BY <1>1 DEF Target
  <2>. SUFFICES ASSUME NEW v \in VFO, v < off.next + 1 PROVE ReleasePending(pending', Target, v)
    BY <1>9, <2>1 DEF LoopPending
  <2>2. v < off.next \/ v = off.next
    BY <1>2, LogAssumption DEF VFO
  <2>. QED
    BY <1>1, <1>7, <2>2 DEF Reduced, LoopPending, GInv
<1>12. TalkerRig'
  BY <1>1 DEF TalkerRig, GInv
<1>. QED
  BY <1>2, <1>7, <1>8, <1>9, <1>10, <1>11, <1>12 DEF GInv

\* The end of the loop: nothing that counts is left, and everything of the rig
\* is released.
LEMMA EndOffGInv ==
  ASSUME PInv, GInv, EndOff
  PROVE  /\ GInv' /\ NoneLive(pending) /\ pending' = pending
         /\ talker' = NoClient /\ off' = NoLoop /\ ~off.failed
         /\ \A v \in VFO : ReleasePending(pending, Target, v)
<1>1. /\ off # NoLoop /\ off.next = MaxVfos /\ off' = NoLoop /\ pending' = pending
      /\ ~off.failed /\ talker' = NoClient
  BY DEF EndOff, PInv, ReleaseAccepted
<1>2. \A v \in VFO : v < MaxVfos /\ ~(MaxVfos <= v)
  BY LogAssumption DEF VFO
<1>3. NoneLive(pending)
  <2>1. pending \in Seq(Pending)
    BY DEF PInv, Ordered, Lines
  <2>2. \A p \in Elems(pending) : p.vfo \in VFO
    BY <2>1, PendingElem DEF Pending
  <2>. QED
    BY <1>1, <1>2, <2>2 DEF NoneLive, GInv, LiveHeld
<1>4. \A v \in VFO : ReleasePending(pending, Target, v)
  BY <1>1, <1>2 DEF GInv, LoopPending
<1>5. GInv'
  BY <1>1, <1>3, NoneLiveKeeps DEF GInv
<1>. QED
  BY <1>1, <1>3, <1>4, <1>5

\* A request that is answered is unlinked.  The channel stays as it is, or is
\* freed with the key-down that counted.
LEMMA UnlinkGInv ==
  ASSUME PInv, GInv, NEW j, Replay(j), NEW p \in Elems(pending), p.id = j.pend,
         pending' = Without(pending, {p}),
         UNCHANGED <<talker, ptt_vfo>> \/ (Live(p) /\ talker' = NoClient)
  PROVE  /\ GInv' /\ Elems(pending') = Elems(pending) \ {p}
         /\ p.rig = j.rig /\ p.vfo = j.vfo /\ p.on = j.on
         /\ IF Live(p) THEN NoneLive(pending') ELSE NoneLive(pending') <=> NoneLive(pending)
<1>1. /\ off = NoLoop /\ off' = off /\ UNCHANGED <<ptt_rig, dying>>
  BY DEF Replay
<1>2. /\ Elems(pending') = Elems(pending) \ {p} /\ SupersededOvertaken(pending')
      /\ \A z \in Elems(pending) : z.id = p.id => z = p
  BY UnlinkReduces
<1>3. /\ p.rig = j.rig /\ p.vfo = j.vfo /\ p.on = j.on
  BY UnlinkFirst DEF PInv
<1>4. ReleasesCount(pending')
  BY <1>2 DEF ReleasesCount, GInv
<1>5. Live(p) => NoneLive(pending')
  BY <1>2 DEF NoneLive, GInv, OneLive
<1>6. ~Live(p) => (NoneLive(pending') <=> NoneLive(pending))
  BY <1>2 DEF NoneLive
<1>7. CASE UNCHANGED <<talker, ptt_vfo>>
  <2>1. LiveHeld' /\ TalkerRig' /\ LoopPending'
    BY <1>1, <1>2, <1>7 DEF LiveHeld, TalkerRig, LoopPending, GInv
  <2>2. OneLive(pending') /\ LiveAlone(pending')
    BY <1>2 DEF OneLive, LiveAlone, GInv
  <2>. QED
    BY <1>2, <1>3, <1>4, <1>5, <1>6, <2>1, <2>2 DEF GInv
<1>8. CASE Live(p) /\ talker' = NoClient
  <2>1. GInv'
    BY <1>1, <1>2, <1>4, <1>5, <1>8, NoneLiveKeeps
  <2>. QED
    BY <1>2, <1>3, <1>5, <1>6, <1>8, <2>1
<1>. QED
  BY <1>7, <1>8

\* A request that still counts is completed.  That of a key-down is never
\* stale: the talker cannot change while it counts.
LEMMA CompletedIs ==
  ASSUME PInv, GInv, NEW j, NEW p, Completed(j, p)
  PROVE  /\ p \in Elems(pending) /\ p.id = j.pend /\ j.pend # 0 /\ ~dying /\ ~p.superseded
         /\ Replay(j) /\ pending' = Without(pending, {p})
         /\ p.on => Live(p) /\ ~Stale(p)
<1>1. /\ p = PendingOf(j.pend) /\ j.pend # 0 /\ ~dying /\ ~p.superseded /\ Replay(j)
      /\ pending' = Without(pending, {p}) /\ j = Head(jobs) /\ jobs # <<>>
  BY DEF Completed, Replay
<1>2. p \in Elems(pending) /\ p.id = j.pend
  BY <1>1, PendingOfIs DEF PInv
<1>3. ASSUME p.on PROVE Live(p) /\ ~Stale(p)
  <2>1. Live(p)
    BY <1>1, <1>3 DEF Live
  <2>. QED
    BY <1>2, <2>1, LiveTalker DEF Stale
<1>. QED
  BY <1>1, <1>2, <1>3

\* A result nobody waits for any more.  Its request, if it has one, is a
\* key-down that was superseded, or the server is shutting down.
LEMMA DropIs ==
  ASSUME PInv, GInv, NEW j, DropResult(j)
  PROVE  /\ Replay(j) /\ CountOut(j) /\ UNCHANGED <<talker, ptt_vfo>>
         /\ \/ j.pend = 0 /\ pending' = pending
            \/ \E p \in Elems(pending) :
                 /\ p.id = j.pend /\ pending' = Without(pending, {p}) /\ ~Live(p)
                 /\ dying \/ (p.on /\ p.superseded)
<1>1. /\ Replay(j) /\ CountOut(j) /\ UNCHANGED <<talker, ptt_vfo>> /\ j = Head(jobs) /\ jobs # <<>>
      /\ off = NoLoop
  BY DEF DropResult, Replay
<1>2. CASE j.pend = 0 /\ pending' = pending
  BY <1>1, <1>2
<1>3. CASE j.pend # 0 /\ (dying \/ PendingOf(j.pend).superseded)
           /\ pending' = Without(pending, {PendingOf(j.pend)})
  <2>. DEFINE p == PendingOf(j.pend)
  <2>1. p \in Elems(pending) /\ p.id = j.pend
    BY <1>1, <1>3, PendingOfIs DEF PInv
  <2>. HIDE DEF p
  <2>2. dying => ~Live(p)
    BY <1>1, <2>1 DEF GInv, LiveHeld
  <2>3. p.superseded => p.on /\ ~Live(p)
    BY <2>1 DEF GInv, ReleasesCount, Live
  <2>4. dying \/ p.superseded
    BY <1>3 DEF p
  <2>5. pending' = Without(pending, {p})
    BY <1>3 DEF p
  <2>. QED
    BY <1>1, <2>1, <2>2, <2>3, <2>4, <2>5
<1>4. \/ j.pend = 0 /\ pending' = pending
      \/ j.pend # 0 /\ (dying \/ PendingOf(j.pend).superseded)
           /\ pending' = Without(pending, {PendingOf(j.pend)})
  BY DEF DropResult
<1>. QED
  BY <1>2, <1>3, <1>4

\* A result is replayed.
LEMMA CompleteGInv ==
  ASSUME PInv, GInv, Complete
  PROVE  GInv'
<1>1. PICK j \in Elems(jobs) :
        \/ DropResult(j)
        \/ \E p \in Elems(pending) :
             \/ CancelStale(j, p) \/ RejectKeyDown(j, p) \/ ConfirmKeyDown(j, p)
             \/ LockKeyDown(j, p) \/ FailRelease(j, p) \/ ConfirmRelease(j, p)
  BY DEF Complete
<1>2. CASE DropResult(j)
  <2>1. /\ Replay(j) /\ UNCHANGED <<talker, ptt_vfo>>
        /\ \/ pending' = pending
           \/ \E p \in Elems(pending) : p.id = j.pend /\ pending' = Without(pending, {p})
    BY <1>2, DropIs
  <2>2. CASE pending' = pending
    <3>1. UNCHANGED <<talker, ptt_vfo, ptt_rig, dying, off, pending>>
      BY <2>1, <2>2 DEF Replay
    <3>. QED
      BY <3>1 DEF GInv, LiveHeld, TalkerRig, LoopPending, Target
  <2>3. CASE \E p \in Elems(pending) : p.id = j.pend /\ pending' = Without(pending, {p})
    BY <2>1, <2>3, UnlinkGInv
  <2>. QED
    BY <2>1, <2>2, <2>3
<1>3. ASSUME NEW p \in Elems(pending),
             \/ CancelStale(j, p) \/ RejectKeyDown(j, p) \/ ConfirmKeyDown(j, p)
             \/ LockKeyDown(j, p) \/ FailRelease(j, p) \/ ConfirmRelease(j, p)
      PROVE  GInv'
  <2>1. Completed(j, p)
    BY <1>3 DEF CancelStale, RejectKeyDown, ConfirmKeyDown, LockKeyDown, FailRelease, ConfirmRelease
  <2>2. /\ p.id = j.pend /\ Replay(j) /\ pending' = Without(pending, {p}) /\ (p.on => Live(p))
    BY <2>1, CompletedIs
  <2>3. UNCHANGED <<talker, ptt_vfo>> \/ (p.on /\ talker' = NoClient)
    BY <1>3 DEF CancelStale, RejectKeyDown, ConfirmKeyDown, LockKeyDown, FailRelease, ConfirmRelease
  <2>. QED
    BY <2>2, <2>3, UnlinkGInv
<1>. QED
  BY <1>1, <1>2, <1>3

\* A step that touches neither the requests nor the channel.
LEMMA QuietGInv ==
  ASSUME GInv, UNCHANGED <<talker, ptt_vfo, ptt_rig, dying, off, pending>>
  PROVE  GInv'
BY DEF GInv, LiveHeld, TalkerRig, LoopPending, Target

\* The starts of the loop.
LEMMA LoopStartIs ==
  ASSUME \/ ForceOff \/ Fault \/ TalkTimeout \/ RetryStop \/ Shutdown
         \/ \E r \in Rigs : EstopTrip(r) \/ EstopReset(r)
  PROVE  \E why, r : StartOff(why, r) /\ (r = ptt_rig \/ (r \in Rigs /\ why \in {"trip", "reset"}))
<1>1. CASE ForceOff
  BY <1>1 DEF ForceOff
<1>2. CASE Fault
  BY <1>2 DEF Fault
<1>3. CASE TalkTimeout
  BY <1>3 DEF TalkTimeout
<1>4. CASE RetryStop
  BY <1>4 DEF RetryStop
<1>5. CASE Shutdown
  BY <1>5 DEF Shutdown
<1>6. ASSUME NEW r \in Rigs, EstopTrip(r) \/ EstopReset(r)
      PROVE  \E why, s : StartOff(why, s) /\ (s = ptt_rig \/ (s \in Rigs /\ why \in {"trip", "reset"}))
  BY <1>6 DEF EstopTrip, EstopReset
<1>. QED
  BY <1>1, <1>2, <1>3, <1>4, <1>5, <1>6

\* Every action keeps the agreement of requests and talker.
LEMMA StepGInv ==
  ASSUME OneStop, PInv, GInv, [Next]_vars
  PROVE  GInv'
<1>1. CASE UNCHANGED vars
  BY <1>1, QuietGInv DEF vars, switches
<1>2. ASSUME NEW c \in Clients, NEW r \in Rigs, NEW v \in VFO, KeyDown(c, r, v) PROVE GInv'
  BY <1>2, KeyDownGInv
<1>3. CASE KeyUp
  BY <1>3, KeyUpGInv
<1>4. ASSUME NEW c \in Clients, Disconnect(c) PROVE GInv'
  BY <1>4, DisconnectGInv
<1>5. CASE \/ ForceOff \/ Fault \/ TalkTimeout \/ RetryStop \/ Shutdown
           \/ \E r \in Rigs : EstopTrip(r) \/ EstopReset(r)
  <2>1. PICK why, r : StartOff(why, r) /\ (r = ptt_rig \/ (r \in Rigs /\ why \in {"trip", "reset"}))
    BY <1>5, LoopStartIs
  <2>. QED
    BY <2>1, StartOffGInv
<1>6. CASE OffVfo
  BY <1>6, OffVfoGInv
<1>7. CASE EndOff
  BY <1>7, EndOffGInv
<1>8. CASE Complete
  BY <1>8, CompleteGInv
<1>9. ASSUME NEW r \in Rigs, Drain(r) \/ Take(r) \/ Execute(r) PROVE GInv'
  BY <1>9, QuietGInv DEF Drain, Take, Execute, switches
<1>10. CASE AccountingFailed
  BY <1>10, QuietGInv DEF AccountingFailed
<1>. QED
  BY <1>1, <1>2, <1>3, <1>4, <1>5, <1>6, <1>7, <1>8, <1>9, <1>10 DEF Next, WorkerStep

\* It holds at the start.
LEMMA InitGInv ==
  ASSUME Init
  PROVE  GInv /\ Elems(pending) = {} /\ off = NoLoop
<1>1. Elems(pending) = {}
  BY DEF Init, Elems
<1>. QED
  BY <1>1 DEF Init, GInv, LiveHeld, OneLive, LiveAlone, ReleasesCount, SupersededOvertaken,
              TalkerRig, LoopPending
----------------------------------------------------------------------------
(* The results of a rig *)

\* The results of rig r that are still to be replayed, the detached ones first.
LineIn(J, d, r) == JobsOf(J, r) \o d[r]

\* Line M is line L with results of key-downs behind it.
LineGrows(L, M) ==
  \E E \in Seq(Result) : M = L \o E /\ \A i \in 1..Len(E) : E[i].on /\ E[i].pend # 0

\* Line M is line L without its first result j.
LineLed(j, L, M) == L \in Seq(Result) /\ L # <<>> /\ j = Head(L) /\ M = Tail(L)

\* Its type, and whose results they are.
LEMMA LineType ==
  ASSUME PInv, NEW r \in Rigs
  PROVE  /\ LineIn(jobs, done, r) \in Seq(Result)
         /\ Elems(LineIn(jobs, done, r)) = Elems(JobsOf(jobs, r)) \cup Elems(done[r])
         /\ \A y \in Elems(LineIn(jobs, done, r)) : y.rig = r /\ y \in Elems(jobs) \cup Elems(done[r])
         /\ \A y \in Elems(LineIn(jobs, done, r)) : ResultItem(y) \in
              Items(JobsOf(jobs, r), done[r], running[r], queue[r])
<1>1. Lines(pending, jobs, done, running, queue)
  BY DEF PInv, Ordered
<1>2. jobs \in Seq(Result) /\ done[r] \in Seq(Result) /\ OneRig(jobs)
  BY <1>1 DEF Lines
<1>3. JobsOf(jobs, r) \in Seq(Result)
  BY <1>2, JobsOfType
<1>4. /\ LineIn(jobs, done, r) \in Seq(Result)
      /\ Elems(LineIn(jobs, done, r)) = Elems(JobsOf(jobs, r)) \cup Elems(done[r])
  BY <1>2, <1>3, ConcatElems DEF LineIn
<1>5. \A y \in Elems(done[r]) : y.rig = r
  BY <1>1 DEF Lines, RigSound
<1>6. \A y \in Elems(JobsOf(jobs, r)) : y.rig = r /\ y \in Elems(jobs)
  <2>1. CASE jobs # <<>> /\ jobs[1].rig = r
    <3>1. 1 \in 1..Len(jobs)
      BY <1>2, <2>1, TailElems
    <3>. QED
      BY <1>2, <2>1, <3>1 DEF JobsOf, OneRig, Elems
  <2>2. CASE ~(jobs # <<>> /\ jobs[1].rig = r)
    BY <2>2, NoItems DEF JobsOf
  <2>. QED
    BY <2>1, <2>2
<1>7. \A y \in Elems(LineIn(jobs, done, r)) : ResultItem(y) \in
              Items(JobsOf(jobs, r), done[r], running[r], queue[r])
  BY <1>4 DEF Items, ResultItems
<1>. QED
  BY <1>4, <1>5, <1>6, <1>7

\* Detaching the results of a worker moves none of them.
LEMMA LineDrain ==
  ASSUME PInv, NEW r \in Rigs, Drain(r)
  PROVE  \A s \in Rigs : LineIn(jobs', done', s) = LineIn(jobs, done, s)
<1>1. /\ jobs = <<>> /\ done[r] # <<>> /\ jobs' = done[r] /\ done' = [done EXCEPT ![r] = <<>>]
  BY DEF Drain
<1>2. done \in [Rigs -> Seq(Result)] /\ \A y \in Elems(done[r]) : y.rig = r
  BY DEF PInv, Ordered, Lines, RigSound
<1>3. done[r] \in Seq(Result)
  BY <1>2
<1>4. done[r][1].rig = r
  <2>1. done[r][1] \in Elems(done[r])
    BY <1>1, <1>3, TailElems
  <2>. QED
    BY <1>2, <2>1
<1>5. ASSUME NEW s \in Rigs PROVE LineIn(jobs', done', s) = LineIn(jobs, done, s)
  <2>1. JobsOf(jobs, s) = <<>>
    BY <1>1 DEF JobsOf
  <2>2. done[s] \in Seq(Result) /\ LineIn(jobs, done, s) = done[s]
    BY <1>2, <2>1 DEF LineIn
  <2>3. CASE s = r
    <3>1. JobsOf(jobs', s) = done[s] /\ done'[s] = <<>>
      BY <1>1, <1>2, <1>4, <2>3 DEF JobsOf
    <3>. QED
      BY <2>2, <3>1 DEF LineIn
  <2>4. CASE s # r
    <3>1. JobsOf(jobs', s) = <<>> /\ done'[s] = done[s]
      BY <1>1, <1>2, <1>4, <2>4 DEF JobsOf
    <3>. QED
      BY <2>2, <3>1 DEF LineIn
  <2>. QED
    BY <2>3, <2>4
<1>. QED
  BY <1>5

\* The first result leaves the line of its rig.
LEMMA LineReplay ==
  ASSUME PInv, NEW j, Replay(j)
  PROVE  /\ j.rig \in Rigs /\ LineLed(j, LineIn(jobs, done, j.rig), LineIn(Tail(jobs), done, j.rig))
         /\ \A s \in Rigs : s # j.rig => LineIn(Tail(jobs), done, s) = LineIn(jobs, done, s)
<1>1. /\ j = Head(jobs) /\ jobs # <<>> /\ jobs \in Seq(Result) /\ j.rig \in Rigs
      /\ JobsOf(jobs, j.rig) = jobs /\ JobsOf(Tail(jobs), j.rig) = Tail(jobs)
      /\ \A s : s # j.rig => JobsOf(jobs, s) = <<>> /\ JobsOf(Tail(jobs), s) = <<>>
  BY FirstResult
<1>2. done[j.rig] \in Seq(Result)
  BY <1>1 DEF PInv, Ordered, Lines
<1>. DEFINE D == done[j.rig]
            J == jobs
<1>. HIDE DEF D, J
<1>3. /\ J \o D \in Seq(Result) /\ J \o D # <<>> /\ Head(J) = Head(J \o D)
      /\ Tail(J) \o D = Tail(J \o D)
  <2>1. J \in Seq(Result) /\ D \in Seq(Result) /\ J # <<>>
    BY <1>1, <1>2 DEF D, J
  <2>. QED
    BY <2>1
<1>4. \A s : s # j.rig => LineIn(Tail(jobs), done, s) = LineIn(jobs, done, s)
  BY <1>1 DEF LineIn
<1>5. LineIn(jobs, done, j.rig) = J \o D /\ LineIn(Tail(jobs), done, j.rig) = Tail(J) \o D
  BY <1>1 DEF LineIn, D, J
<1>. QED
  BY <1>1, <1>3, <1>4, <1>5 DEF LineLed, J

\* Results E go behind those of rig r.
Appended(d, e, r, E) == e = [d EXCEPT ![r] = d[r] \o E]

\* They go behind the line of r.
LEMMA LineAppend ==
  ASSUME NEW J \in Seq(Result), NEW d \in [Rigs -> Seq(Result)], NEW r \in Rigs, NEW E \in Seq(Result),
         NEW e, Appended(d, e, r, E)
  PROVE  /\ LineIn(J, e, r) = LineIn(J, d, r) \o E
         /\ \A s \in Rigs : s # r => LineIn(J, e, s) = LineIn(J, d, s)
<1>1. JobsOf(J, r) \in Seq(Result) /\ d[r] \in Seq(Result)
  BY JobsOfType
<1>2. JobsOf(J, r) \o (d[r] \o E) = (JobsOf(J, r) \o d[r]) \o E
  BY <1>1
<1>. QED
  BY <1>2 DEF LineIn, Appended

\* Results of the worker go behind the line of its rig.
LEMMA WorkerAppends ==
  ASSUME PInv, NEW r \in Rigs, NEW E \in Seq(Result), Appended(done, done', r, E)
  PROVE  /\ LineIn(jobs, done', r) = LineIn(jobs, done, r) \o E
         /\ \A s \in Rigs : s # r => LineIn(jobs, done', s) = LineIn(jobs, done, s)
<1>1. jobs \in Seq(Result) /\ done \in [Rigs -> Seq(Result)]
  BY DEF PInv, Ordered, Lines
<1>2. JobsOf(jobs, r) \in Seq(Result) /\ done[r] \in Seq(Result)
  BY <1>1, JobsOfType
<1>3. done'[r] = done[r] \o E /\ \A s \in Rigs : s # r => done'[s] = done[s]
  BY <1>1 DEF Appended
<1>. DEFINE J == JobsOf(jobs, r)
            D == done[r]
<1>. HIDE DEF J, D
<1>4. J \o (D \o E) = (J \o D) \o E
  <2>1. J \in Seq(Result) /\ D \in Seq(Result)
    BY <1>2 DEF J, D
  <2>. QED
    BY <2>1
<1>5. LineIn(jobs, done', r) = J \o (D \o E) /\ LineIn(jobs, done, r) = J \o D
  BY <1>3 DEF LineIn, J, D
<1>. QED
  BY <1>3, <1>4, <1>5 DEF LineIn

\* A line that stays as it is.
LEMMA LineSame ==
  ASSUME NEW L \in Seq(Result)
  PROVE  LineGrows(L, L)
<1>1. <<>> \in Seq(Result) /\ L = L \o <<>> /\ Len(<<>>) = 0
  OBVIOUS
<1>2. \A i \in 1..Len(<<>>) : FALSE
  BY <1>1
<1>. QED
  BY <1>1, <1>2 DEF LineGrows

\* A release that is submitted sends back the key-downs it cancels.
LEMMA LineSubmit ==
  ASSUME PInv, NEW J \in Seq(Result), NEW r \in Rigs, NEW v, NEW k,
         Submitted(r, v, k, done, running, queue, done', running', queue')
  PROVE  \A s \in Rigs : LineGrows(LineIn(J, done, s), LineIn(J, done', s))
<1>1. done \in [Rigs -> Seq(Result)] /\ queue[r] \in Seq(Job) /\ \A j \in Elems(queue[r]) : JobSound(j)
  BY DEF PInv, Ordered, Lines, RigSound, WorkerSound
<1>. DEFINE E == Cancelled(r, queue[r], v)
            gone == Filter(queue[r], Cut(queue[r], v))
<1>2. /\ E \in Seq(Result) /\ Len(E) = Len(gone) /\ Len(E) \in Nat
      /\ \A i \in 1..Len(E) : ResultItem(E[i]) = JobItem(gone[i]) /\ E[i].on = gone[i].on
  BY <1>1, CancelledItems
<1>3. Elems(gone) = Elems(queue[r]) \cap Cut(queue[r], v)
  BY <1>1, FilterElems
<1>4. Appended(done, done', r, E)
  BY DEF Submitted, Appended
<1>5. ASSUME NEW i \in 1..Len(E) PROVE E[i].on /\ E[i].pend # 0
  <2>1. gone[i] \in Elems(gone)
    BY <1>2 DEF Elems
  <2>2. gone[i].on /\ JobSound(gone[i])
    BY <1>1, <1>3, <2>1 DEF Cut
  <2>3. gone[i].pends[1] # 0 /\ 1 \in 1..Len(gone[i].pends)
    BY <2>2 DEF JobSound
  <2>4. JobItem(gone[i]).ids # {}
    BY <2>3 DEF JobItem, Elems
  <2>5. ResultItem(E[i]).ids # {}
    BY <1>2, <2>4
  <2>6. E[i].pend # 0
    BY <2>5 DEF ResultItem
  <2>. QED
    BY <1>2, <2>2, <2>6
<1>. HIDE DEF E
<1>6. /\ LineIn(J, done', r) = LineIn(J, done, r) \o E
      /\ \A s \in Rigs : s # r => LineIn(J, done', s) = LineIn(J, done, s)
  BY <1>1, <1>2, <1>4, LineAppend
<1>7. \A s \in Rigs : LineIn(J, done, s) \in Seq(Result)
  <2>1. \A s \in Rigs : JobsOf(J, s) \in Seq(Result) /\ done[s] \in Seq(Result)
    BY <1>1, JobsOfType
  <2>. QED
    BY <2>1 DEF LineIn
<1>8. LineGrows(LineIn(J, done, r), LineIn(J, done', r))
  BY <1>2, <1>5, <1>6 DEF LineGrows
<1>9. \A s \in Rigs : s # r => LineGrows(LineIn(J, done, s), LineIn(J, done', s))
  BY <1>6, <1>7, LineSame
<1>. QED
  BY <1>8, <1>9

\* What the worker has taken, or refused because of the emergency stop.
LEMMA TakeIs ==
  ASSUME PInv, NEW r \in Rigs, Take(r)
  PROVE  /\ running[r] = NoJob /\ queue[r] \in Seq(Job) /\ queue[r] # <<>>
         /\ Head(queue[r]) \in Job /\ JobSound(Head(queue[r]))
         /\ queue' = [queue EXCEPT ![r] = Tail(queue[r])]
         /\ queue \in [Rigs -> Seq(Job)] /\ running \in [Rigs -> Job \cup {NoJob}]
         /\ \/ running' = [running EXCEPT ![r] = Head(queue[r])] /\ done' = done
            \/ /\ Head(queue[r]).on /\ running' = running
               /\ \E F : /\ ResultsOf(F, r, Head(queue[r]))
                         /\ done' = [done EXCEPT ![r] = done[r] \o F]
<1>1. /\ running[r] = NoJob /\ queue[r] # <<>> /\ queue' = [queue EXCEPT ![r] = Tail(queue[r])]
      /\ \/ running' = [running EXCEPT ![r] = Head(queue[r])] /\ done' = done
         \/ /\ Head(queue[r]).on /\ running' = running
            /\ done' = [done EXCEPT ![r] = done[r] \o Finished(r, Head(queue[r]), TRUE)]
  BY DEF Take
<1>2. /\ queue \in [Rigs -> Seq(Job)] /\ running \in [Rigs -> Job \cup {NoJob}]
      /\ \A j \in Elems(queue[r]) : JobSound(j)
  BY DEF PInv, Ordered, Lines, RigSound, WorkerSound
<1>3. queue[r] \in Seq(Job)
  BY <1>2
<1>4. Head(queue[r]) \in Job /\ Head(queue[r]) \in Elems(queue[r])
  BY <1>1, <1>3, TailElems
<1>5. ResultsOf(Finished(r, Head(queue[r]), TRUE), r, Head(queue[r]))
  BY <1>4, FinishedItems
<1>. QED
  BY <1>1, <1>2, <1>3, <1>4, <1>5

\* What the worker has finished.
LEMMA ExecuteIs ==
  ASSUME PInv, NEW r \in Rigs, Execute(r)
  PROVE  /\ running[r] \in Job /\ JobSound(running[r]) /\ running' = [running EXCEPT ![r] = NoJob]
         /\ queue' = queue /\ queue \in [Rigs -> Seq(Job)] /\ running \in [Rigs -> Job \cup {NoJob}]
         /\ \E f \in BOOLEAN : \E F :
              /\ ResultsOf(F, r, running[r]) /\ done' = [done EXCEPT ![r] = done[r] \o F]
              /\ F = Finished(r, running[r], f)
              /\ tx' = [tx EXCEPT ![r][running[r].vfo] = running[r].on] \/ (f /\ tx' = tx)
              /\ failed_last' = [failed_last EXCEPT ![r][running[r].vfo] = f]
              /\ IF ~running[r].on /\ ~f
                   THEN confirmed' = [confirmed EXCEPT ![r][running[r].vfo] = FALSE]
                   ELSE confirmed' = confirmed
<1>1. /\ queue \in [Rigs -> Seq(Job)] /\ running \in [Rigs -> Job \cup {NoJob}]
      /\ running[r] # NoJob => JobSound(running[r])
  BY DEF PInv, Ordered, Lines, RigSound, WorkerSound
<1>2. running[r] # NoJob /\ running' = [running EXCEPT ![r] = NoJob] /\ queue' = queue
  BY DEF Execute
<1>3. running[r] \in Job /\ JobSound(running[r])
  BY <1>1, <1>2
<1>4. PICK f \in BOOLEAN :
        /\ tx' = [tx EXCEPT ![r][running[r].vfo] = running[r].on] \/ (f /\ UNCHANGED tx)
        /\ done' = [done EXCEPT ![r] = @ \o Finished(r, running[r], f)]
        /\ failed_last' = [failed_last EXCEPT ![r][running[r].vfo] = f]
        /\ IF ~running[r].on /\ ~f
             THEN confirmed' = [confirmed EXCEPT ![r][running[r].vfo] = FALSE]
             ELSE UNCHANGED confirmed
  BY DEF Execute
<1>5. ResultsOf(Finished(r, running[r], f), r, running[r])
  BY <1>3, FinishedItems
<1>. QED
  BY <1>1, <1>2, <1>3, <1>4, <1>5

----------------------------------------------------------------------------
(* Nothing takes back the key-down that counts *)

\* No release is with the worker.
Quiet(x, Q) == (x # NoJob => x.on) /\ \A i \in 1..Len(Q) : Q[i].on

Answers(j, k) == \E i \in 1..Len(j.pends) : j.pends[i] = k

\* From the answer to request k on there are only key-downs in the line.
LastRelease(k, L, x, Q) ==
  /\ \A i \in 1..Len(L) : L[i].pend = k => (\A n \in i..Len(L) : L[n].on) /\ Quiet(x, Q)
  /\ x # NoJob /\ Answers(x, k) => Quiet(x, Q)
  /\ \A i \in 1..Len(Q) : Answers(Q[i], k) => \A n \in i..Len(Q) : Q[n].on

LiveLast ==
  off = NoLoop => \A p \in Elems(pending) : Live(p) =>
    LastRelease(p.id, LineIn(jobs, done, p.rig), running[p.rig], queue[p.rig])

\* The worker takes a job.
LEMMA LastTake ==
  ASSUME NEW k, NEW L, NEW Q \in Seq(Job), Q # <<>>, LastRelease(k, L, NoJob, Q)
  PROVE  LastRelease(k, L, Head(Q), Tail(Q))
<1>. DEFINE j == Head(Q)
            R == Tail(Q)
<1>1. /\ j = Q[1] /\ Len(Q) \in Nat \ {0} /\ Len(R) = Len(Q) - 1 /\ 1 \in 1..Len(Q)
      /\ \A i \in 1..Len(R) : R[i] = Q[i + 1] /\ i + 1 \in 1..Len(Q)
  BY TailElems
<1>. HIDE DEF j, R
<1>2. Quiet(NoJob, Q) => Quiet(j, R)
  BY <1>1 DEF Quiet
<1>3. Answers(j, k) => Quiet(j, R)
  <2>. SUFFICES ASSUME Answers(j, k) PROVE Quiet(j, R)
    OBVIOUS
  <2>1. \A n \in 1..Len(Q) : Q[n].on
    BY <1>1 DEF LastRelease
  <2>. QED
    BY <1>1, <2>1 DEF Quiet
<1>4. ASSUME NEW i \in 1..Len(R), Answers(R[i], k), NEW n \in i..Len(R) PROVE R[n].on
  <2>1. Answers(Q[i + 1], k) /\ i + 1 \in 1..Len(Q)
    BY <1>1, <1>4
  <2>2. \A m \in (i + 1)..Len(Q) : Q[m].on
    BY <2>1 DEF LastRelease
  <2>3. n \in 1..Len(R) /\ n + 1 \in (i + 1)..Len(Q)
    BY <1>1
  <2>. QED
    BY <1>1, <2>2, <2>3
<1>. QED
  BY <1>2, <1>3, <1>4 DEF LastRelease, j, R

\* ... or refuses a key-down.
LEMMA LastRefuse ==
  ASSUME NEW k, NEW r, NEW L \in Seq(Result), NEW Q \in Seq(Job), Q # <<>>,
         LastRelease(k, L, NoJob, Q),
         Head(Q).on, NEW F, ResultsOf(F, r, Head(Q))
  PROVE  LastRelease(k, L \o F, NoJob, Tail(Q))
<1>. DEFINE j == Head(Q)
            R == Tail(Q)
            M == L \o F
<1>1. /\ j = Q[1] /\ Len(Q) \in Nat \ {0} /\ Len(R) = Len(Q) - 1 /\ 1 \in 1..Len(Q)
      /\ \A i \in 1..Len(R) : R[i] = Q[i + 1] /\ i + 1 \in 1..Len(Q)
  BY TailElems
<1>2. /\ Len(M) = Len(L) + Len(F) /\ Len(L) \in Nat /\ Len(F) \in Nat
      /\ \A i \in 1..(Len(L) + Len(F)) : M[i] = IF i <= Len(L) THEN L[i] ELSE F[i - Len(L)]
  <2>1. F \in Seq(Result)
    BY DEF ResultsOf
  <2>. QED
    BY <2>1, ConcatElems
<1>3. \A i \in 1..Len(F) : F[i].on /\ (F[i].pend = k => Answers(j, k))
  BY DEF ResultsOf, Answers
<1>. HIDE DEF j, R, M
<1>4. Quiet(NoJob, Q) => Quiet(NoJob, R)
  BY <1>1 DEF Quiet
<1>5. ASSUME NEW i \in 1..Len(M), M[i].pend = k
      PROVE  (\A n \in i..Len(M) : M[n].on) /\ Quiet(NoJob, R)
  <2>1. CASE i <= Len(L)
    <3>1. i \in 1..Len(L) /\ L[i].pend = k
      BY <1>2, <1>5, <2>1
    <3>2. (\A n \in i..Len(L) : L[n].on) /\ Quiet(NoJob, Q)
      BY <3>1 DEF LastRelease
    <3>3. ASSUME NEW n \in i..Len(M) PROVE M[n].on
      <4>1. CASE n <= Len(L)
        BY <1>2, <3>2, <4>1
      <4>2. CASE ~(n <= Len(L))
        <5>1. n - Len(L) \in 1..Len(F) /\ M[n] = F[n - Len(L)]
          BY <1>2, <4>2
        <5>. QED
          BY <1>3, <5>1
      <4>. QED
        BY <4>1, <4>2
    <3>. QED
      BY <1>4, <3>2, <3>3
  <2>2. CASE ~(i <= Len(L))
    <3>1. i - Len(L) \in 1..Len(F) /\ M[i] = F[i - Len(L)]
      BY <1>2, <2>2
    <3>2. Answers(Q[1], k)
      BY <1>1, <1>3, <1>5, <3>1
    <3>3. \A n \in 1..Len(Q) : Q[n].on
      BY <1>1, <3>2 DEF LastRelease
    <3>4. ASSUME NEW n \in i..Len(M) PROVE M[n].on
      <4>1. n - Len(L) \in 1..Len(F) /\ M[n] = F[n - Len(L)]
        BY <1>2, <2>2
      <4>. QED
        BY <1>3, <4>1
    <3>. QED
      BY <1>1, <3>3, <3>4 DEF Quiet
  <2>. QED
    BY <2>1, <2>2
<1>6. ASSUME NEW i \in 1..Len(R), Answers(R[i], k), NEW n \in i..Len(R) PROVE R[n].on
  <2>1. Answers(Q[i + 1], k) /\ i + 1 \in 1..Len(Q)
    BY <1>1, <1>6
  <2>2. \A m \in (i + 1)..Len(Q) : Q[m].on
    BY <2>1 DEF LastRelease
  <2>3. n \in 1..Len(R) /\ n + 1 \in (i + 1)..Len(Q)
    BY <1>1
  <2>. QED
    BY <1>1, <2>2, <2>3
<1>. QED
  BY <1>5, <1>6 DEF LastRelease, R, M

\* The worker finishes a job.
LEMMA LastExecute ==
  ASSUME NEW k, NEW r, NEW L \in Seq(Result), NEW x \in Job, NEW Q, LastRelease(k, L, x, Q),
         NEW F, ResultsOf(F, r, x)
  PROVE  LastRelease(k, L \o F, NoJob, Q)
<1>. DEFINE M == L \o F
<1>2. /\ Len(M) = Len(L) + Len(F) /\ Len(L) \in Nat /\ Len(F) \in Nat
      /\ \A i \in 1..(Len(L) + Len(F)) : M[i] = IF i <= Len(L) THEN L[i] ELSE F[i - Len(L)]
  <2>1. F \in Seq(Result)
    BY DEF ResultsOf
  <2>. QED
    BY <2>1, ConcatElems
<1>3. \A i \in 1..Len(F) : F[i].on = x.on /\ (F[i].pend = k => Answers(x, k))
  BY DEF ResultsOf, Answers
<1>4. x # NoJob
  BY JobType
<1>. HIDE DEF M
<1>5. ASSUME NEW i \in 1..Len(M), M[i].pend = k
      PROVE  (\A n \in i..Len(M) : M[n].on) /\ Quiet(NoJob, Q)
  <2>1. CASE i <= Len(L)
    <3>1. i \in 1..Len(L) /\ L[i].pend = k
      BY <1>2, <1>5, <2>1
    <3>2. (\A n \in i..Len(L) : L[n].on) /\ Quiet(x, Q)
      BY <3>1 DEF LastRelease
    <3>3. ASSUME NEW n \in i..Len(M) PROVE M[n].on
      <4>1. CASE n <= Len(L)
        BY <1>2, <3>2, <4>1
      <4>2. CASE ~(n <= Len(L))
        <5>1. n - Len(L) \in 1..Len(F) /\ M[n] = F[n - Len(L)]
          BY <1>2, <4>2
        <5>. QED
          BY <1>3, <1>4, <3>2, <5>1 DEF Quiet
      <4>. QED
        BY <4>1, <4>2
    <3>. QED
      BY <3>2, <3>3 DEF Quiet
  <2>2. CASE ~(i <= Len(L))
    <3>1. i - Len(L) \in 1..Len(F) /\ M[i] = F[i - Len(L)]
      BY <1>2, <2>2
    <3>2. Quiet(x, Q)
      BY <1>3, <1>4, <1>5, <3>1 DEF LastRelease
    <3>4. ASSUME NEW n \in i..Len(M) PROVE M[n].on
      <4>1. n - Len(L) \in 1..Len(F) /\ M[n] = F[n - Len(L)]
        BY <1>2, <2>2
      <4>. QED
        BY <1>3, <1>4, <3>2, <4>1 DEF Quiet
    <3>. QED
      BY <3>2, <3>4 DEF Quiet
  <2>. QED
    BY <2>1, <2>2
<1>6. \A i \in 1..Len(Q) : Answers(Q[i], k) => \A n \in i..Len(Q) : Q[n].on
  BY DEF LastRelease
<1>. QED
  BY <1>5, <1>6 DEF LastRelease, M

\* The first result is replayed: what was said of its request holds of
\* everything, and of the others it still holds.
LEMMA LastLed ==
  ASSUME NEW k, NEW j, NEW L, NEW M, NEW x, NEW Q, LineLed(j, L, M), LastRelease(k, L, x, Q)
  PROVE  /\ LastRelease(k, M, x, Q)
         /\ j.pend = k => Quiet(x, Q) /\ \A y \in Elems(L) : y.on
<1>1. /\ Len(L) \in Nat \ {0} /\ Len(M) = Len(L) - 1 /\ j = L[1]
      /\ \A i \in 1..Len(M) : M[i] = L[i + 1] /\ i + 1 \in 1..Len(L)
  BY TailElems DEF LineLed
<1>2. ASSUME NEW i \in 1..Len(M), M[i].pend = k
      PROVE  (\A n \in i..Len(M) : M[n].on) /\ Quiet(x, Q)
  <2>1. (\A n \in (i + 1)..Len(L) : L[n].on) /\ Quiet(x, Q)
    BY <1>1, <1>2 DEF LastRelease
  <2>2. ASSUME NEW n \in i..Len(M) PROVE M[n].on
    <3>1. n \in 1..Len(M) /\ n + 1 \in (i + 1)..Len(L)
      BY <1>1
    <3>. QED
      BY <1>1, <2>1, <3>1
  <2>. QED
    BY <2>1, <2>2
<1>3. LastRelease(k, M, x, Q)
  BY <1>2 DEF LastRelease
<1>4. ASSUME j.pend = k PROVE Quiet(x, Q) /\ \A y \in Elems(L) : y.on
  <2>1. 1 \in 1..Len(L)
    BY <1>1
  <2>. QED
    BY <1>1, <1>4, <2>1 DEF LastRelease, Elems
<1>. QED
  BY <1>3, <1>4

\* Whoever is answered is pending.
LEMMA AnsweredPending ==
  ASSUME PInv, NEW r \in Rigs, NEW k, k # 0
  PROVE  /\ \A y \in Elems(LineIn(jobs, done, r)) : y.pend = k =>
              \E p \in Elems(pending) : p.id = k /\ p.rig = r /\ p.vfo = y.vfo /\ p.on = y.on
         /\ \A j \in Elems(queue[r]) \cup {running[r]} : j # NoJob /\ Answers(j, k) =>
              \E p \in Elems(pending) : p.id = k /\ p.rig = r /\ p.vfo = j.vfo /\ p.on = j.on
<1>. DEFINE S == Items(JobsOf(jobs, r), done[r], running[r], queue[r])
<1>1. Matched(pending, r, S)
  BY DEF PInv, Ordered, Lines, RigSound
<1>2. \A y \in Elems(LineIn(jobs, done, r)) : ResultItem(y) \in S
  BY LineType
<1>3. \A j \in Elems(queue[r]) \cup {running[r]} : j # NoJob => JobItem(j) \in S
  BY DEF Items, JobItems, RunningItems
<1>. HIDE DEF S
<1>4. ASSUME NEW y \in Elems(LineIn(jobs, done, r)), y.pend = k
      PROVE  \E p \in Elems(pending) : p.id = k /\ p.rig = r /\ p.vfo = y.vfo /\ p.on = y.on
  <2>1. /\ ResultItem(y).ids = {y.pend} \ {0} /\ ResultItem(y).on = y.on /\ ResultItem(y).vfo = y.vfo
    BY DEF ResultItem
  <2>2. k \in ResultItem(y).ids
    BY <1>4, <2>1
  <2>. QED
    BY <1>1, <1>2, <2>1, <2>2 DEF Matched
<1>5. ASSUME NEW j \in Elems(queue[r]) \cup {running[r]}, j # NoJob, Answers(j, k)
      PROVE  \E p \in Elems(pending) : p.id = k /\ p.rig = r /\ p.vfo = j.vfo /\ p.on = j.on
  <2>1. /\ JobItem(j).ids = Elems(j.pends) \ {0} /\ JobItem(j).on = j.on /\ JobItem(j).vfo = j.vfo
    BY DEF JobItem
  <2>2. k \in JobItem(j).ids
    BY <1>5, <2>1 DEF Answers, Elems
  <2>. QED
    BY <1>1, <1>3, <1>5, <2>1, <2>2 DEF Matched
<1>. QED
  BY <1>4, <1>5

\* The key-down that counts is one that counted, and its line has kept its end.
LEMMA LastKept ==
  ASSUME PInv, LiveLast, off = NoLoop, LiveFrom(pending, pending'),
         \A k : \A s \in Rigs :
           LastRelease(k, LineIn(jobs, done, s), running[s], queue[s]) =>
             LastRelease(k, LineIn(jobs', done', s), running'[s], queue'[s])
  PROVE  LiveLast'
<1>1. pending \in Seq(Pending)
  BY DEF PInv, Ordered, Lines
<1>2. \A p \in Elems(pending) : p.rig \in Rigs
  BY <1>1, PendingElem DEF Pending
<1>. SUFFICES ASSUME NEW p \in Elems(pending'), Live(p)
              PROVE  LastRelease(p.id, LineIn(jobs', done', p.rig), running'[p.rig], queue'[p.rig])
  BY DEF LiveLast
<1>3. PICK q \in Elems(pending) : Live(q) /\ q.id = p.id /\ q.rig = p.rig
  BY DEF LiveFrom
<1>4. LastRelease(q.id, LineIn(jobs, done, q.rig), running[q.rig], queue[q.rig])
  BY <1>3 DEF LiveLast
<1>. QED
  BY <1>2, <1>3, <1>4

\* A new key-down is last.
LEMMA KeyDownLast ==
  ASSUME PInv, GInv, NEW c \in Clients, NEW r \in Rigs, NEW v \in VFO, KeyDown(c, r, v)
  PROVE  LiveLast'
<1>1. CASE UNCHANGED <<talker, ptt_vfo, pending, worker>>
  <2>1. NoneLive(pending')
    BY <1>1, KeyDownGInv
  <2>. QED
    BY <2>1 DEF LiveLast, NoneLive
<1>2. ASSUME NEW p, KeyDownPending(p, r, v, c)
      PROVE  LiveLast'
  <2>. DEFINE L == LineIn(jobs, done, r)
              Q == queue[r]
              x == running[r]
              k == p.id
              j == [vfo |-> v, on |-> TRUE, pends |-> <<k>>]
  <2>1. /\ p \in Pending /\ p.rig = r /\ k = NewId /\ \A z \in Elems(pending) : z.id # k
        /\ \A z \in Elems(pending') : Live(z) <=> z = p
        /\ queue' = [queue EXCEPT ![r] = Append(queue[r], j)]
        /\ UNCHANGED <<running, done, jobs>>
    BY <1>2 DEF KeyDownPending, SubmitKeyDown, KeyDown
  <2>2. k \in Nat \ {0}
    BY <2>1 DEF Pending
  <2>3. j \in Job /\ j.on
    BY <2>2 DEF Job
  <2>4. queue \in [Rigs -> Seq(Job)] /\ Q \in Seq(Job)
    BY DEF PInv, Ordered, Lines
  <2>5. /\ \A y \in Elems(L) : y.pend # k
        /\ \A i \in Elems(Q) \cup {x} : i # NoJob => ~Answers(i, k)
    <3>1. k # 0
      BY <2>2
    <3>2. \A z \in Elems(pending) : z.id # k
      BY <2>1
    <3>. HIDE DEF k
    <3>3. /\ \A y \in Elems(LineIn(jobs, done, r)) : y.pend = k =>
               \E z \in Elems(pending) : z.id = k /\ z.rig = r /\ z.vfo = y.vfo /\ z.on = y.on
          /\ \A i \in Elems(queue[r]) \cup {running[r]} : i # NoJob /\ Answers(i, k) =>
               \E z \in Elems(pending) : z.id = k /\ z.rig = r /\ z.vfo = i.vfo /\ z.on = i.on
      BY <3>1, AnsweredPending
    <3>. QED
      BY <3>2, <3>3
  <2>6. queue'[r] = Append(Q, j) /\ running'[r] = x /\ LineIn(jobs', done', r) = L
    BY <2>1, <2>4
  <2>. HIDE DEF L, Q, x, k, j
  <2>7. LastRelease(k, L, x, Append(Q, j))
    <3>1. /\ Len(Append(Q, j)) = Len(Q) + 1 /\ Len(Q) \in Nat
          /\ \A i \in 1..Len(Q) : Append(Q, j)[i] = Q[i]
          /\ Append(Q, j)[Len(Q) + 1] = j
      BY <2>3, <2>4, AppendElems
    <3>2. \A i \in 1..Len(Q) : Q[i] \in Elems(Q) /\ Q[i] # NoJob
      <4>1. \A i \in 1..Len(Q) : Q[i] \in Job
        BY <2>4
      <4>. QED
        BY <4>1, JobType DEF Elems
    <3>3. \A i \in 1..Len(L) : L[i].pend # k
      BY <2>5 DEF Elems
    <3>4. ASSUME NEW i \in 1..(Len(Q) + 1), Answers(Append(Q, j)[i], k),
                 NEW n \in i..(Len(Q) + 1)
          PROVE  Append(Q, j)[n].on
      <4>1. ~(i \in 1..Len(Q))
        BY <2>5, <3>1, <3>2, <3>4
      <4>2. n = Len(Q) + 1
        BY <3>1, <4>1
      <4>. QED
        BY <2>3, <3>1, <4>2
    <3>5. x # NoJob => ~Answers(x, k)
      BY <2>5
    <3>. QED
      BY <3>1, <3>3, <3>4, <3>5 DEF LastRelease
  <2>. QED
    BY <2>1, <2>6, <2>7 DEF LiveLast, k
<1>. QED
  BY <1>1, <1>2, KeyDownGInv

\* A result is replayed.
LEMMA CompleteLast ==
  ASSUME PInv, GInv, LiveLast, Complete
  PROVE  LiveLast'
<1>1. PICK j \in Elems(jobs) :
        \/ DropResult(j)
        \/ \E p \in Elems(pending) :
             \/ CancelStale(j, p) \/ RejectKeyDown(j, p) \/ ConfirmKeyDown(j, p)
             \/ LockKeyDown(j, p) \/ FailRelease(j, p) \/ ConfirmRelease(j, p)
  BY DEF Complete
<1>2. ASSUME Replay(j), UNCHANGED <<queue, running, done>>, LiveFrom(pending, pending')
      PROVE  LiveLast'
  <2>1. off = NoLoop /\ jobs' = Tail(jobs)
    BY <1>2 DEF Replay
  <2>2. ASSUME NEW k, NEW s \in Rigs,
               LastRelease(k, LineIn(jobs, done, s), running[s], queue[s])
        PROVE  LastRelease(k, LineIn(jobs', done', s), running'[s], queue'[s])
    <3>1. CASE s = j.rig
      <4>1. LineLed(j, LineIn(jobs, done, s), LineIn(Tail(jobs), done, s))
        BY <1>2, <3>1, LineReplay
      <4>. QED
        BY <1>2, <2>1, <2>2, <4>1, LastLed
    <3>2. CASE s # j.rig
      BY <1>2, <2>1, <2>2, <3>2, LineReplay
    <3>. QED
      BY <3>1, <3>2
  <2>. QED
    BY <1>2, <2>1, <2>2, LastKept
<1>3. CASE DropResult(j)
  <2>1. Replay(j) /\ UNCHANGED <<queue, running, done>>
    BY <1>3 DEF DropResult, CountOut
  <2>2. LiveFrom(pending, pending')
    <3>1. \/ pending' = pending
          \/ \E p \in Elems(pending) : p.id = j.pend /\ pending' = Without(pending, {p})
      BY <1>3, DropIs
    <3>2. Elems(pending') \subseteq Elems(pending)
      BY <2>1, <3>1, UnlinkReduces
    <3>. QED
      BY <3>2 DEF LiveFrom
  <2>. QED
    BY <1>2, <2>1, <2>2
<1>4. ASSUME NEW p \in Elems(pending),
             \/ CancelStale(j, p) \/ RejectKeyDown(j, p) \/ ConfirmKeyDown(j, p)
             \/ LockKeyDown(j, p) \/ FailRelease(j, p) \/ ConfirmRelease(j, p)
      PROVE  LiveLast'
  <2>1. Completed(j, p)
    BY <1>4 DEF CancelStale, RejectKeyDown, ConfirmKeyDown, LockKeyDown, FailRelease, ConfirmRelease
  <2>2. /\ p.id = j.pend /\ Replay(j) /\ pending' = Without(pending, {p}) /\ (p.on => Live(p))
    BY <2>1, CompletedIs
  <2>3. Elems(pending') = Elems(pending) \ {p}
    BY <2>2, UnlinkReduces
  <2>4. CASE p.on
    <3>1. NoneLive(pending')
      <4>1. \A z \in Elems(pending) : Live(z) => z = p
        BY <2>2, <2>4, UnlinkReduces DEF GInv, OneLive
      <4>. QED
        BY <2>3, <4>1 DEF NoneLive
    <3>. QED
      BY <3>1 DEF LiveLast, NoneLive
  <2>5. CASE ~p.on
    <3>1. UNCHANGED <<queue, running, done>>
      BY <1>4, <2>5 DEF CancelStale, RejectKeyDown, ConfirmKeyDown, LockKeyDown, FailRelease,
                        ConfirmRelease, CountOut
    <3>2. LiveFrom(pending, pending')
      BY <2>3 DEF LiveFrom
    <3>. QED
      BY <1>2, <2>2, <3>1, <3>2
  <2>. QED
    BY <2>4, <2>5
<1>. QED
  BY <1>1, <1>3, <1>4

\* The worker takes a job.
LEMMA TakeLast ==
  ASSUME PInv, LiveLast, NEW r \in Rigs, Take(r)
  PROVE  LiveLast'
<1>1. UNCHANGED <<pending, off, jobs>>
  BY DEF Take
<1>2. CASE off # NoLoop
  BY <1>1, <1>2 DEF LiveLast
<1>3. CASE off = NoLoop
  <2>1. LiveFrom(pending, pending')
    BY <1>1 DEF LiveFrom
  <2>2. ASSUME NEW k, NEW s \in Rigs,
               LastRelease(k, LineIn(jobs, done, s), running[s], queue[s])
        PROVE  LastRelease(k, LineIn(jobs', done', s), running'[s], queue'[s])
    <3>. DEFINE Q == queue[r]
                h == Head(Q)
    <3>1. /\ running[r] = NoJob /\ Q \in Seq(Job) /\ Q # <<>>
          /\ queue' = [queue EXCEPT ![r] = Tail(Q)]
          /\ queue \in [Rigs -> Seq(Job)] /\ running \in [Rigs -> Job \cup {NoJob}]
          /\ \/ running' = [running EXCEPT ![r] = h] /\ done' = done
             \/ /\ h.on /\ running' = running
                /\ \E F : ResultsOf(F, r, h) /\ done' = [done EXCEPT ![r] = done[r] \o F]
      BY TakeIs
    <3>2. jobs \in Seq(Result) /\ done \in [Rigs -> Seq(Result)]
      BY DEF PInv, Ordered, Lines
    <3>. HIDE DEF Q, h
    <3>3. CASE running' = [running EXCEPT ![r] = h] /\ done' = done
      <4>1. CASE s = r
        <5>1. LastRelease(k, LineIn(jobs, done, r), h, Tail(Q))
          BY <2>2, <3>1, <4>1, LastTake DEF h, Q
        <5>2. running'[r] = h /\ queue'[r] = Tail(Q)
          BY <3>1, <3>3
        <5>. QED
          BY <1>1, <3>3, <4>1, <5>1, <5>2
      <4>2. CASE s # r
        BY <1>1, <2>2, <3>1, <3>3, <4>2
      <4>. QED
        BY <4>1, <4>2
    <3>4. ASSUME NEW F, h.on, running' = running, ResultsOf(F, r, h),
                 done' = [done EXCEPT ![r] = done[r] \o F]
          PROVE  LastRelease(k, LineIn(jobs', done', s), running'[s], queue'[s])
      <4>1. F \in Seq(Result) /\ Appended(done, done', r, F)
        BY <3>4 DEF ResultsOf, Appended
      <4>2. /\ LineIn(jobs, done', r) = LineIn(jobs, done, r) \o F
            /\ \A z \in Rigs : z # r => LineIn(jobs, done', z) = LineIn(jobs, done, z)
        BY <4>1, WorkerAppends
      <4>3. CASE s = r
        <5>1. LineIn(jobs, done, r) \in Seq(Result)
          BY LineType
        <5>2. LastRelease(k, LineIn(jobs, done, r) \o F, NoJob, Tail(Q))
          BY <2>2, <3>1, <3>4, <4>3, <5>1, LastRefuse DEF h, Q
        <5>3. running'[r] = NoJob /\ queue'[r] = Tail(Q)
          BY <3>1, <3>4
        <5>. QED
          BY <1>1, <4>2, <4>3, <5>2, <5>3
      <4>4. CASE s # r
        BY <1>1, <2>2, <3>1, <3>4, <4>2, <4>4
      <4>. QED
        BY <4>3, <4>4
    <3>. QED
      BY <3>1, <3>3, <3>4
  <2>. QED
    BY <1>3, <2>1, <2>2, LastKept
<1>. QED
  BY <1>2, <1>3

\* The worker finishes a job.
LEMMA ExecuteLast ==
  ASSUME PInv, LiveLast, NEW r \in Rigs, Execute(r)
  PROVE  LiveLast'
<1>1. UNCHANGED <<pending, off, jobs>>
  BY DEF Execute
<1>2. CASE off # NoLoop
  BY <1>1, <1>2 DEF LiveLast
<1>3. CASE off = NoLoop
  <2>1. LiveFrom(pending, pending')
    BY <1>1 DEF LiveFrom
  <2>2. ASSUME NEW k, NEW s \in Rigs,
               LastRelease(k, LineIn(jobs, done, s), running[s], queue[s])
        PROVE  LastRelease(k, LineIn(jobs', done', s), running'[s], queue'[s])
    <3>. DEFINE x == running[r]
    <3>1. /\ x \in Job /\ running' = [running EXCEPT ![r] = NoJob] /\ queue' = queue
          /\ running \in [Rigs -> Job \cup {NoJob}]
          /\ \E F : ResultsOf(F, r, x) /\ done' = [done EXCEPT ![r] = done[r] \o F]
      BY ExecuteIs
    <3>2. jobs \in Seq(Result) /\ done \in [Rigs -> Seq(Result)]
      BY DEF PInv, Ordered, Lines
    <3>3. PICK F : ResultsOf(F, r, x) /\ done' = [done EXCEPT ![r] = done[r] \o F]
      BY <3>1
    <3>4. F \in Seq(Result) /\ Appended(done, done', r, F)
      BY <3>3 DEF ResultsOf, Appended
    <3>5. /\ LineIn(jobs, done', r) = LineIn(jobs, done, r) \o F
          /\ \A z \in Rigs : z # r => LineIn(jobs, done', z) = LineIn(jobs, done, z)
      BY <3>4, WorkerAppends
    <3>. HIDE DEF x
    <3>6. CASE s = r
      <4>1. LineIn(jobs, done, r) \in Seq(Result)
        BY LineType
      <4>2. LastRelease(k, LineIn(jobs, done, r), x, queue[r])
        BY <2>2, <3>6 DEF x
      <4>3. LastRelease(k, LineIn(jobs, done, r) \o F, NoJob, queue[r])
        BY <3>1, <3>3, <4>1, <4>2, LastExecute
      <4>4. running'[r] = NoJob
        BY <3>1
      <4>. QED
        BY <1>1, <3>1, <3>5, <3>6, <4>3, <4>4
    <3>7. CASE s # r
      BY <1>1, <2>2, <3>1, <3>5, <3>7
    <3>. QED
      BY <3>6, <3>7
  <2>. QED
    BY <1>3, <2>1, <2>2, LastKept
<1>. QED
  BY <1>2, <1>3

\* Every action leaves the key-down that counts last.
LEMMA StepLast ==
  ASSUME PInv, GInv, LiveLast, [Next]_vars
  PROVE  LiveLast'
<1>1. ASSUME UNCHANGED <<pending, off, jobs, queue, running, done>> PROVE LiveLast'
  BY <1>1 DEF LiveLast
<1>2. CASE UNCHANGED vars
  BY <1>1, <1>2 DEF vars, worker
<1>3. ASSUME NEW c \in Clients, NEW r \in Rigs, NEW v \in VFO, KeyDown(c, r, v) PROVE LiveLast'
  BY <1>3, KeyDownLast
<1>4. ASSUME NoneLive(pending') PROVE LiveLast'
  BY <1>4 DEF LiveLast, NoneLive
<1>5. CASE KeyUp
  BY <1>4, <1>5, KeyUpGInv
<1>6. ASSUME NEW c \in Clients, Disconnect(c) PROVE LiveLast'
  <2>1. Closed(c) /\ off = NoLoop /\ jobs' = jobs
    BY <1>6, DisconnectGInv DEF Disconnect, Idle
  <2>2. CASE c = talker
    BY <1>4, <2>1, <2>2 DEF Closed
  <2>3. CASE c # talker
    <3>1. LiveFrom(pending, pending') /\ UNCHANGED <<queue, running, done>>
      BY <2>1, <2>3 DEF Closed, worker
    <3>. QED
      BY <2>1, <3>1, LastKept
  <2>. QED
    BY <2>2, <2>3
<1>7. CASE \/ ForceOff \/ Fault \/ TalkTimeout \/ RetryStop \/ Shutdown
           \/ \E r \in Rigs : EstopTrip(r) \/ EstopReset(r)
  <2>1. PICK why, r : StartOff(why, r)
    BY <1>7, LoopStartIs
  <2>2. off' # NoLoop
    BY <2>1 DEF StartOff, NoLoop
  <2>. QED
    BY <2>2 DEF LiveLast
<1>8. CASE OffVfo
  BY <1>8, OffVfoGInv DEF LiveLast
<1>9. CASE EndOff
  BY <1>4, <1>9, EndOffGInv
<1>10. CASE Complete
  BY <1>10, CompleteLast
<1>11. ASSUME NEW r \in Rigs, Drain(r) PROVE LiveLast'
  <2>1. UNCHANGED <<pending, off, running, queue>> /\ off = NoLoop
    BY <1>11 DEF Drain
  <2>2. LiveFrom(pending, pending')
    BY <2>1 DEF LiveFrom
  <2>. QED
    BY <1>11, <2>1, <2>2, LineDrain, LastKept
<1>12. ASSUME NEW r \in Rigs, Take(r) PROVE LiveLast'
  BY <1>12, TakeLast
<1>13. ASSUME NEW r \in Rigs, Execute(r) PROVE LiveLast'
  BY <1>13, ExecuteLast
<1>14. CASE AccountingFailed
  BY <1>1, <1>14 DEF AccountingFailed, worker
<1>. QED
  BY <1>2, <1>3, <1>5, <1>6, <1>7, <1>8, <1>9, <1>10, <1>11, <1>12, <1>13, <1>14 DEF Next, WorkerStep
----------------------------------------------------------------------------
(* The end of a confirmed transmission *)

\* The worker (x, Q) has a release of v whose outcome will be reported.
TrackedIn(x, Q, v) == \E j \in Elems(Q) \cup {x} : IsReleaseOf(j, v) /\ Tracked(j)

\* Line L reports that a release of v failed.
FailedIn(L, v) == \E y \in Elems(L) : y.vfo = v /\ ~y.on /\ y.failed /\ y.pend # 0

\* Transmission v of rig r will end, or key-down will be blocked.
Closing(r, v) ==
  TrackedIn(running[r], queue[r], v) \/ FailedIn(LineIn(jobs, done, r), v)

\* ... after this step.
ClosingNext(r, v) ==
  TrackedIn(running'[r], queue'[r], v) \/ FailedIn(LineIn(jobs', done', r), v)

ClosingKept ==
  \A r \in Rigs, v \in VFO : confirmed'[r][v] /\ Closing(r, v) => ClosingNext(r, v)

\* The talker keys v of r and its key-down is no longer pending.
Held(r, v) == talker # NoClient /\ ptt_rig = r /\ ptt_vfo = v /\ NoneLive(pending)

\* Every confirmed transmission is the talker's, or will end.
ConfirmedHeld ==
  ~dying /\ ~tx_blocked => \A r \in Rigs, v \in VFO :
    confirmed[r][v] => Held(r, v) \/ Closing(r, v)

\* ... and it will end once a release of it is pending.
PendingCloses ==
  ~dying /\ ~tx_blocked => \A r \in Rigs, v \in VFO :
    confirmed[r][v] /\ ReleasePending(pending, r, v) => Closing(r, v)

\* What the talker has was confirmed, and nothing ends it.
HeldConfirmed ==
  off = NoLoop => \A r \in Rigs, v \in VFO :
    Held(r, v) => confirmed[r][v] /\ Quiet(running[r], queue[r])

ConfirmedType == confirmed \in [Rigs -> [VFO -> BOOLEAN]]

TInv ==
  ConfirmedType /\ ConfirmedHeld /\ PendingCloses /\ HeldConfirmed /\ OneTransmission

\* A job is tracked if it answers a request.
LEMMA TrackedItem ==
  ASSUME NEW j
  PROVE  Tracked(j) => JobItem(j).ids # {} /\ \E k : k # 0 /\ Answers(j, k)
BY DEF Tracked, JobItem, Elems, Answers

\* One more completion keeps a job tracked.
LEMMA JoinTracked ==
  ASSUME NEW j \in Job, JobSound(j), NEW k \in Nat, NEW v, IsReleaseOf(j, v)
  PROVE  /\ IsReleaseOf(Join(j, k), v)
         /\ Tracked(j) => Tracked(Join(j, k))
         /\ k # 0 => Tracked(Join(j, k))
<1>. DEFINE h == Join(j, k)
<1>1. /\ h \in Job /\ h.vfo = j.vfo /\ h.on = j.on
      /\ JobItem(h).ids = JobItem(j).ids \cup ({k} \ {0})
  BY JoinIs
<1>. HIDE DEF h
<1>2. JobItem(h).ids # {} => Tracked(h)
  BY DEF Tracked, JobItem, Elems
<1>3. h # NoJob
  BY <1>1, JobType
<1>4. IsReleaseOf(h, v)
  BY <1>1, <1>3 DEF IsReleaseOf
<1>5. Tracked(j) => Tracked(h)
  BY <1>1, <1>2, TrackedItem
<1>6. k # 0 => Tracked(h)
  BY <1>1, <1>2
<1>. QED
  BY <1>4, <1>5, <1>6 DEF h

\* A release that is submitted to worker (x, Q): every tracked release is still
\* there, and its own if it has a completion.
LEMMA TrackedSubmit ==
  ASSUME NEW x \in Job \cup {NoJob}, NEW Q \in Seq(Job), WorkerSound(x, Q),
         NEW v \in VFO, NEW k \in Nat
  PROVE  LET y == RunningAfter(x, v, k)
             R == QueueAfter(x, Without(Q, Cut(Q, v)), v, k)
         IN  /\ \A w : TrackedIn(x, Q, w) => TrackedIn(y, R, w)
             /\ k # 0 => TrackedIn(y, R, v)
<1>. DEFINE q == Without(Q, Cut(Q, v))
            y == RunningAfter(x, v, k)
            R == QueueAfter(x, q, v, k)
<1>1. q \in Seq(Job) /\ Elems(q) = Elems(Q) \ Cut(Q, v)
  BY WithoutProperties
<1>2. \A j \in Elems(Q) : JobSound(j) /\ j \in Job
  <2>1. \A i \in 1..Len(Q) : Q[i] \in Job
    OBVIOUS
  <2>. QED
    BY <2>1 DEF WorkerSound, Elems
<1>3. \A w : TrackedIn(x, Q, w) => TrackedIn(x, q, w)
  <2>1. \A j \in Elems(Q) : ~j.on => j \in Elems(q)
    BY <1>1 DEF Cut
  <2>. QED
    BY <2>1 DEF TrackedIn, IsReleaseOf
<1>. HIDE DEF q
<1>4. CASE IsReleaseOf(x, v)
  <2>1. x \in Job /\ JobSound(x)
    BY <1>4 DEF IsReleaseOf, WorkerSound
  <2>2. /\ IsReleaseOf(Join(x, k), v)
        /\ Tracked(x) => Tracked(Join(x, k))
        /\ k # 0 => Tracked(Join(x, k))
    BY <1>4, <2>1, JoinTracked
  <2>3. y = Join(x, k) /\ R = q
    BY <1>4 DEF RunningAfter, QueueAfter
  <2>. HIDE DEF y, R
  <2>4. ASSUME NEW w, TrackedIn(x, q, w) PROVE TrackedIn(y, R, w)
    <3>1. IsReleaseOf(x, w) => w = v
      BY <1>4 DEF IsReleaseOf
    <3>. QED
      BY <2>2, <2>3, <2>4, <3>1 DEF TrackedIn
  <2>5. k # 0 => TrackedIn(y, R, v)
    BY <2>2, <2>3 DEF TrackedIn
  <2>. QED
    BY <1>3, <2>4, <2>5 DEF q, y, R
<1>5. CASE ~IsReleaseOf(x, v)
  <2>1. y = x
    BY <1>5 DEF RunningAfter
  <2>2. CASE \E i \in 1..Len(q) : IsReleaseOf(q[i], v)
    <3>1. R = JoinIn(q, v, k)
      BY <1>5, <2>2 DEF QueueAfter
    <3>2. /\ Len(R) = Len(q)
          /\ \A i \in 1..Len(q) : R[i] = IF IsReleaseOf(q[i], v) THEN Join(q[i], k) ELSE q[i]
      BY <1>1, <3>1 DEF JoinIn
    <3>. HIDE DEF y, R
    <3>3. ASSUME NEW i \in 1..Len(q), NEW w, IsReleaseOf(q[i], w)
          PROVE  /\ R[i] \in Elems(R) /\ IsReleaseOf(R[i], w)
                 /\ Tracked(q[i]) => Tracked(R[i])
                 /\ w = v /\ k # 0 => Tracked(R[i])
      <4>1. q[i] \in Job /\ JobSound(q[i]) /\ R[i] \in Elems(R)
        BY <1>1, <1>2, <3>2 DEF Elems
      <4>2. CASE w = v
        <5>1. R[i] = Join(q[i], k)
          BY <3>2, <3>3, <4>2
        <5>. QED
          BY <3>3, <4>1, <4>2, <5>1, JoinTracked
      <4>3. CASE w # v
        <5>1. R[i] = q[i]
          BY <3>2, <3>3, <4>3 DEF IsReleaseOf
        <5>. QED
          BY <3>3, <4>1, <4>3, <5>1
      <4>. QED
        BY <4>2, <4>3
    <3>4. \A w : TrackedIn(x, q, w) => TrackedIn(y, R, w)
      BY <2>1, <3>3 DEF TrackedIn, Elems
    <3>5. k # 0 => TrackedIn(y, R, v)
      BY <2>2, <3>3 DEF TrackedIn
    <3>. QED
      BY <1>3, <3>4, <3>5 DEF q, y, R
  <2>3. CASE ~(\E i \in 1..Len(q) : IsReleaseOf(q[i], v))
    <3>. DEFINE n == NewRelease(v, k)
    <3>1. n \in Job /\ n.vfo = v /\ n.on = FALSE /\ n.pends = <<k>>
      BY DEF Job, NewRelease
    <3>2. R = <<n>> \o q
      BY <1>5, <2>3 DEF QueueAfter, Pushed
    <3>3. IsReleaseOf(n, v)
      BY <3>1, JobType DEF IsReleaseOf
    <3>4. k # 0 => Tracked(n)
      <4>1. Len(n.pends) = 1 /\ n.pends[1] = k
        BY <3>1
      <4>. QED
        BY <4>1 DEF Tracked
    <3>. HIDE DEF n, y, R
    <3>5. Elems(R) = Elems(q) \cup {n}
      BY <1>1, <3>1, <3>2, PushElems
    <3>6. \A w : TrackedIn(x, q, w) => TrackedIn(y, R, w)
      BY <2>1, <3>5 DEF TrackedIn
    <3>7. k # 0 => TrackedIn(y, R, v)
      BY <3>3, <3>4, <3>5 DEF TrackedIn
    <3>. QED
      BY <1>3, <3>6, <3>7 DEF q, y, R
  <2>. QED
    BY <2>2, <2>3
<1>. QED
  BY <1>4, <1>5

\* Results behind a line, and the first of a line.
LEMMA FailedKept ==
  ASSUME NEW L \in Seq(Result), NEW M, NEW v, FailedIn(L, v)
  PROVE  /\ LineGrows(L, M) => FailedIn(M, v)
         /\ \A j : LineLed(j, L, M) /\ (j.on \/ ~j.failed \/ j.pend = 0) => FailedIn(M, v)
<1>1. ASSUME LineGrows(L, M) PROVE FailedIn(M, v)
  <2>1. PICK E \in Seq(Result) : M = L \o E
    BY <1>1 DEF LineGrows
  <2>2. Elems(L) \subseteq Elems(M)
    BY <2>1, ConcatElems
  <2>. QED
    BY <2>2 DEF FailedIn
<1>2. ASSUME NEW j, LineLed(j, L, M), j.on \/ ~j.failed \/ j.pend = 0 PROVE FailedIn(M, v)
  <2>1. Elems(L) = Elems(M) \cup {j}
    BY <1>2, TailElems DEF LineLed
  <2>. QED
    BY <1>2, <2>1 DEF FailedIn
<1>. QED
  BY <1>1, <1>2

\* A release that is submitted.
LEMMA ClosingSubmit ==
  ASSUME PInv, NEW J \in Seq(Result), NEW r \in Rigs, NEW v \in VFO, NEW k \in Nat,
         Submitted(r, v, k, done, running, queue, done', running', queue')
  PROVE  /\ \A s \in Rigs : \A w :
              /\ TrackedIn(running[s], queue[s], w) => TrackedIn(running'[s], queue'[s], w)
              /\ FailedIn(LineIn(J, done, s), w) => FailedIn(LineIn(J, done', s), w)
         /\ k # 0 => TrackedIn(running'[r], queue'[r], v)
<1>1. /\ running \in [Rigs -> Job \cup {NoJob}] /\ queue \in [Rigs -> Seq(Job)]
      /\ done \in [Rigs -> Seq(Result)]
      /\ \A s \in Rigs : WorkerSound(running[s], queue[s])
  BY DEF PInv, Ordered, Lines, RigSound
<1>. DEFINE x == running[r]
            Q == queue[r]
            y == RunningAfter(x, v, k)
            R == QueueAfter(x, Without(Q, Cut(Q, v)), v, k)
<1>2. /\ \A w : TrackedIn(x, Q, w) => TrackedIn(y, R, w)
      /\ k # 0 => TrackedIn(y, R, v)
  BY <1>1, TrackedSubmit
<1>3. /\ running' = [running EXCEPT ![r] = y] /\ queue' = [queue EXCEPT ![r] = R]
  BY DEF Submitted
<1>. HIDE DEF y, R
<1>4. /\ running'[r] = y /\ queue'[r] = R
      /\ \A s \in Rigs : s # r => running'[s] = running[s] /\ queue'[s] = queue[s]
  BY <1>1, <1>3
<1>5. \A s \in Rigs : \A w :
        TrackedIn(running[s], queue[s], w) => TrackedIn(running'[s], queue'[s], w)
  BY <1>2, <1>4
<1>6. ASSUME NEW s \in Rigs, NEW w, FailedIn(LineIn(J, done, s), w)
      PROVE  FailedIn(LineIn(J, done', s), w)
  <2>1. LineGrows(LineIn(J, done, s), LineIn(J, done', s))
    BY LineSubmit
  <2>2. JobsOf(J, s) \in Seq(Result) /\ done[s] \in Seq(Result)
    BY <1>1, JobsOfType
  <2>3. LineIn(J, done, s) \in Seq(Result)
    BY <2>2 DEF LineIn
  <2>. QED
    BY <1>6, <2>1, <2>3, FailedKept
<1>. QED
  BY <1>2, <1>4, <1>5, <1>6

\* What a step keeps of the invariant if it confirms nothing: no end is lost, a
\* new release of a confirmed transmission will end it, and so will a step that
\* takes the transmission from the talker.
TKept ==
  /\ ClosingKept /\ ConfirmedType' /\ (dying => dying') /\ (tx_blocked => tx_blocked')
  /\ \A r \in Rigs, v \in VFO :
       /\ confirmed'[r][v] => confirmed[r][v]
       /\ ~dying' /\ ~tx_blocked' /\ confirmed'[r][v] =>
            /\ ReleasePending(pending', r, v) => ReleasePending(pending, r, v) \/ ClosingNext(r, v)
            /\ Held(r, v) => Held(r, v)' \/ ClosingNext(r, v)

\* That is enough.
LEMMA TInvKept ==
  ASSUME TInv, TKept, HeldConfirmed'
  PROVE  TInv'
<1>1. ASSUME NEW r \in Rigs, NEW v \in VFO, ~dying', ~tx_blocked', confirmed'[r][v]
      PROVE  /\ Held(r, v)' \/ Closing(r, v)'
             /\ ReleasePending(pending', r, v) => Closing(r, v)'
  <2>1. confirmed[r][v] /\ ~dying /\ ~tx_blocked
    BY <1>1 DEF TKept
  <2>2. Closing(r, v) => ClosingNext(r, v)
    BY <1>1 DEF TKept, ClosingKept
  <2>3. Closing(r, v)' <=> ClosingNext(r, v)
    BY DEF Closing, ClosingNext
  <2>4. Held(r, v) \/ Closing(r, v)
    BY <2>1 DEF TInv, ConfirmedHeld
  <2>5. ReleasePending(pending, r, v) => Closing(r, v)
    BY <2>1 DEF TInv, PendingCloses
  <2>6. /\ ReleasePending(pending', r, v) => ReleasePending(pending, r, v) \/ ClosingNext(r, v)
        /\ Held(r, v) => Held(r, v)' \/ ClosingNext(r, v)
    BY <1>1 DEF TKept
  <2>. QED
    BY <2>2, <2>3, <2>4, <2>5, <2>6
<1>2. ConfirmedHeld' /\ PendingCloses'
  BY <1>1 DEF ConfirmedHeld, PendingCloses
<1>3. OneTransmission'
  BY DEF TInv, TKept, OneTransmission
<1>4. ConfirmedType'
  BY DEF TKept
<1>. QED
  BY <1>2, <1>3, <1>4 DEF TInv

\* A request to release v: nothing that will end is lost, and a confirmed
\* transmission of v will end.
LEMMA RequestCloses ==
  ASSUME PInv, PendingCloses, NEW v \in VFO, NEW owner, NEW q,
         RequestRelease(q, v, owner, FALSE), Reduced(pending, pending', Target, v),
         UNCHANGED <<jobs, confirmed, tx_blocked, dying>>
  PROVE  /\ ClosingKept
         /\ \A r \in Rigs, w \in VFO :
              ~dying /\ ~tx_blocked /\ confirmed[r][w] /\ ReleasePending(pending', r, w) =>
                ClosingNext(r, w)
<1>. DEFINE t == Target
            n == outstanding[Target]
<1>1. t \in Rigs
  BY TargetRig DEF PInv
<1>2. pending \in Seq(Pending) /\ jobs \in Seq(Result) /\ Ordered
  BY DEF PInv, Ordered, Lines
<1>3. NewId \in Nat /\ NewId # 0
  BY <1>2, NewIdFresh
<1>4. \/ Duplicate(t, v) /\ UNCHANGED worker
      \/ SubmitRelease(t, v, NewId, n)
  BY DEF RequestRelease
<1>. HIDE DEF t, n
<1>5. ASSUME ClosingKept, ReleasePending(pending, t, v) \/ ClosingNext(t, v),
             NEW r \in Rigs, NEW w \in VFO, ~dying, ~tx_blocked, confirmed[r][w],
             ReleasePending(pending', r, w)
      PROVE  ClosingNext(r, w)
  <2>1. ReleasePending(pending, r, w) \/ (r = t /\ w = v)
    BY <1>5 DEF Reduced, ReleasePending, t
  <2>2. ReleasePending(pending, r, w) => Closing(r, w)
    BY <1>5 DEF PendingCloses
  <2>3. Closing(r, w) => ClosingNext(r, w)
    BY <1>5 DEF ClosingKept
  <2>. QED
    BY <1>5, <2>1, <2>2, <2>3
<1>6. CASE Duplicate(t, v) /\ UNCHANGED worker
  <2>1. ClosingKept
    BY <1>6 DEF ClosingKept, Closing, ClosingNext, worker
  <2>2. ReleasePending(pending, t, v)
    BY <1>6 DEF Duplicate, ReleasePending, Elems
  <2>. QED
    BY <1>5, <2>1, <2>2
<1>7. CASE SubmitRelease(t, v, NewId, n)
  <2>1. Submitted(t, v, NewId, done, running, queue, done', running', queue')
    BY <1>1, <1>2, <1>7, SubmitIs
  <2>. DEFINE k == NewId
  <2>2. k \in Nat /\ k # 0
    BY <1>3
  <2>3. Submitted(t, v, k, done, running, queue, done', running', queue')
    BY <2>1
  <2>. HIDE DEF k
  <2>4. /\ \A s \in Rigs : \A w :
             /\ TrackedIn(running[s], queue[s], w) => TrackedIn(running'[s], queue'[s], w)
             /\ FailedIn(LineIn(jobs, done, s), w) => FailedIn(LineIn(jobs, done', s), w)
        /\ TrackedIn(running'[t], queue'[t], v)
    BY <1>1, <1>2, <2>2, <2>3, ClosingSubmit
  <2>5. ClosingKept /\ ClosingNext(t, v)
    BY <2>4 DEF ClosingKept, Closing, ClosingNext
  <2>. QED
    BY <1>5, <2>5
<1>. QED
  BY <1>4, <1>6, <1>7

\* A client keys: nobody holds the channel, and a key-down ends nothing.
LEMMA KeyDownT ==
  ASSUME PInv, GInv, TInv, NEW c \in Clients, NEW r \in Rigs, NEW v \in VFO, KeyDown(c, r, v)
  PROVE  TInv'
<1>1. /\ talker = NoClient /\ off = NoLoop
      /\ UNCHANGED <<dying, tx_blocked, confirmed, jobs, off>>
  BY DEF KeyDown, Idle, switches, history
<1>2. \A s \in Rigs, w \in VFO : ~Held(s, w)
  BY <1>1 DEF Held
<1>3. CASE UNCHANGED <<talker, ptt_vfo, pending, worker>>
  <2>1. TKept
    BY <1>1, <1>2, <1>3 DEF TKept, TInv, ConfirmedType, ClosingKept, Closing, ClosingNext, worker
  <2>2. HeldConfirmed'
    BY <1>1, <1>3 DEF HeldConfirmed, Held
  <2>. QED
    BY <2>1, <2>2, TInvKept
<1>4. ASSUME NEW p, KeyDownPending(p, r, v, c) PROVE TInv'
  <2>1. /\ p.on /\ p.id \in Nat /\ p.id # 0 /\ Elems(pending') = Elems(pending) \cup {p}
        /\ \A z \in Elems(pending') : Live(z) <=> z = p
    BY <1>4 DEF KeyDownPending, Pending
  <2>2. \A s, w : ReleasePending(pending', s, w) => ReleasePending(pending, s, w)
    BY <2>1 DEF ReleasePending
  <2>3. HeldConfirmed'
    BY <2>1 DEF HeldConfirmed, Held, NoneLive
  <2>4. /\ queue \in [Rigs -> Seq(Job)] /\ UNCHANGED <<running, done>>
        /\ queue' = [queue EXCEPT ![r] = Append(queue[r], [vfo |-> v, on |-> TRUE, pends |-> <<p.id>>])]
    BY <1>4 DEF KeyDownPending, SubmitKeyDown, PInv, Ordered, Lines
  <2>5. [vfo |-> v, on |-> TRUE, pends |-> <<p.id>>] \in Job
    BY <2>1 DEF Job
  <2>6. \A s \in Rigs : Elems(queue[s]) \subseteq Elems(queue'[s])
    <3>1. ASSUME NEW s \in Rigs PROVE Elems(queue[s]) \subseteq Elems(queue'[s])
      <4>1. CASE s = r
        BY <2>4, <2>5, <4>1, AppendElems
      <4>2. CASE s # r
        BY <2>4, <4>2
      <4>. QED
        BY <4>1, <4>2
    <3>. QED
      BY <3>1
  <2>7. ClosingKept
    BY <1>1, <2>4, <2>6 DEF ClosingKept, Closing, ClosingNext, TrackedIn
  <2>8. TKept
    BY <1>1, <1>2, <2>2, <2>7 DEF TKept, TInv, ConfirmedType
  <2>. QED
    BY <2>3, <2>8, TInvKept
<1>. QED
  BY <1>3, <1>4, KeyDownGInv

\* The talker's release, by hand or because its connection closes.
LEMMA TalkerReleases ==
  ASSUME PInv, GInv, TInv, talker # NoClient, NEW owner, NEW q,
         RequestRelease(q, ptt_vfo, owner, FALSE), Reduced(pending, pending', Target, ptt_vfo),
         UNCHANGED <<jobs, confirmed, tx_blocked, dying>>, talker' = NoClient
  PROVE  TInv'
<1>1. ptt_vfo \in VFO
  BY DEF PInv, Typed
<1>2. /\ ClosingKept
      /\ \A r \in Rigs, w \in VFO :
           ~dying /\ ~tx_blocked /\ confirmed[r][w] /\ ReleasePending(pending', r, w) =>
             ClosingNext(r, w)
  BY <1>1, RequestCloses DEF TInv
<1>3. ReleasePending(pending', Target, ptt_vfo)
  BY DEF Reduced
<1>4. \A r \in Rigs, w \in VFO : Held(r, w) => r = Target /\ w = ptt_vfo
  BY TalkerTarget DEF Held
<1>5. TKept
  BY <1>2, <1>3, <1>4 DEF TKept, TInv, ConfirmedType
<1>6. HeldConfirmed'
  BY DEF HeldConfirmed, Held
<1>. QED
  BY <1>5, <1>6, TInvKept

\* The talker releases.
LEMMA KeyUpT ==
  ASSUME PInv, GInv, TInv, KeyUp
  PROVE  TInv'
<1>1. PICK rejected \in BOOLEAN :
        /\ RequestRelease(pending, ptt_vfo, NoClient, rejected)
        /\ IF rejected THEN UNCHANGED <<talker, ptt_vfo>>
                       ELSE talker' = NoClient /\ ptt_vfo' = NoVfo
  BY DEF KeyUp
<1>2. talker # NoClient /\ UNCHANGED <<jobs, confirmed, tx_blocked, dying>>
  BY DEF KeyUp, switches, history
<1>3. ptt_vfo \in VFO /\ pending \in Seq(Pending) /\ NoClient \in Client
  BY <1>2 DEF PInv, Typed, Ordered, Lines, Client
<1>4. ~rejected
  BY <1>1, <1>3, SameRelabelled, RequestReleaseStep DEF PInv
<1>5. Reduced(pending, pending', Target, ptt_vfo)
  BY KeyUpGInv
<1>. QED
  BY <1>1, <1>2, <1>4, <1>5, TalkerReleases

\* A connection closes.
LEMMA DisconnectT ==
  ASSUME PInv, GInv, TInv, NEW c \in Clients, Disconnect(c)
  PROVE  TInv'
<1>1. /\ off = NoLoop /\ Closed(c)
      /\ UNCHANGED <<jobs, confirmed, tx_blocked, dying, ptt_rig, off>>
  BY DisconnectGInv DEF Disconnect, Idle, history
<1>2. CASE c = talker
  <2>1. PICK rejected \in BOOLEAN : RequestRelease(Orphan(pending, c), ptt_vfo, NoClient, rejected)
    BY <1>2 DEF Disconnect
  <2>2. pending \in Seq(Pending) /\ NoClient \in Client /\ talker # NoClient
    BY <1>2, LogAssumption DEF PInv, Ordered, Lines, Client
  <2>3. ptt_vfo \in VFO
    BY <2>2 DEF PInv, Typed
  <2>4. ~rejected
    BY <2>1, <2>2, <2>3, OrphanIs, RequestReleaseStep DEF PInv
  <2>5. Reduced(pending, pending', Target, ptt_vfo) /\ talker' = NoClient
    BY <1>1, <1>2 DEF Closed
  <2>. QED
    BY <1>1, <2>1, <2>2, <2>4, <2>5, TalkerReleases
<1>3. CASE c # talker
  <2>1. /\ LiveFrom(pending, pending') /\ LiveFrom(pending', pending)
        /\ \A r, w : ReleasePending(pending, r, w) <=> ReleasePending(pending', r, w)
        /\ UNCHANGED <<talker, ptt_vfo, worker>>
    BY <1>1, <1>3 DEF Closed
  <2>2. NoneLive(pending) => NoneLive(pending')
    BY <2>1 DEF NoneLive, LiveFrom
  <2>3. NoneLive(pending') => NoneLive(pending)
    BY <2>1 DEF NoneLive, LiveFrom
  <2>4. ClosingKept
    BY <1>1, <2>1 DEF ClosingKept, Closing, ClosingNext, worker
  <2>5. TKept
    BY <1>1, <2>1, <2>2, <2>4 DEF TKept, TInv, ConfirmedType, Held
  <2>6. HeldConfirmed'
    BY <1>1, <2>1, <2>3 DEF TInv, HeldConfirmed, Held, worker
  <2>. QED
    BY <2>5, <2>6, TInvKept
<1>. QED
  BY <1>2, <1>3

\* The loop starts: whoever talks is on its rig.
LEMMA StartOffT ==
  ASSUME OneStop, PInv, GInv, TInv, NEW why, NEW r, StartOff(why, r),
         r = ptt_rig \/ (r \in Rigs /\ why \in {"trip", "reset"}), dying => dying'
  PROVE  TInv'
<1>1. /\ off' # NoLoop /\ (talker # NoClient => ptt_rig' = ptt_rig)
      /\ UNCHANGED <<talker, ptt_vfo, pending, jobs, worker, confirmed, tx_blocked>>
  BY StartOffGInv DEF StartOff, NoLoop, history
<1>2. HeldConfirmed'
  BY <1>1 DEF HeldConfirmed
<1>3. TKept
  BY <1>1 DEF TKept, TInv, ConfirmedType, Held, ClosingKept, Closing, ClosingNext, worker
<1>. QED
  BY <1>2, <1>3, TInvKept

\* One VFO of the loop.
LEMMA OffVfoT ==
  ASSUME PInv, GInv, TInv, OffVfo
  PROVE  TInv'
<1>1. /\ off' # NoLoop /\ off.next \in VFO /\ Reduced(pending, pending', Target, off.next)
      /\ UNCHANGED <<talker, ptt_vfo, ptt_rig, jobs, confirmed, tx_blocked, dying>>
  BY OffVfoGInv DEF OffVfo, switches, history
<1>2. PICK rejected \in BOOLEAN : RequestRelease(pending, off.next, talker, rejected)
  BY DEF OffVfo
<1>3. pending \in Seq(Pending) /\ talker \in Client
  BY DEF PInv, Ordered, Lines, Typed
<1>4. ~rejected
  BY <1>1, <1>2, <1>3, SameRelabelled, RequestReleaseStep DEF PInv
<1>5. /\ ClosingKept
      /\ \A r \in Rigs, w \in VFO :
           ~dying /\ ~tx_blocked /\ confirmed[r][w] /\ ReleasePending(pending', r, w) =>
             ClosingNext(r, w)
  BY <1>1, <1>2, <1>4, RequestCloses DEF TInv
<1>6. NoneLive(pending) => NoneLive(pending')
  BY <1>1, ReducedKeeps
<1>7. TKept
  BY <1>1, <1>5, <1>6 DEF TKept, TInv, ConfirmedType, Held
<1>8. HeldConfirmed'
  BY <1>1 DEF HeldConfirmed
<1>. QED
  BY <1>7, <1>8, TInvKept

\* The end of the loop: the talker's rig has a release of every VFO pending.
LEMMA EndOffT ==
  ASSUME PInv, GInv, TInv, EndOff
  PROVE  TInv'
<1>1. /\ pending' = pending /\ talker' = NoClient
      /\ \A v \in VFO : ReleasePending(pending, Target, v)
      /\ UNCHANGED <<jobs, worker, confirmed, dying>>
  BY EndOffGInv DEF EndOff, history
<1>2. tx_blocked => tx_blocked'
  BY DEF EndOff
<1>3. ClosingKept
  BY <1>1 DEF ClosingKept, Closing, ClosingNext, worker
<1>4. ASSUME NEW r \in Rigs, NEW v \in VFO, ~dying', ~tx_blocked', confirmed'[r][v], Held(r, v)
      PROVE  ClosingNext(r, v)
  <2>1. r = Target
    BY <1>4, TalkerTarget DEF Held
  <2>2. confirmed[r][v] /\ ~dying /\ ~tx_blocked
    BY <1>1, <1>2, <1>4
  <2>3. Closing(r, v)
    BY <1>1, <2>1, <2>2 DEF TInv, PendingCloses
  <2>. QED
    BY <1>3, <1>4, <2>3 DEF ClosingKept
<1>5. TKept
  BY <1>1, <1>2, <1>3, <1>4 DEF TKept, TInv, ConfirmedType
<1>6. HeldConfirmed'
  BY <1>1 DEF HeldConfirmed, Held
<1>. QED
  BY <1>5, <1>6, TInvKept

\* Results are detached.
LEMMA DrainT ==
  ASSUME PInv, TInv, NEW r \in Rigs, Drain(r)
  PROVE  TInv'
<1>1. /\ UNCHANGED <<talker, ptt_vfo, ptt_rig, pending, off, queue, running, confirmed,
                     tx_blocked, dying>>
      /\ \A s \in Rigs : LineIn(jobs', done', s) = LineIn(jobs, done, s)
  BY LineDrain DEF Drain, switches, history
<1>2. TKept
  BY <1>1 DEF TKept, TInv, ConfirmedType, Held, ClosingKept, Closing, ClosingNext
<1>3. HeldConfirmed'
  BY <1>1 DEF TInv, HeldConfirmed, Held
<1>. QED
  BY <1>2, <1>3, TInvKept

\* The worker takes a job.
LEMMA TakeT ==
  ASSUME PInv, TInv, NEW r \in Rigs, Take(r)
  PROVE  TInv'
<1>1. UNCHANGED <<talker, ptt_vfo, ptt_rig, pending, off, jobs, confirmed, tx_blocked, dying>>
  BY DEF Take, switches, history
<1>. DEFINE Q == queue[r]
            h == Head(Q)
            R == Tail(Q)
<1>2. /\ running[r] = NoJob /\ Q \in Seq(Job) /\ Q # <<>>
      /\ queue' = [queue EXCEPT ![r] = R]
      /\ queue \in [Rigs -> Seq(Job)] /\ running \in [Rigs -> Job \cup {NoJob}]
      /\ \/ running' = [running EXCEPT ![r] = h] /\ done' = done
         \/ /\ h.on /\ running' = running
            /\ \E F : ResultsOf(F, r, h) /\ done' = [done EXCEPT ![r] = done[r] \o F]
  BY TakeIs
<1>3. /\ Len(Q) \in Nat /\ Len(R) = Len(Q) - 1 /\ Elems(Q) = Elems(R) \cup {h} /\ h = Q[1]
      /\ 1 \in 1..Len(Q)
      /\ \A i \in 1..Len(R) : R[i] = Q[i + 1] /\ i + 1 \in 1..Len(Q)
  BY <1>2, TailElems
<1>. HIDE DEF Q, h, R
<1>4. running'[r] = h \/ (h.on /\ running'[r] = NoJob)
  BY <1>2
<1>5. /\ queue'[r] = R
      /\ \A s \in Rigs : s # r => queue'[s] = queue[s] /\ running'[s] = running[s]
  BY <1>2
<1>6. \A v : TrackedIn(NoJob, Q, v) => TrackedIn(running'[r], R, v)
  BY <1>3, <1>4 DEF TrackedIn, IsReleaseOf
<1>7. Quiet(NoJob, Q) => Quiet(running'[r], R)
  <2>. SUFFICES ASSUME \A i \in 1..Len(Q) : Q[i].on PROVE Quiet(running'[r], R)
    BY DEF Quiet
  <2>1. h.on /\ \A i \in 1..Len(R) : R[i].on
    BY <1>3
  <2>. QED
    BY <1>4, <2>1 DEF Quiet
<1>8. \A s \in Rigs, v \in VFO : FailedIn(LineIn(jobs, done, s), v) => FailedIn(LineIn(jobs', done', s), v)
  <2>1. CASE done' = done
    BY <1>1, <2>1
  <2>2. ASSUME NEW F, ResultsOf(F, r, h), done' = [done EXCEPT ![r] = done[r] \o F]
        PROVE  \A s \in Rigs, v \in VFO :
                 FailedIn(LineIn(jobs, done, s), v) => FailedIn(LineIn(jobs', done', s), v)
    <3>1. F \in Seq(Result) /\ Appended(done, done', r, F)
      BY <2>2 DEF ResultsOf, Appended
    <3>2. /\ LineIn(jobs, done', r) = LineIn(jobs, done, r) \o F
          /\ \A s \in Rigs : s # r => LineIn(jobs, done', s) = LineIn(jobs, done, s)
      BY <3>1, WorkerAppends
    <3>3. LineIn(jobs, done, r) \in Seq(Result)
      BY LineType
    <3>4. Elems(LineIn(jobs, done, r)) \subseteq Elems(LineIn(jobs, done', r))
      BY <3>1, <3>2, <3>3, ConcatElems
    <3>5. \A s \in Rigs : Elems(LineIn(jobs, done, s)) \subseteq Elems(LineIn(jobs', done', s))
      BY <1>1, <3>2, <3>4
    <3>. QED
      BY <3>5 DEF FailedIn
  <2>. QED
    BY <1>2, <2>1, <2>2
<1>9. ASSUME NEW s \in Rigs, NEW v \in VFO, Closing(s, v) PROVE ClosingNext(s, v)
  <2>1. CASE s = r
    BY <1>2, <1>5, <1>6, <1>8, <1>9, <2>1 DEF Closing, ClosingNext, Q
  <2>2. CASE s # r
    BY <1>5, <1>8, <1>9, <2>2 DEF Closing, ClosingNext
  <2>. QED
    BY <2>1, <2>2
<1>10. TKept
  BY <1>1, <1>9 DEF TKept, TInv, ConfirmedType, Held, ClosingKept
<1>11. ASSUME NEW s \in Rigs, Quiet(running[s], queue[s]) PROVE Quiet(running'[s], queue'[s])
  <2>1. CASE s = r
    BY <1>2, <1>5, <1>7, <1>11, <2>1 DEF Q
  <2>2. CASE s # r
    BY <1>5, <1>11, <2>2
  <2>. QED
    BY <2>1, <2>2
<1>12. HeldConfirmed'
  BY <1>1, <1>11 DEF TInv, HeldConfirmed, Held
<1>. QED
  BY <1>10, <1>12, TInvKept

\* One entry of a table of switches is set or cleared.
LEMMA SetIs ==
  ASSUME NEW C \in [Rigs -> [VFO -> BOOLEAN]], NEW r \in Rigs, NEW w \in VFO, NEW b \in BOOLEAN,
         NEW D, D = [C EXCEPT ![r][w] = b]
  PROVE  /\ D \in [Rigs -> [VFO -> BOOLEAN]] /\ D[r][w] = b
         /\ \A s \in Rigs, v \in VFO : ~(s = r /\ v = w) => D[s][v] = C[s][v]
         /\ ~b => \A s \in Rigs, v \in VFO : D[s][v] => C[s][v]
OBVIOUS

\* The worker finishes a job: a release that succeeds ends the transmission,
\* and one that fails will be reported if a request waits for it.
LEMMA ExecuteT ==
  ASSUME PInv, TInv, NEW r \in Rigs, Execute(r)
  PROVE  TInv'
<1>1. UNCHANGED <<talker, ptt_vfo, ptt_rig, pending, off, jobs, tx_blocked, dying>>
  BY DEF Execute, switches
<1>. DEFINE x == running[r]
            Q == queue[r]
<1>2. /\ x \in Job /\ running' = [running EXCEPT ![r] = NoJob] /\ queue' = queue
      /\ running \in [Rigs -> Job \cup {NoJob}]
      /\ \E f \in BOOLEAN : \E F :
           /\ ResultsOf(F, r, x) /\ done' = [done EXCEPT ![r] = done[r] \o F]
           /\ F = Finished(r, x, f)
           /\ IF ~x.on /\ ~f THEN confirmed' = [confirmed EXCEPT ![r][x.vfo] = FALSE]
                             ELSE confirmed' = confirmed
  BY ExecuteIs
<1>31. PICK f \in BOOLEAN : \E F :
        /\ ResultsOf(F, r, x) /\ done' = [done EXCEPT ![r] = done[r] \o F]
        /\ F = Finished(r, x, f)
        /\ IF ~x.on /\ ~f THEN confirmed' = [confirmed EXCEPT ![r][x.vfo] = FALSE]
                          ELSE confirmed' = confirmed
  BY <1>2
<1>3. PICK F :
        /\ ResultsOf(F, r, x) /\ done' = [done EXCEPT ![r] = done[r] \o F]
        /\ F = Finished(r, x, f)
        /\ IF ~x.on /\ ~f THEN confirmed' = [confirmed EXCEPT ![r][x.vfo] = FALSE]
                          ELSE confirmed' = confirmed
  BY <1>31
<1>4. x # NoJob /\ x.vfo \in VFO
  BY <1>2, JobType
<1>5. F \in Seq(Result) /\ Appended(done, done', r, F)
  BY <1>3 DEF ResultsOf, Appended
<1>6. /\ LineIn(jobs, done', r) = LineIn(jobs, done, r) \o F
      /\ \A s \in Rigs : s # r => LineIn(jobs, done', s) = LineIn(jobs, done, s)
  BY <1>5, WorkerAppends
<1>7. LineIn(jobs, done, r) \in Seq(Result)
  BY LineType
<1>8. Elems(LineIn(jobs', done', r)) = Elems(LineIn(jobs, done, r)) \cup Elems(F)
  BY <1>1, <1>5, <1>6, <1>7, ConcatElems
<1>9. \A i \in 1..Len(x.pends) : F[i] \in Elems(F) /\ F[i].failed = f /\ F[i].vfo = x.vfo
                                  /\ F[i].on = x.on /\ F[i].pend = x.pends[i]
  <2>1. \A i \in 1..Len(x.pends) : F[i].failed = f
    BY <1>3 DEF Finished
  <2>2. Len(F) = Len(x.pends)
    BY <1>3 DEF ResultsOf
  <2>3. \A i \in 1..Len(x.pends) : F[i].vfo = x.vfo /\ F[i].on = x.on /\ F[i].pend = x.pends[i]
    BY <1>3, <2>2 DEF ResultsOf
  <2>. QED
    BY <2>1, <2>2, <2>3 DEF Elems
<1>. HIDE DEF x, Q
<1>10. running'[r] = NoJob /\ \A s \in Rigs : s # r => running'[s] = running[s]
  BY <1>2
<1>11. confirmed \in [Rigs -> [VFO -> BOOLEAN]]
  BY DEF TInv, ConfirmedType
<1>12. /\ confirmed' \in [Rigs -> [VFO -> BOOLEAN]]
       /\ \A s \in Rigs, v \in VFO : confirmed'[s][v] => confirmed[s][v]
       /\ ~x.on /\ ~f => ~confirmed'[r][x.vfo]
  <2>1. CASE ~x.on /\ ~f
    <3>1. confirmed' = [confirmed EXCEPT ![r][x.vfo] = FALSE]
      BY <1>3, <2>1
    <3>. QED
      BY <1>4, <1>11, <3>1, SetIs
  <2>2. CASE ~(~x.on /\ ~f)
    BY <1>3, <1>11, <2>2
  <2>. QED
    BY <2>1, <2>2
<1>13. ASSUME NEW v \in VFO, confirmed'[r][v], Closing(r, v) PROVE ClosingNext(r, v)
  <2>1. CASE FailedIn(LineIn(jobs, done, r), v)
    BY <1>8, <2>1 DEF FailedIn, ClosingNext
  <2>2. CASE TrackedIn(x, Q, v)
    <3>1. PICK j \in Elems(Q) \cup {x} : IsReleaseOf(j, v) /\ Tracked(j)
      BY <2>2 DEF TrackedIn
    <3>2. CASE j \in Elems(Q)
      BY <1>2, <1>10, <3>1, <3>2 DEF ClosingNext, TrackedIn, Q
    <3>3. CASE j = x
      <4>1. ~x.on /\ x.vfo = v
        BY <3>1, <3>3 DEF IsReleaseOf
      <4>2. f
        BY <1>12, <1>13, <4>1
      <4>3. PICK i \in 1..Len(x.pends) : x.pends[i] # 0
        BY <3>1, <3>3 DEF Tracked
      <4>. QED
        BY <1>8, <1>9, <4>1, <4>2, <4>3 DEF ClosingNext, FailedIn
    <3>. QED
      BY <3>1, <3>2, <3>3
  <2>. QED
    BY <1>13, <2>1, <2>2 DEF Closing, x, Q
<1>14. ClosingKept
  BY <1>1, <1>2, <1>6, <1>10, <1>13 DEF ClosingKept, Closing, ClosingNext
<1>15. TKept
  BY <1>1, <1>12, <1>14 DEF TKept, ConfirmedType, Held
<1>16. ASSUME off = NoLoop, NEW s \in Rigs, NEW v \in VFO, Held(s, v)
       PROVE  confirmed'[s][v] /\ Quiet(running'[s], queue'[s])
  <2>1. confirmed[s][v] /\ Quiet(running[s], queue[s])
    BY <1>16 DEF TInv, HeldConfirmed
  <2>2. CASE s = r
    <3>1. x.on
      BY <1>4, <2>1, <2>2 DEF Quiet, x
    <3>. QED
      BY <1>2, <1>3, <1>10, <2>1, <2>2, <3>1 DEF Quiet
  <2>3. CASE s # r
    <3>1. confirmed'[s] = confirmed[s]
      BY <1>3, <1>11, <2>3
    <3>. QED
      BY <1>2, <1>10, <2>1, <2>3, <3>1
  <2>. QED
    BY <2>2, <2>3
<1>17. HeldConfirmed'
  BY <1>1, <1>16 DEF HeldConfirmed, Held
<1>. QED
  BY <1>15, <1>17, TInvKept

\* The first result leaves its line: only that of a failed release reports that
\* a release failed.
LEMMA FailedReplay ==
  ASSUME PInv, NEW j, Replay(j), j.on \/ ~j.failed \/ j.pend = 0
  PROVE  \A s \in Rigs, v \in VFO :
           FailedIn(LineIn(jobs, done, s), v) => FailedIn(LineIn(Tail(jobs), done, s), v)
<1>1. /\ j.rig \in Rigs /\ LineLed(j, LineIn(jobs, done, j.rig), LineIn(Tail(jobs), done, j.rig))
      /\ \A s \in Rigs : s # j.rig => LineIn(Tail(jobs), done, s) = LineIn(jobs, done, s)
  BY LineReplay
<1>2. ASSUME NEW s \in Rigs, NEW v \in VFO, FailedIn(LineIn(jobs, done, s), v)
      PROVE  FailedIn(LineIn(Tail(jobs), done, s), v)
  <2>1. CASE s = j.rig
    <3>1. LineIn(jobs, done, s) \in Seq(Result)
      BY LineType
    <3>. QED
      BY <1>1, <1>2, <2>1, <3>1, FailedKept
  <2>2. CASE s # j.rig
    BY <1>1, <1>2, <2>2
  <2>. QED
    BY <2>1, <2>2
<1>. QED
  BY <1>2

\* A replay that leaves the workers alone loses no end of a transmission.
LEMMA ReplayCloses ==
  ASSUME PInv, NEW j, Replay(j), j.on \/ ~j.failed \/ j.pend = 0,
         UNCHANGED <<queue, running, done>>
  PROVE  \A s \in Rigs, v \in VFO : Closing(s, v) => ClosingNext(s, v)
<1>1. jobs' = Tail(jobs)
  BY DEF Replay
<1>. QED
  BY <1>1, FailedReplay DEF Closing, ClosingNext

\* Nor does one that takes a key-down back.
LEMMA UntrackedCloses ==
  ASSUME PInv, NEW j, Replay(j), j.on, j.vfo \in VFO, NEW n, UntrackedRelease(j.rig, j.vfo, n)
  PROVE  \A s \in Rigs, v \in VFO : Closing(s, v) => ClosingNext(s, v)
<1>1. jobs' = Tail(jobs)
  BY DEF Replay
<1>2. CASE UNCHANGED <<queue, running, done>>
  BY <1>2, ReplayCloses
<1>3. CASE SubmitRelease(j.rig, j.vfo, 0, n)
  <2>1. j.rig \in Rigs
    BY LineReplay
  <2>2. Submitted(j.rig, j.vfo, 0, done, running, queue, done', running', queue')
    BY <1>3, <2>1, SubmitIs DEF PInv
  <2>. DEFINE J == Tail(jobs)
              k == 0
  <2>3. J \in Seq(Result)
    BY FirstResult, TailElems
  <2>4. k \in Nat /\ Submitted(j.rig, j.vfo, k, done, running, queue, done', running', queue')
    BY <2>2
  <2>. HIDE DEF J, k
  <2>5. \A s \in Rigs : \A w :
             /\ TrackedIn(running[s], queue[s], w) => TrackedIn(running'[s], queue'[s], w)
             /\ FailedIn(LineIn(J, done, s), w) => FailedIn(LineIn(J, done', s), w)
    BY <2>1, <2>3, <2>4, ClosingSubmit
  <2>6. \A s \in Rigs, v \in VFO :
           FailedIn(LineIn(jobs, done, s), v) => FailedIn(LineIn(Tail(jobs), done, s), v)
    BY FailedReplay
  <2>. QED
    BY <1>1, <2>5, <2>6 DEF Closing, ClosingNext, J
<1>. QED
  BY <1>2, <1>3 DEF UntrackedRelease

\* A result nobody waits for.
LEMMA DropT ==
  ASSUME PInv, GInv, TInv, NEW j, DropResult(j)
  PROVE  TInv'
<1>1. /\ Replay(j) /\ UNCHANGED <<talker, ptt_vfo, ptt_rig, off, dying, tx_blocked, confirmed>>
      /\ UNCHANGED <<queue, running, done>>
  BY DropIs DEF DropResult, CountOut, Replay
<1>2. \/ j.pend = 0 /\ pending' = pending
      \/ \E p \in Elems(pending) :
           /\ p.id = j.pend /\ pending' = Without(pending, {p}) /\ ~Live(p)
           /\ dying \/ (p.on /\ p.superseded)
  BY DropIs
<1>3. /\ Elems(pending') \subseteq Elems(pending)
      /\ \A z \in Elems(pending) : z \in Elems(pending') \/ ~Live(z)
      /\ ~dying => j.on \/ j.pend = 0
  <2>1. CASE j.pend = 0 /\ pending' = pending
    BY <2>1
  <2>2. ASSUME NEW p \in Elems(pending), p.id = j.pend, pending' = Without(pending, {p}), ~Live(p),
               dying \/ (p.on /\ p.superseded)
        PROVE  /\ Elems(pending') = Elems(pending) \ {p} /\ (~dying => j.on)
    <3>1. Elems(pending') = Elems(pending) \ {p}
      BY <1>1, <2>2, UnlinkReduces
    <3>2. p.on = j.on
      BY <1>1, <2>2, UnlinkFirst DEF PInv
    <3>. QED
      BY <2>2, <3>1, <3>2
  <2>. QED
    BY <1>2, <2>1, <2>2
<1>4. NoneLive(pending') => NoneLive(pending)
  BY <1>3 DEF NoneLive
<1>5. NoneLive(pending) => NoneLive(pending')
  BY <1>3 DEF NoneLive
<1>6. \A r, w : ReleasePending(pending', r, w) => ReleasePending(pending, r, w)
  BY <1>3 DEF ReleasePending
<1>7. HeldConfirmed'
  BY <1>1, <1>4 DEF TInv, HeldConfirmed, Held
<1>8. CASE ~dying
  <2>1. ClosingKept
    BY <1>1, <1>3, <1>8, ReplayCloses DEF ClosingKept
  <2>2. TKept
    BY <1>1, <1>5, <1>6, <2>1 DEF TKept, TInv, ConfirmedType, Held
  <2>. QED
    BY <1>7, <2>2, TInvKept
<1>9. CASE dying
  BY <1>1, <1>7, <1>9 DEF TInv, ConfirmedType, ConfirmedHeld, PendingCloses, OneTransmission
<1>. QED
  BY <1>8, <1>9

\* A key-down is taken back: it was the one that counted, so that nothing that
\* was confirmed is the talker's.
LEMMA RejectT ==
  ASSUME PInv, GInv, TInv, NEW j, NEW p, Completed(j, p), p.on,
         \E n : UntrackedRelease(j.rig, j.vfo, n), talker' = NoClient,
         UNCHANGED <<dying, tx_blocked, confirmed>>
  PROVE  TInv'
<1>1. /\ p \in Elems(pending) /\ p.id = j.pend /\ Replay(j) /\ Live(p)
      /\ pending' = Without(pending, {p})
  BY CompletedIs
<1>2. Elems(pending') = Elems(pending) \ {p}
  BY <1>1, UnlinkReduces
<1>3. j.on /\ j.vfo \in VFO
  BY <1>1, UnlinkFirst DEF PInv
<1>4. \A r \in Rigs, v \in VFO : ~Held(r, v)
  BY <1>1 DEF Held, NoneLive
<1>5. ClosingKept
  BY <1>1, <1>3, UntrackedCloses DEF ClosingKept
<1>6. TKept
  BY <1>2, <1>4, <1>5 DEF TKept, TInv, ConfirmedType, ReleasePending
<1>7. HeldConfirmed'
  BY DEF HeldConfirmed, Held
<1>. QED
  BY <1>6, <1>7, TInvKept

\* When the key-down that counts is answered, nothing that was confirmed
\* remains: it would be ending, but behind the answer there is no release on
\* its own rig, and on the others none is pending.
LEMMA ConfirmedAlone ==
  ASSUME PInv, GInv, TInv, LiveLast, NEW j, NEW p, Completed(j, p), p.on, ~tx_blocked
  PROVE  /\ \A r \in Rigs, v \in VFO : ~confirmed[r][v]
         /\ Quiet(running[p.rig], queue[p.rig])
         /\ ~ReleasePending(pending, p.rig, p.vfo)
<1>1. /\ p \in Elems(pending) /\ p.id = j.pend /\ Replay(j) /\ Live(p) /\ ~dying
  BY CompletedIs
<1>2. /\ p.rig = j.rig /\ p.rig \in Rigs /\ off = NoLoop
      /\ LineLed(j, LineIn(jobs, done, j.rig), LineIn(Tail(jobs), done, j.rig))
  BY <1>1, UnlinkFirst, LineReplay DEF PInv, Replay
<1>. DEFINE L == LineIn(jobs, done, p.rig)
            x == running[p.rig]
            Q == queue[p.rig]
            k == p.id
<1>3. LastRelease(k, L, x, Q)
  BY <1>1, <1>2 DEF LiveLast
<1>4. LineLed(j, L, LineIn(Tail(jobs), done, p.rig)) /\ j.pend = k
  BY <1>1, <1>2
<1>5. L \in Seq(Result) /\ Elems(L) = Elems(JobsOf(jobs, p.rig)) \cup Elems(done[p.rig])
  BY <1>2, LineType
<1>. HIDE DEF L, x, Q, k
<1>6. Quiet(x, Q) /\ \A y \in Elems(L) : y.on
  BY <1>3, <1>4, LastLed
<1>7. \A i \in Elems(Q) \cup {x} : i # NoJob => i.on
  BY <1>6 DEF Quiet, Elems
<1>8. ASSUME NEW r \in Rigs, NEW v \in VFO, confirmed[r][v] PROVE FALSE
  <2>1. ~Held(r, v)
    BY <1>1 DEF Held, NoneLive
  <2>2. Closing(r, v)
    BY <1>1, <1>8, <2>1 DEF TInv, ConfirmedHeld
  <2>3. CASE r = p.rig
    BY <1>6, <1>7, <2>2, <2>3 DEF Closing, TrackedIn, FailedIn, IsReleaseOf, L, x, Q
  <2>4. CASE r # p.rig
    <3>1. \A z \in Elems(pending) : ~z.on => z.rig # r
      BY <1>1, <2>4 DEF GInv, LiveAlone
    <3>2. ASSUME NEW i \in Elems(queue[r]) \cup {running[r]}, IsReleaseOf(i, v), Tracked(i)
          PROVE  FALSE
      <4>1. PICK m : m # 0 /\ Answers(i, m)
        BY <3>2, TrackedItem
      <4>2. \E z \in Elems(pending) : z.id = m /\ z.rig = r /\ z.vfo = i.vfo /\ z.on = i.on
        BY <3>2, <4>1, AnsweredPending DEF IsReleaseOf
      <4>. QED
        BY <3>1, <3>2, <4>2 DEF IsReleaseOf
    <3>3. ASSUME NEW y \in Elems(LineIn(jobs, done, r)), ~y.on, y.pend # 0
          PROVE  FALSE
      <4>. DEFINE m == y.pend
      <4>1. m # 0 /\ y.pend = m
        BY <3>3
      <4>. HIDE DEF m
      <4>2. \E z \in Elems(pending) : z.id = m /\ z.rig = r /\ z.vfo = y.vfo /\ z.on = y.on
        BY <3>3, <4>1, AnsweredPending
      <4>. QED
        BY <3>1, <3>3, <4>2
    <3>. QED
      BY <2>2, <3>2, <3>3 DEF Closing, TrackedIn, FailedIn
  <2>. QED
    BY <2>3, <2>4
<1>9. ASSUME NEW z \in Elems(pending), ~z.on, z.rig = p.rig PROVE FALSE
  <2>1. RigSound(pending, p.rig, JobsOf(jobs, p.rig), done[p.rig], x, Q) /\ Unique(pending)
    BY <1>2 DEF PInv, Ordered, Lines, x, Q
  <2>2. x \in Job \cup {NoJob} /\ Q \in Seq(Job)
    BY <1>2 DEF PInv, Ordered, Lines, x, Q
  <2>3. \E X \in Items(JobsOf(jobs, p.rig), done[p.rig], x, Q) :
           z.id \in X.ids /\ X.vfo = z.vfo /\ X.on = z.on
    BY <1>9, <2>1, CarriedItem
  <2>4. z.on = FALSE
    <3>1. pending \in Seq(Pending)
      BY DEF PInv, Ordered, Lines
    <3>. QED
      BY <1>9, <3>1, PendingElem DEF Pending
  <2>5. HoldsRelease(Items(JobsOf(jobs, p.rig), done[p.rig], x, Q), z.vfo)
    BY <2>3, <2>4 DEF HoldsRelease
  <2>6. InLine(JobsOf(jobs, p.rig), done[p.rig], x, Q, z.vfo)
    BY <2>2, <2>5, ReleaseItem
  <2>. QED
    BY <1>5, <1>6, <1>7, <2>6 DEF InLine, InHand, IsReleaseOf
<1>10. ~ReleasePending(pending, p.rig, p.vfo)
  BY <1>9 DEF ReleasePending
<1>. QED
  BY <1>6, <1>8, <1>10 DEF x, Q

\* A key-down is confirmed.
LEMMA ConfirmT ==
  ASSUME PInv, GInv, TInv, LiveLast, NEW j, NEW p, ConfirmKeyDown(j, p)
  PROVE  TInv'
<1>1. /\ Completed(j, p) /\ p.on /\ ~tx_blocked
      /\ confirmed' = [confirmed EXCEPT ![p.rig][p.vfo] = TRUE]
      /\ UNCHANGED <<talker, ptt_vfo, tx_blocked, queue, running, done>>
  BY DEF ConfirmKeyDown, KeyDownBarred, CountOut
<1>2. /\ p \in Elems(pending) /\ p.id = j.pend /\ Replay(j) /\ Live(p)
      /\ pending' = Without(pending, {p})
  BY <1>1, CompletedIs
<1>3. UNCHANGED <<ptt_rig, off, dying>>
  BY <1>2 DEF Replay
<1>4. /\ Elems(pending') = Elems(pending) \ {p}
      /\ \A z \in Elems(pending) : z.id = p.id => z = p
  BY <1>2, UnlinkReduces
<1>5. /\ \A r \in Rigs, v \in VFO : ~confirmed[r][v]
      /\ Quiet(running[p.rig], queue[p.rig])
      /\ ~ReleasePending(pending, p.rig, p.vfo)
  BY <1>1, ConfirmedAlone
<1>6. /\ talker # NoClient /\ p.rig = ptt_rig /\ p.vfo = ptt_vfo /\ p.rig \in Rigs /\ p.vfo \in VFO
  BY <1>2, LiveTalker, UnlinkFirst DEF PInv
<1>7. NoneLive(pending')
  BY <1>2, <1>4 DEF NoneLive, GInv, OneLive
<1>. DEFINE r0 == p.rig
            v0 == p.vfo
<1>8. /\ confirmed \in [Rigs -> [VFO -> BOOLEAN]] /\ r0 \in Rigs /\ v0 \in VFO
      /\ confirmed' = [confirmed EXCEPT ![r0][v0] = TRUE]
  BY <1>1, <1>6 DEF TInv, ConfirmedType
<1>9. /\ talker' # NoClient /\ ptt_rig' = r0 /\ ptt_vfo' = v0
      /\ Quiet(running'[r0], queue'[r0]) /\ ~ReleasePending(pending', r0, v0)
  BY <1>1, <1>3, <1>4, <1>5, <1>6 DEF ReleasePending
<1>. HIDE DEF r0, v0
<1>10. /\ confirmed' \in [Rigs -> [VFO -> BOOLEAN]] /\ confirmed'[r0][v0]
       /\ \A r \in Rigs, v \in VFO : confirmed'[r][v] => r = r0 /\ v = v0
  <2>1. /\ confirmed' \in [Rigs -> [VFO -> BOOLEAN]] /\ confirmed'[r0][v0] = TRUE
        /\ \A r \in Rigs, v \in VFO : ~(r = r0 /\ v = v0) => confirmed'[r][v] = confirmed[r][v]
    BY <1>8
  <2>. QED
    BY <1>5, <2>1
<1>11. ConfirmedType' /\ OneTransmission'
  BY <1>10 DEF ConfirmedType, OneTransmission
<1>12. ConfirmedHeld'
  BY <1>7, <1>9, <1>10 DEF ConfirmedHeld, Held
<1>13. PendingCloses'
  BY <1>9, <1>10 DEF PendingCloses
<1>14. HeldConfirmed'
  BY <1>9, <1>10 DEF HeldConfirmed, Held
<1>. QED
  BY <1>11, <1>12, <1>13, <1>14 DEF TInv

\* A release is answered.  If it failed, key-down is blocked from then on.
LEMMA ReleasedT ==
  ASSUME PInv, GInv, TInv, NEW j, NEW p, Completed(j, p), ~p.on,
         UNCHANGED <<talker, ptt_vfo, confirmed, queue, running, done>>,
         tx_blocked => tx_blocked', j.failed => tx_blocked'
  PROVE  TInv'
<1>1. /\ p \in Elems(pending) /\ p.id = j.pend /\ Replay(j)
      /\ pending' = Without(pending, {p})
  BY CompletedIs
<1>2. UNCHANGED <<ptt_rig, off, dying>>
  BY <1>1 DEF Replay
<1>3. Elems(pending') = Elems(pending) \ {p}
  BY <1>1, UnlinkReduces
<1>4. NoneLive(pending) => NoneLive(pending')
  BY <1>3 DEF NoneLive
<1>5. NoneLive(pending') => NoneLive(pending)
  BY <1>3 DEF NoneLive, Live
<1>6. HeldConfirmed'
  BY <1>2, <1>5 DEF TInv, HeldConfirmed, Held
<1>7. CASE j.failed
  BY <1>6, <1>7 DEF TInv, ConfirmedType, ConfirmedHeld, PendingCloses, OneTransmission
<1>8. CASE ~j.failed
  <2>1. ClosingKept
    BY <1>1, <1>8, ReplayCloses DEF ClosingKept
  <2>2. TKept
    BY <1>2, <1>3, <1>4, <2>1 DEF TKept, TInv, ConfirmedType, Held, ReleasePending
  <2>. QED
    BY <1>6, <2>2, TInvKept
<1>. QED
  BY <1>7, <1>8

\* A result is replayed.
LEMMA CompleteT ==
  ASSUME PInv, GInv, TInv, LiveLast, Complete
  PROVE  TInv'
<1>1. PICK j \in Elems(jobs) :
        \/ DropResult(j)
        \/ \E p \in Elems(pending) :
             \/ CancelStale(j, p) \/ RejectKeyDown(j, p) \/ ConfirmKeyDown(j, p)
             \/ LockKeyDown(j, p) \/ FailRelease(j, p) \/ ConfirmRelease(j, p)
  BY DEF Complete
<1>2. ASSUME NEW p, CancelStale(j, p) PROVE FALSE
  BY <1>2, CompletedIs DEF CancelStale
<1>3. ASSUME NEW p, RejectKeyDown(j, p) PROVE TInv'
  <2>1. /\ Completed(j, p) /\ p.on /\ (\E n : UntrackedRelease(j.rig, j.vfo, n))
        /\ talker' = NoClient /\ UNCHANGED <<dying, tx_blocked, confirmed>>
    BY <1>3 DEF RejectKeyDown, Completed, Replay
  <2>. QED
    BY <2>1, RejectT
<1>4. ASSUME NEW p, LockKeyDown(j, p) PROVE TInv'
  <2>1. /\ Completed(j, p) /\ p.on /\ (\E n : UntrackedRelease(j.rig, j.vfo, n))
        /\ talker' = NoClient /\ UNCHANGED <<dying, tx_blocked, confirmed>>
    BY <1>4 DEF LockKeyDown, Completed, Replay
  <2>. QED
    BY <2>1, RejectT
<1>5. ASSUME NEW p, FailRelease(j, p) \/ ConfirmRelease(j, p) PROVE TInv'
  <2>1. /\ Completed(j, p) /\ ~p.on /\ UNCHANGED <<talker, ptt_vfo, confirmed, queue, running, done>>
        /\ tx_blocked => tx_blocked'
        /\ j.failed => tx_blocked'
    BY <1>5 DEF FailRelease, ConfirmRelease, CountOut
  <2>. QED
    BY <2>1, ReleasedT
<1>. QED
  BY <1>1, <1>2, <1>3, <1>4, <1>5, DropT, ConfirmT

\* Every action keeps it.
LEMMA StepT ==
  ASSUME OneStop, PInv, GInv, TInv, LiveLast, [Next]_vars
  PROVE  TInv'
<1>1. ASSUME UNCHANGED <<talker, ptt_vfo, ptt_rig, pending, off, jobs, worker, confirmed,
                         tx_blocked, dying>>
      PROVE  TInv'
  BY <1>1 DEF TInv, ConfirmedType, ConfirmedHeld, PendingCloses, HeldConfirmed, OneTransmission,
              Held, Closing, worker
<1>2. CASE UNCHANGED vars
  BY <1>1, <1>2 DEF vars, switches, history
<1>3. ASSUME NEW c \in Clients, NEW r \in Rigs, NEW v \in VFO, KeyDown(c, r, v) PROVE TInv'
  BY <1>3, KeyDownT
<1>4. CASE KeyUp
  BY <1>4, KeyUpT
<1>5. ASSUME NEW c \in Clients, Disconnect(c) PROVE TInv'
  BY <1>5, DisconnectT
<1>6. CASE \/ ForceOff \/ Fault \/ TalkTimeout \/ RetryStop \/ Shutdown
           \/ \E r \in Rigs : EstopTrip(r) \/ EstopReset(r)
  <2>1. PICK why, r : StartOff(why, r) /\ (r = ptt_rig \/ (r \in Rigs /\ why \in {"trip", "reset"}))
    BY <1>6, LoopStartIs
  <2>2. dying => dying'
    BY <2>1 DEF StartOff
  <2>. QED
    BY <2>1, <2>2, StartOffT
<1>7. CASE OffVfo
  BY <1>7, OffVfoT
<1>8. CASE EndOff
  BY <1>8, EndOffT
<1>9. CASE Complete
  BY <1>9, CompleteT
<1>10. ASSUME NEW r \in Rigs, Drain(r) \/ Take(r) \/ Execute(r) PROVE TInv'
  BY <1>10, DrainT, TakeT, ExecuteT
<1>11. CASE AccountingFailed
  BY <1>1, <1>11 DEF AccountingFailed, history
<1>. QED
  BY <1>2, <1>3, <1>4, <1>5, <1>6, <1>7, <1>8, <1>9, <1>10, <1>11 DEF Next, WorkerStep

\* It holds at the start.
LEMMA InitT ==
  ASSUME Init
  PROVE  TInv /\ LiveLast
<1>1. Elems(pending) = {} /\ talker = NoClient /\ confirmed = [r \in Rigs |-> [v \in VFO |-> FALSE]]
  BY InitGInv DEF Init, All
<1>. QED
  BY <1>1 DEF TInv, LiveLast, ConfirmedType, ConfirmedHeld, PendingCloses, HeldConfirmed,
              OneTransmission, Held
----------------------------------------------------------------------------
(* What is on the air *)

\* The last result of VFO v in line L is that of a key-down.
FreshIn(L, v) ==
  \E i \in 1..Len(L) :
    /\ L[i].on /\ L[i].vfo = v
    /\ \A n \in i..Len(L) : L[n].vfo = v => L[n].on

\* Every key-down was requested by somebody.
KeyDownsAnswered ==
  \A r \in Rigs : \A y \in Elems(LineIn(jobs, done, r)) : y.on => y.pend # 0

\* A transmitter is on the air because its transmission is confirmed or its
\* key-down has just been executed, or a release is behind it.
Traced(r, v) ==
  \/ confirmed[r][v] \/ failed_last[r][v] \/ InHand(running[r], queue[r], v)
  \/ FreshIn(LineIn(jobs, done, r), v)

\* ... after this step.
TracedNext(r, v) ==
  \/ confirmed'[r][v] \/ failed_last'[r][v] \/ InHand(running'[r], queue'[r], v)
  \/ FreshIn(LineIn(jobs', done', r), v)

AirTraced == \A r \in Rigs, v \in VFO : tx[r][v] => Traced(r, v)

AInv == KeyDownsAnswered /\ AirTraced

\* Results of key-downs behind a line.
LEMMA FreshGrows ==
  ASSUME NEW L \in Seq(Result), NEW M, LineGrows(L, M)
  PROVE  /\ \A v : FreshIn(L, v) => FreshIn(M, v)
         /\ (\A y \in Elems(L) : y.on => y.pend # 0) => \A y \in Elems(M) : y.on => y.pend # 0
<1>1. PICK E \in Seq(Result) : M = L \o E /\ \A i \in 1..Len(E) : E[i].on /\ E[i].pend # 0
  BY DEF LineGrows
<1>2. /\ Len(M) = Len(L) + Len(E) /\ Len(L) \in Nat /\ Len(E) \in Nat
      /\ \A i \in 1..(Len(L) + Len(E)) : M[i] = IF i <= Len(L) THEN L[i] ELSE E[i - Len(L)]
      /\ Elems(M) = Elems(L) \cup Elems(E)
  BY <1>1, ConcatElems
<1>3. ASSUME NEW v, FreshIn(L, v) PROVE FreshIn(M, v)
  <2>1. PICK i \in 1..Len(L) : /\ L[i].on /\ L[i].vfo = v
                               /\ \A n \in i..Len(L) : L[n].vfo = v => L[n].on
    BY <1>3 DEF FreshIn
  <2>2. i \in 1..Len(M) /\ M[i] = L[i]
    BY <1>2
  <2>3. ASSUME NEW n \in i..Len(M), M[n].vfo = v PROVE M[n].on
    <3>1. CASE n <= Len(L)
      <4>1. n \in i..Len(L) /\ M[n] = L[n]
        BY <1>2, <3>1
      <4>. QED
        BY <2>1, <2>3, <4>1
    <3>2. CASE ~(n <= Len(L))
      <4>1. n - Len(L) \in 1..Len(E) /\ M[n] = E[n - Len(L)]
        BY <1>2, <3>2
      <4>. QED
        BY <1>1, <4>1
    <3>. QED
      BY <3>1, <3>2
  <2>. QED
    BY <2>1, <2>2, <2>3 DEF FreshIn
<1>4. \A y \in Elems(E) : y.pend # 0
  BY <1>1 DEF Elems
<1>. QED
  BY <1>2, <1>3, <1>4

\* The first result leaves its line.
LEMMA FreshLed ==
  ASSUME NEW j, NEW L, NEW M, LineLed(j, L, M)
  PROVE  /\ \A v : FreshIn(L, v) => \/ FreshIn(M, v)
                                    \/ j.on /\ j.vfo = v /\ \A y \in Elems(L) : y.vfo = v => y.on
         /\ Elems(L) = Elems(M) \cup {j}
<1>1. /\ Len(L) \in Nat \ {0} /\ Len(M) = Len(L) - 1 /\ j = L[1]
      /\ \A i \in 1..Len(M) : M[i] = L[i + 1] /\ i + 1 \in 1..Len(L)
      /\ Elems(L) = Elems(M) \cup {j}
  BY TailElems DEF LineLed
<1>2. ASSUME NEW v, FreshIn(L, v)
      PROVE  \/ FreshIn(M, v)
             \/ j.on /\ j.vfo = v /\ \A y \in Elems(L) : y.vfo = v => y.on
  <2>1. PICK i \in 1..Len(L) : /\ L[i].on /\ L[i].vfo = v
                               /\ \A n \in i..Len(L) : L[n].vfo = v => L[n].on
    BY <1>2 DEF FreshIn
  <2>2. CASE i = 1
    BY <1>1, <2>1, <2>2 DEF Elems
  <2>3. CASE i # 1
    <3>1. i - 1 \in 1..Len(M) /\ M[i - 1] = L[i]
      BY <1>1, <2>3
    <3>2. ASSUME NEW n \in (i - 1)..Len(M), M[n].vfo = v PROVE M[n].on
      <4>1. n \in 1..Len(M) /\ n + 1 \in i..Len(L) /\ M[n] = L[n + 1]
        BY <1>1, <2>3
      <4>. QED
        BY <2>1, <3>2, <4>1
    <3>. QED
      BY <2>1, <3>1, <3>2 DEF FreshIn
  <2>. QED
    BY <2>2, <2>3
<1>. QED
  BY <1>1, <1>2

\* What a step keeps of it that sends nothing to the radio.
AirKept ==
  \A r \in Rigs :
    /\ \A v \in VFO : InHand(running[r], queue[r], v) => InHand(running'[r], queue'[r], v)
    /\ \/ LineIn(jobs', done', r) = LineIn(jobs, done, r)
       \/ LineGrows(LineIn(jobs, done, r), LineIn(jobs', done', r))

\* That is enough.
LEMMA AirSteady ==
  ASSUME PInv, AInv, AirKept, UNCHANGED <<tx, confirmed, failed_last>>
  PROVE  AInv'
<1>1. ASSUME NEW r \in Rigs
      PROVE  /\ \A v \in VFO : Traced(r, v) => Traced(r, v)'
             /\ \A y \in Elems(LineIn(jobs', done', r)) : y.on => y.pend # 0
  <2>. DEFINE L == LineIn(jobs, done, r)
              M == LineIn(jobs', done', r)
  <2>1. L \in Seq(Result) /\ \A y \in Elems(L) : y.on => y.pend # 0
    BY LineType DEF AInv, KeyDownsAnswered
  <2>2. M = L \/ LineGrows(L, M)
    BY DEF AirKept
  <2>. HIDE DEF L, M
  <2>3. /\ \A v : FreshIn(L, v) => FreshIn(M, v)
        /\ \A y \in Elems(M) : y.on => y.pend # 0
    BY <2>1, <2>2, FreshGrows
  <2>4. \A v \in VFO : Traced(r, v) => Traced(r, v)'
    BY <2>3 DEF Traced, AirKept, L, M
  <2>. QED
    BY <2>3, <2>4 DEF M
<1>2. AirTraced'
  BY <1>1 DEF AInv, AirTraced
<1>3. KeyDownsAnswered'
  BY <1>1 DEF KeyDownsAnswered
<1>. QED
  BY <1>2, <1>3 DEF AInv

\* A request to release.
LEMMA RequestAir ==
  ASSUME PInv, AInv, NEW v \in VFO, NEW owner \in Client, NEW q, Relabelled(pending, q),
         NEW rejected, RequestRelease(q, v, owner, rejected),
         UNCHANGED <<jobs, tx, confirmed, failed_last>>
  PROVE  AInv'
<1>1. ~rejected /\ AllSteady
  BY RequestReleaseStep DEF PInv, Requested
<1>2. Target \in Rigs
  BY TargetRig DEF PInv
<1>3. pending \in Seq(Pending) /\ jobs \in Seq(Result)
  BY DEF PInv, Ordered, Lines
<1>. DEFINE t == Target
            n == outstanding[Target]
            k == NewId
<1>4. k \in Nat
  BY <1>3, NewIdFresh
<1>5. UNCHANGED worker \/ SubmitRelease(t, v, k, n)
  BY <1>1 DEF RequestRelease
<1>6. t \in Rigs
  BY <1>2
<1>. HIDE DEF t, n, k
<1>7. CASE UNCHANGED worker
  BY <1>7, AirSteady DEF AirKept, worker
<1>8. CASE SubmitRelease(t, v, k, n)
  <2>1. Submitted(t, v, k, done, running, queue, done', running', queue')
    BY <1>6, <1>8, SubmitIs DEF PInv
  <2>2. \A s \in Rigs : LineGrows(LineIn(jobs, done, s), LineIn(jobs, done', s))
    BY <1>3, <1>6, <2>1, LineSubmit
  <2>3. AirKept
    BY <1>1, <2>2 DEF AirKept, AllSteady, Steady
  <2>. QED
    BY <2>3, AirSteady
<1>. QED
  BY <1>5, <1>7, <1>8

\* A client keys.
LEMMA KeyDownAir ==
  ASSUME PInv, GInv, AInv, NEW c \in Clients, NEW r \in Rigs, NEW v \in VFO, KeyDown(c, r, v)
  PROVE  AInv'
<1>1. UNCHANGED <<jobs, tx, confirmed, failed_last>>
  BY DEF KeyDown, radio, history
<1>2. CASE UNCHANGED worker
  BY <1>1, <1>2, AirSteady DEF AirKept, worker
<1>3. ASSUME NEW p, KeyDownPending(p, r, v, c) PROVE AInv'
  <2>1. p.id \in Nat
    BY <1>3 DEF KeyDownPending, Pending
  <2>2. /\ queue \in [Rigs -> Seq(Job)] /\ UNCHANGED <<running, done>>
        /\ queue' = [queue EXCEPT ![r] = Append(queue[r], [vfo |-> v, on |-> TRUE, pends |-> <<p.id>>])]
    BY <1>3 DEF KeyDownPending, SubmitKeyDown, PInv, Ordered, Lines
  <2>3. [vfo |-> v, on |-> TRUE, pends |-> <<p.id>>] \in Job
    BY <2>1 DEF Job
  <2>4. ASSUME NEW s \in Rigs PROVE Elems(queue[s]) \subseteq Elems(queue'[s])
    <3>1. CASE s = r
      BY <2>2, <2>3, <3>1, AppendElems
    <3>2. CASE s # r
      BY <2>2, <3>2
    <3>. QED
      BY <3>1, <3>2
  <2>5. AirKept
    BY <1>1, <2>2, <2>4 DEF AirKept, InHand
  <2>. QED
    BY <1>1, <2>5, AirSteady
<1>. QED
  BY <1>2, <1>3, KeyDownGInv DEF worker

\* The worker takes a job.
LEMMA TakeAir ==
  ASSUME PInv, AInv, NEW r \in Rigs, Take(r)
  PROVE  AInv'
<1>1. UNCHANGED <<jobs, tx, confirmed, failed_last>>
  BY DEF Take, radio, history
<1>. DEFINE Q == queue[r]
            h == Head(Q)
            R == Tail(Q)
<1>2. /\ running[r] = NoJob /\ Q \in Seq(Job) /\ Q # <<>> /\ h \in Job /\ JobSound(h)
      /\ queue' = [queue EXCEPT ![r] = R]
      /\ queue \in [Rigs -> Seq(Job)] /\ running \in [Rigs -> Job \cup {NoJob}]
      /\ \/ running' = [running EXCEPT ![r] = h] /\ done' = done
         \/ /\ h.on /\ running' = running
            /\ \E F : ResultsOf(F, r, h) /\ done' = [done EXCEPT ![r] = done[r] \o F]
  BY TakeIs
<1>3. Elems(Q) = Elems(R) \cup {h}
  BY <1>2, TailElems
<1>. HIDE DEF Q, h, R
<1>4. running'[r] = h \/ (h.on /\ running'[r] = NoJob)
  BY <1>2
<1>5. /\ queue'[r] = R
      /\ \A s \in Rigs : s # r => queue'[s] = queue[s] /\ running'[s] = running[s]
  BY <1>2
<1>6. \A v : InHand(NoJob, Q, v) => InHand(running'[r], R, v)
  BY <1>3, <1>4 DEF InHand, IsReleaseOf
<1>7. ASSUME NEW s \in Rigs
      PROVE  \/ LineIn(jobs', done', s) = LineIn(jobs, done, s)
             \/ LineGrows(LineIn(jobs, done, s), LineIn(jobs', done', s))
  <2>1. CASE done' = done
    BY <1>1, <2>1
  <2>2. ASSUME NEW F, h.on, ResultsOf(F, r, h), done' = [done EXCEPT ![r] = done[r] \o F]
        PROVE  \/ LineIn(jobs', done', s) = LineIn(jobs, done, s)
               \/ LineGrows(LineIn(jobs, done, s), LineIn(jobs', done', s))
    <3>1. F \in Seq(Result) /\ Appended(done, done', r, F)
      BY <2>2 DEF ResultsOf, Appended
    <3>2. /\ LineIn(jobs, done', r) = LineIn(jobs, done, r) \o F
          /\ \A z \in Rigs : z # r => LineIn(jobs, done', z) = LineIn(jobs, done, z)
      BY <3>1, WorkerAppends
    <3>3. \A i \in 1..Len(F) : F[i].on /\ F[i].pend # 0
      <4>1. /\ Len(F) = Len(h.pends)
            /\ \A i \in 1..Len(F) : F[i].on = h.on /\ F[i].pend = h.pends[i]
        BY <2>2 DEF ResultsOf
      <4>2. \A i \in 1..Len(h.pends) : h.pends[i] # 0
        BY <1>2, <2>2 DEF JobSound
      <4>. QED
        BY <2>2, <4>1, <4>2
    <3>4. LineGrows(LineIn(jobs, done, r), LineIn(jobs, done', r))
      BY <3>1, <3>2, <3>3 DEF LineGrows
    <3>. QED
      BY <1>1, <3>2, <3>4
  <2>. QED
    BY <1>2, <2>1, <2>2
<1>8. ASSUME NEW s \in Rigs, NEW v \in VFO, InHand(running[s], queue[s], v)
      PROVE  InHand(running'[s], queue'[s], v)
  <2>1. CASE s = r
    BY <1>2, <1>5, <1>6, <1>8, <2>1 DEF Q
  <2>2. CASE s # r
    BY <1>5, <1>8, <2>2
  <2>. QED
    BY <2>1, <2>2
<1>9. AirKept
  BY <1>7, <1>8 DEF AirKept
<1>. QED
  BY <1>1, <1>9, AirSteady

\* The last command of an executed job decides what is on the air.
LEMMA ExecuteAir ==
  ASSUME PInv, TInv, AInv, NEW r \in Rigs, Execute(r)
  PROVE  AInv'
<1>1. jobs' = jobs
  BY DEF Execute
<1>. DEFINE x == running[r]
            Q == queue[r]
            u == x.vfo
<1>2. /\ x \in Job /\ JobSound(x) /\ running' = [running EXCEPT ![r] = NoJob] /\ queue' = queue
      /\ running \in [Rigs -> Job \cup {NoJob}]
      /\ \E f \in BOOLEAN : \E F :
           /\ ResultsOf(F, r, x) /\ done' = [done EXCEPT ![r] = done[r] \o F]
           /\ tx' = [tx EXCEPT ![r][u] = x.on] \/ (f /\ tx' = tx)
           /\ failed_last' = [failed_last EXCEPT ![r][u] = f]
           /\ IF ~x.on /\ ~f THEN confirmed' = [confirmed EXCEPT ![r][u] = FALSE]
                             ELSE confirmed' = confirmed
  BY ExecuteIs
<1>3. x # NoJob /\ u \in VFO /\ x.on \in BOOLEAN
  BY <1>2, JobType
<1>4. PICK f \in BOOLEAN : \E F :
           /\ ResultsOf(F, r, x) /\ done' = [done EXCEPT ![r] = done[r] \o F]
           /\ tx' = [tx EXCEPT ![r][u] = x.on] \/ (f /\ tx' = tx)
           /\ failed_last' = [failed_last EXCEPT ![r][u] = f]
           /\ IF ~x.on /\ ~f THEN confirmed' = [confirmed EXCEPT ![r][u] = FALSE]
                             ELSE confirmed' = confirmed
  BY <1>2
<1>5. PICK F :
        /\ ResultsOf(F, r, x) /\ done' = [done EXCEPT ![r] = done[r] \o F]
        /\ tx' = [tx EXCEPT ![r][u] = x.on] \/ (f /\ tx' = tx)
        /\ failed_last' = [failed_last EXCEPT ![r][u] = f]
        /\ IF ~x.on /\ ~f THEN confirmed' = [confirmed EXCEPT ![r][u] = FALSE]
                          ELSE confirmed' = confirmed
  BY <1>4
<1>. DEFINE L == LineIn(jobs, done, r)
            M == LineIn(jobs', done', r)
<1>6. F \in Seq(Result) /\ Appended(done, done', r, F)
  BY <1>5 DEF ResultsOf, Appended
<1>7. /\ M = L \o F
      /\ \A s \in Rigs : s # r => LineIn(jobs', done', s) = LineIn(jobs, done, s)
  BY <1>1, <1>6, WorkerAppends
<1>8. L \in Seq(Result) /\ \A y \in Elems(L) : y.on => y.pend # 0
  BY LineType DEF AInv, KeyDownsAnswered
<1>9. /\ Len(F) \in Nat \ {0} /\ \A i \in 1..Len(F) : F[i].on = x.on /\ F[i].vfo = u
      /\ x.on => \A i \in 1..Len(F) : F[i].pend # 0
  BY <1>2, <1>5 DEF ResultsOf, JobSound
<1>10. /\ tx \in [Rigs -> [VFO -> BOOLEAN]] /\ failed_last \in [Rigs -> [VFO -> BOOLEAN]]
  BY DEF PInv, Typed
<1>40. confirmed \in [Rigs -> [VFO -> BOOLEAN]]
  BY DEF TInv, ConfirmedType
<1>. DEFINE b == x.on
<1>11. b \in BOOLEAN /\ (tx' = [tx EXCEPT ![r][u] = b] \/ (f /\ tx' = tx))
  BY <1>3, <1>5
<1>. HIDE DEF x, Q, u, L, M, b
<1>12. /\ Len(M) = Len(L) + Len(F) /\ Len(L) \in Nat
       /\ \A i \in 1..(Len(L) + Len(F)) : M[i] = IF i <= Len(L) THEN L[i] ELSE F[i - Len(L)]
       /\ Elems(M) = Elems(L) \cup Elems(F)
  BY <1>6, <1>7, <1>8, ConcatElems
<1>13. running'[r] = NoJob /\ \A s \in Rigs : s # r => running'[s] = running[s]
  BY <1>2
<1>41. \A s \in Rigs, v \in VFO : ~(s = r /\ v = u) => tx'[s][v] = tx[s][v]
  <2>1. CASE tx' = [tx EXCEPT ![r][u] = b]
    BY <1>3, <1>10, <1>11, <2>1, SetIs
  <2>. QED
    BY <1>11, <2>1
<1>42. \A s \in Rigs, v \in VFO : ~(s = r /\ v = u) => failed_last'[s][v] = failed_last[s][v]
  <2>1. failed_last' = [failed_last EXCEPT ![r][u] = f]
    BY <1>5
  <2>. QED
    BY <1>3, <1>10, <2>1, SetIs
<1>43. \A s \in Rigs, v \in VFO : ~(s = r /\ v = u) => confirmed'[s][v] = confirmed[s][v]
  <2>1. CASE confirmed' = [confirmed EXCEPT ![r][u] = FALSE]
    <3>. DEFINE no == FALSE
    <3>1. no \in BOOLEAN /\ confirmed' = [confirmed EXCEPT ![r][u] = no]
      BY <2>1
    <3>. HIDE DEF no
    <3>. QED
      BY <1>3, <1>40, <3>1, SetIs
  <2>. QED
    BY <1>5, <2>1
<1>14. \A v \in VFO : v # u => /\ tx'[r][v] = tx[r][v]
                               /\ failed_last'[r][v] = failed_last[r][v]
                               /\ confirmed'[r][v] = confirmed[r][v]
  BY <1>41, <1>42, <1>43
<1>15. \A s \in Rigs, v \in VFO : s # r =>
         tx'[s][v] = tx[s][v] /\ failed_last'[s][v] = failed_last[s][v] /\ confirmed'[s][v] = confirmed[s][v]
  BY <1>41, <1>42, <1>43
<1>16. ASSUME NEW v \in VFO, v # u, tx'[r][v]
       PROVE  TracedNext(r, v)
  <2>1. tx[r][v] /\ Traced(r, v)
    BY <1>14, <1>16 DEF AInv, AirTraced
  <2>2. CASE confirmed[r][v] \/ failed_last[r][v]
    BY <1>14, <1>16, <2>2 DEF TracedNext
  <2>3. CASE InHand(running[r], queue[r], v)
    <3>1. ~IsReleaseOf(x, v)
      BY <1>16 DEF IsReleaseOf, u
    <3>2. InHand(running'[r], queue'[r], v)
      BY <1>2, <1>13, <2>3, <3>1 DEF InHand, x
    <3>. QED
      BY <3>2 DEF TracedNext
  <2>4. CASE FreshIn(L, v)
    <3>1. PICK i \in 1..Len(L) : /\ L[i].on /\ L[i].vfo = v
                                 /\ \A n \in i..Len(L) : L[n].vfo = v => L[n].on
      BY <2>4 DEF FreshIn
    <3>2. i \in 1..Len(M) /\ M[i] = L[i]
      BY <1>9, <1>12
    <3>3. ASSUME NEW n \in i..Len(M), M[n].vfo = v PROVE M[n].on
      <4>1. CASE n <= Len(L)
        BY <1>12, <3>1, <3>3, <4>1
      <4>2. CASE ~(n <= Len(L))
        <5>1. n - Len(L) \in 1..Len(F) /\ M[n] = F[n - Len(L)]
          BY <1>9, <1>12, <4>2
        <5>. QED
          BY <1>9, <1>16, <3>3, <5>1
      <4>. QED
        BY <4>1, <4>2
    <3>4. FreshIn(M, v)
      BY <3>1, <3>2, <3>3 DEF FreshIn
    <3>. QED
      BY <3>4 DEF TracedNext, M
  <2>. QED
    BY <2>1, <2>2, <2>3, <2>4 DEF Traced, L
<1>17. ASSUME tx'[r][u]
       PROVE  TracedNext(r, u)
  <2>1. CASE f
    <3>1. failed_last'[r][u]
      BY <1>3, <1>5, <1>10, <2>1
    <3>. QED
      BY <3>1 DEF TracedNext
  <2>2. CASE ~f
    <3>1. b
      BY <1>3, <1>10, <1>11, <1>17, <2>2
    <3>2. /\ Len(M) \in 1..Len(M) /\ Len(F) \in 1..Len(F) /\ M[Len(M)] = F[Len(F)]
          /\ \A n \in Len(M)..Len(M) : n = Len(M)
      BY <1>9, <1>12
    <3>3. M[Len(M)].on /\ M[Len(M)].vfo = u
      BY <1>9, <3>1, <3>2 DEF b
    <3>4. FreshIn(M, u)
      BY <3>2, <3>3 DEF FreshIn
    <3>. QED
      BY <3>4 DEF TracedNext, M
  <2>. QED
    BY <2>1, <2>2
<1>18. ASSUME NEW s \in Rigs, NEW v \in VFO, s # r, tx'[s][v]
       PROVE  TracedNext(s, v)
  <2>1. tx[s][v] /\ Traced(s, v)
    BY <1>15, <1>18 DEF AInv, AirTraced
  <2>. QED
    BY <1>2, <1>7, <1>13, <1>15, <1>18, <2>1 DEF Traced, TracedNext
<1>19. AirTraced'
  BY <1>16, <1>17, <1>18 DEF AirTraced, Traced, TracedNext
<1>20. \A y \in Elems(M) : y.on => y.pend # 0
  BY <1>8, <1>9, <1>12 DEF Elems
<1>21. KeyDownsAnswered'
  <2>1. ASSUME NEW s \in Rigs PROVE \A y \in Elems(LineIn(jobs', done', s)) : y.on => y.pend # 0
    <3>1. CASE s = r
      BY <1>20, <3>1 DEF M
    <3>2. CASE s # r
      BY <1>7, <3>2 DEF AInv, KeyDownsAnswered
    <3>. QED
      BY <3>1, <3>2
  <2>. QED
    BY <2>1 DEF KeyDownsAnswered
<1>. QED
  BY <1>19, <1>21 DEF AInv

\* A release that is submitted is with the worker.
LEMMA HandSubmit ==
  ASSUME NEW x \in Job \cup {NoJob}, NEW Q \in Seq(Job), WorkerSound(x, Q),
         NEW v \in VFO, NEW k \in Nat
  PROVE  InHand(RunningAfter(x, v, k), QueueAfter(x, Without(Q, Cut(Q, v)), v, k), v)
<1>. DEFINE q == Without(Q, Cut(Q, v))
            y == RunningAfter(x, v, k)
            R == QueueAfter(x, q, v, k)
<1>1. q \in Seq(Job) /\ Elems(q) = Elems(Q) \ Cut(Q, v)
  BY WithoutProperties
<1>2. \A j \in Elems(Q) : JobSound(j)
  BY DEF WorkerSound
<1>. HIDE DEF q
<1>3. CASE IsReleaseOf(x, v)
  <2>1. x \in Job /\ JobSound(x)
    BY <1>3 DEF IsReleaseOf, WorkerSound
  <2>2. IsReleaseOf(Join(x, k), v)
    BY <1>3, <2>1, JoinTracked
  <2>. QED
    BY <1>3, <2>2 DEF RunningAfter, InHand, q
<1>4. CASE ~IsReleaseOf(x, v)
  <2>1. ASSUME NEW i \in 1..Len(q), IsReleaseOf(q[i], v)
        PROVE  InHand(y, R, v)
    <3>1. R = JoinIn(q, v, k)
      BY <1>4, <2>1 DEF QueueAfter
    <3>2. Len(R) = Len(q) /\ R[i] = Join(q[i], k)
      BY <1>1, <2>1, <3>1 DEF JoinIn
    <3>3. q[i] \in Job /\ q[i] \in Elems(q)
      BY <1>1 DEF Elems
    <3>4. IsReleaseOf(R[i], v)
      BY <1>1, <1>2, <2>1, <3>2, <3>3, JoinTracked
    <3>. HIDE DEF R
    <3>. QED
      BY <3>2, <3>4 DEF InHand, Elems
  <2>2. ASSUME ~(\E i \in 1..Len(q) : IsReleaseOf(q[i], v))
        PROVE  InHand(y, R, v)
    <3>. DEFINE n == NewRelease(v, k)
    <3>1. n \in Job /\ n.vfo = v /\ n.on = FALSE
      BY DEF Job, NewRelease
    <3>2. R = <<n>> \o q
      BY <1>4, <2>2 DEF QueueAfter, Pushed
    <3>3. IsReleaseOf(n, v)
      BY <3>1, JobType DEF IsReleaseOf
    <3>. HIDE DEF n, R
    <3>4. Elems(R) = Elems(q) \cup {n}
      BY <1>1, <3>1, <3>2, PushElems
    <3>. QED
      BY <3>3, <3>4 DEF InHand
  <2>3. InHand(y, R, v)
    BY <2>1, <2>2
  <2>. QED
    BY <2>3 DEF q
<1>. QED
  BY <1>3, <1>4

\* A pending release is with the worker, or has been answered.
LEMMA PendingInHand ==
  ASSUME PInv, NEW r \in Rigs, NEW v, ReleasePending(pending, r, v)
  PROVE  \/ InHand(running[r], queue[r], v)
         \/ \E y \in Elems(LineIn(jobs, done, r)) : y.vfo = v /\ ~y.on
<1>1. PICK z \in Elems(pending) : ~z.on /\ z.rig = r /\ z.vfo = v
  BY DEF ReleasePending
<1>. DEFINE J == JobsOf(jobs, r)
            D == done[r]
            x == running[r]
            Q == queue[r]
<1>2. /\ RigSound(pending, r, J, D, x, Q) /\ Unique(pending) /\ pending \in Seq(Pending)
      /\ x \in Job \cup {NoJob} /\ Q \in Seq(Job)
  BY DEF PInv, Ordered, Lines
<1>3. Elems(LineIn(jobs, done, r)) = Elems(J) \cup Elems(D)
  BY LineType
<1>. HIDE DEF J, D, x, Q
<1>4. \E X \in Items(J, D, x, Q) : z.id \in X.ids /\ X.vfo = z.vfo /\ X.on = z.on
  BY <1>1, <1>2, CarriedItem
<1>5. z.on = FALSE
  BY <1>1, <1>2, PendingElem DEF Pending
<1>6. HoldsRelease(Items(J, D, x, Q), v)
  BY <1>1, <1>4, <1>5 DEF HoldsRelease
<1>7. InLine(J, D, x, Q, v)
  BY <1>2, <1>6, ReleaseItem
<1>. QED
  BY <1>3, <1>7 DEF InLine, x, Q

\* Replaying a result keeps it, if what the result has put on the air is
\* confirmed or released.
LEMMA ReplayAir ==
  ASSUME PInv, AInv, NEW j, Replay(j), AllSteady,
         \A s \in Rigs : LineGrows(LineIn(Tail(jobs), done, s), LineIn(Tail(jobs), done', s)),
         \A s \in Rigs, v \in VFO : confirmed[s][v] => confirmed'[s][v],
         (j.on /\ \A y \in Elems(LineIn(jobs, done, j.rig)) : y.vfo = j.vfo => y.on) =>
           confirmed'[j.rig][j.vfo] \/ InHand(running'[j.rig], queue'[j.rig], j.vfo)
  PROVE  AInv'
<1>1. jobs' = Tail(jobs) /\ UNCHANGED <<tx, failed_last>>
  BY DEF Replay, radio
<1>2. /\ j.rig \in Rigs /\ LineLed(j, LineIn(jobs, done, j.rig), LineIn(Tail(jobs), done, j.rig))
      /\ \A s \in Rigs : s # j.rig => LineIn(Tail(jobs), done, s) = LineIn(jobs, done, s)
  BY LineReplay
<1>3. ASSUME NEW s \in Rigs
      PROVE  /\ \A v \in VFO : Traced(s, v) => TracedNext(s, v)
             /\ \A y \in Elems(LineIn(jobs', done', s)) : y.on => y.pend # 0
  <2>. DEFINE L == LineIn(jobs, done, s)
              M == LineIn(Tail(jobs), done, s)
              N == LineIn(jobs', done', s)
  <2>1. L \in Seq(Result) /\ (\A y \in Elems(L) : y.on => y.pend # 0)
    BY LineType DEF AInv, KeyDownsAnswered
  <2>2. Tail(jobs) \in Seq(Result) /\ done[s] \in Seq(Result)
    BY FirstResult, TailElems DEF PInv, Ordered, Lines
  <2>3. M \in Seq(Result) /\ LineGrows(M, N)
    <3>1. JobsOf(Tail(jobs), s) \in Seq(Result)
      BY <2>2, JobsOfType
    <3>2. M \in Seq(Result)
      BY <2>2, <3>1 DEF LineIn
    <3>. QED
      BY <1>1, <3>2
  <2>4. M = L \/ (s = j.rig /\ LineLed(j, L, M))
    BY <1>2
  <2>. HIDE DEF L, M, N
  <2>5. /\ \A y \in Elems(M) : y.on => y.pend # 0
        /\ \A v : FreshIn(L, v) =>
             \/ FreshIn(M, v)
             \/ s = j.rig /\ j.on /\ j.vfo = v /\ \A y \in Elems(L) : y.vfo = v => y.on
    BY <2>1, <2>4, FreshLed
  <2>6. /\ \A v : FreshIn(M, v) => FreshIn(N, v)
        /\ \A y \in Elems(N) : y.on => y.pend # 0
    BY <2>3, <2>5, FreshGrows
  <2>7. ASSUME NEW v \in VFO, FreshIn(L, v)
        PROVE  FreshIn(N, v) \/ confirmed'[s][v] \/ InHand(running'[s], queue'[s], v)
    <3>1. CASE FreshIn(M, v)
      BY <2>6, <3>1
    <3>2. CASE s = j.rig /\ j.on /\ j.vfo = v /\ \A y \in Elems(L) : y.vfo = v => y.on
      BY <3>2 DEF L
    <3>. QED
      BY <2>5, <2>7, <3>1, <3>2
  <2>8. \A v \in VFO : InHand(running[s], queue[s], v) => InHand(running'[s], queue'[s], v)
    BY DEF AllSteady, Steady
  <2>9. \A v \in VFO : Traced(s, v) => TracedNext(s, v)
    BY <1>1, <2>7, <2>8 DEF Traced, TracedNext, L, N
  <2>. QED
    BY <2>6, <2>9 DEF N
<1>4. AirTraced'
  BY <1>1, <1>3 DEF AInv, AirTraced, Traced, TracedNext
<1>5. KeyDownsAnswered'
  BY <1>3 DEF KeyDownsAnswered
<1>. QED
  BY <1>4, <1>5 DEF AInv

\* The workers stand still while a result is replayed.
LEMMA ReplayStill ==
  ASSUME PInv, NEW j, Replay(j), UNCHANGED <<queue, running, done>>
  PROVE  /\ AllSteady
         /\ \A s \in Rigs : LineGrows(LineIn(Tail(jobs), done, s), LineIn(Tail(jobs), done', s))
<1>1. AllSteady
  BY SameSteady DEF AllSteady
<1>2. ASSUME NEW s \in Rigs
      PROVE  LineGrows(LineIn(Tail(jobs), done, s), LineIn(Tail(jobs), done', s))
  <2>1. Tail(jobs) \in Seq(Result) /\ done[s] \in Seq(Result)
    BY FirstResult, TailElems DEF PInv, Ordered, Lines
  <2>2. JobsOf(Tail(jobs), s) \in Seq(Result)
    BY <2>1, JobsOfType
  <2>3. LineIn(Tail(jobs), done, s) \in Seq(Result)
    BY <2>1, <2>2 DEF LineIn
  <2>. QED
    BY <2>3, LineSame
<1>. QED
  BY <1>1, <1>2

\* A result nobody waits for: that of a key-down was superseded by a release
\* that is behind it.
LEMMA DropAir ==
  ASSUME PInv, GInv, AInv, NEW j, DropResult(j)
  PROVE  AInv'
<1>1. /\ Replay(j) /\ UNCHANGED <<queue, running, done, confirmed>>
      /\ \/ j.pend = 0 /\ pending' = pending
         \/ \E p \in Elems(pending) :
              /\ p.id = j.pend /\ pending' = Without(pending, {p}) /\ ~Live(p)
              /\ dying \/ (p.on /\ p.superseded)
  BY DropIs DEF DropResult, CountOut
<1>2. /\ AllSteady
      /\ \A s \in Rigs : LineGrows(LineIn(Tail(jobs), done, s), LineIn(Tail(jobs), done', s))
  BY <1>1, ReplayStill
<1>3. /\ j.rig \in Rigs /\ LineLed(j, LineIn(jobs, done, j.rig), LineIn(Tail(jobs), done, j.rig))
  BY <1>1, LineReplay
<1>4. ASSUME j.on, \A y \in Elems(LineIn(jobs, done, j.rig)) : y.vfo = j.vfo => y.on
      PROVE  InHand(running[j.rig], queue[j.rig], j.vfo)
  <2>1. j \in Elems(LineIn(jobs, done, j.rig))
    BY <1>3, FreshLed
  <2>2. j.pend # 0
    BY <1>3, <1>4, <2>1 DEF AInv, KeyDownsAnswered
  <2>3. PICK p \in Elems(pending) : p.id = j.pend /\ ~Live(p)
    BY <1>1, <2>2
  <2>4. p.rig = j.rig /\ p.vfo = j.vfo /\ p.on
    BY <1>1, <1>4, <2>3, UnlinkFirst DEF PInv
  <2>5. Overtaken(pending, p.id)
    BY <2>3, <2>4 DEF GInv, SupersededOvertaken, Live
  <2>6. PICK a, b \in 1..Len(pending) :
          /\ a < b /\ pending[b].id = p.id
          /\ ~pending[a].on /\ pending[a].rig = pending[b].rig /\ pending[a].vfo = pending[b].vfo
    BY <2>5 DEF Overtaken
  <2>7. pending[b] = p
    BY <2>3, <2>6 DEF PInv, Ordered, Lines, Unique, Elems
  <2>8. ReleasePending(pending, j.rig, j.vfo)
    BY <2>4, <2>6, <2>7 DEF ReleasePending, Elems
  <2>. QED
    BY <1>3, <1>4, <2>8, PendingInHand
<1>. QED
  BY <1>1, <1>2, <1>4, ReplayAir

\* A key-down is taken back: the release that does it has room.
LEMMA RejectAir ==
  ASSUME PInv, GInv, AInv, NEW j, NEW p, Completed(j, p), p.on,
         UntrackedRelease(j.rig, j.vfo, outstanding[j.rig] - 1), confirmed' = confirmed
  PROVE  AInv'
<1>1. /\ p \in Elems(pending) /\ p.id = j.pend /\ Replay(j) /\ ~p.superseded
      /\ pending' = Without(pending, {p})
  BY CompletedIs
<1>2. j.rig \in Rigs /\ j.vfo \in VFO
  BY <1>1, UnlinkFirst DEF PInv
<1>3. AllSteady
  BY <1>1, ReplayUntracked DEF Replayed
<1>. DEFINE r == j.rig
            v == j.vfo
            n == outstanding[j.rig] - 1
            k == 0
<1>4. ReleaseRoom(n)
  <2>1. /\ outstanding[r] \in Int
        /\ outstanding[r] <= QueueLimit + Cardinality(ReleasedVfos(pending, r))
    BY <1>2 DEF PInv, Typed, Counted
  <2>. DEFINE A == ReleasedVfos(pending, r)
  <2>2. A \in SUBSET VFO
    BY DEF ReleasedVfos
  <2>. HIDE DEF A
  <2>3. Cardinality(A) \in Nat /\ Cardinality(A) <= MaxVfos
    BY <1>2, <2>2, VfoSets
  <2>4. QueueLimit \in Nat /\ MaxVfos \in Nat
    BY PttAssumption, LogAssumption
  <2>. QED
    BY <2>1, <2>3, <2>4 DEF ReleaseRoom, A
<1>5. SubmitRelease(r, v, k, n)
  BY <1>4 DEF UntrackedRelease
<1>6. r \in Rigs /\ v \in VFO /\ k \in Nat
  BY <1>2
<1>. HIDE DEF r, v, n, k
<1>7. Submitted(r, v, k, done, running, queue, done', running', queue')
  BY <1>5, <1>6, SubmitIs DEF PInv
<1>8. Tail(jobs) \in Seq(Result)
  BY <1>1, FirstResult, TailElems
<1>9. \A s \in Rigs : LineGrows(LineIn(Tail(jobs), done, s), LineIn(Tail(jobs), done', s))
  BY <1>6, <1>7, <1>8, LineSubmit
<1>10. InHand(running'[r], queue'[r], v)
  <2>. DEFINE x == running[r]
              Q == queue[r]
  <2>1. /\ x \in Job \cup {NoJob} /\ Q \in Seq(Job) /\ WorkerSound(x, Q)
        /\ running \in [Rigs -> Job \cup {NoJob}] /\ queue \in [Rigs -> Seq(Job)]
    BY <1>6 DEF PInv, Ordered, Lines, RigSound
  <2>2. /\ running'[r] = RunningAfter(x, v, k)
        /\ queue'[r] = QueueAfter(x, Without(Q, Cut(Q, v)), v, k)
    BY <1>6, <1>7, <2>1 DEF Submitted
  <2>. HIDE DEF x, Q
  <2>. QED
    BY <1>6, <2>1, <2>2, HandSubmit
<1>11. InHand(running'[j.rig], queue'[j.rig], j.vfo)
  BY <1>10 DEF r, v
<1>. QED
  BY <1>1, <1>3, <1>9, <1>11, ReplayAir

\* A key-down is confirmed.
LEMMA ConfirmAir ==
  ASSUME PInv, GInv, TInv, AInv, NEW j, NEW p, ConfirmKeyDown(j, p)
  PROVE  AInv'
<1>1. /\ Completed(j, p) /\ p.on /\ UNCHANGED <<queue, running, done>>
      /\ confirmed' = [confirmed EXCEPT ![p.rig][p.vfo] = TRUE]
  BY DEF ConfirmKeyDown, CountOut
<1>2. p \in Elems(pending) /\ p.id = j.pend /\ Replay(j)
  BY <1>1, CompletedIs
<1>3. j.rig \in Rigs /\ j.vfo \in VFO /\ p.rig = j.rig /\ p.vfo = j.vfo
  BY <1>2, UnlinkFirst DEF PInv
<1>4. /\ AllSteady
      /\ \A s \in Rigs : LineGrows(LineIn(Tail(jobs), done, s), LineIn(Tail(jobs), done', s))
  BY <1>1, <1>2, ReplayStill
<1>. DEFINE r == j.rig
            w == j.vfo
<1>5. /\ confirmed \in [Rigs -> [VFO -> BOOLEAN]] /\ r \in Rigs /\ w \in VFO
      /\ confirmed' = [confirmed EXCEPT ![r][w] = TRUE]
  BY <1>1, <1>3 DEF TInv, ConfirmedType
<1>. HIDE DEF r, w
<1>6. /\ confirmed'[r][w] /\ \A s \in Rigs, v \in VFO : confirmed[s][v] => confirmed'[s][v]
  BY <1>5
<1>. QED
  BY <1>2, <1>4, <1>6, ReplayAir DEF r, w

\* A release is answered.
LEMMA ReleasedAir ==
  ASSUME PInv, GInv, AInv, NEW j, NEW p, Completed(j, p), ~p.on,
         UNCHANGED <<confirmed, queue, running, done>>
  PROVE  AInv'
<1>1. p \in Elems(pending) /\ p.id = j.pend /\ Replay(j)
  BY CompletedIs
<1>2. ~j.on
  BY <1>1, UnlinkFirst DEF PInv
<1>3. /\ AllSteady
      /\ \A s \in Rigs : LineGrows(LineIn(Tail(jobs), done, s), LineIn(Tail(jobs), done', s))
  BY <1>1, ReplayStill
<1>. QED
  BY <1>1, <1>2, <1>3, ReplayAir

\* A result is replayed.
LEMMA CompleteAir ==
  ASSUME PInv, GInv, TInv, AInv, Complete
  PROVE  AInv'
<1>1. PICK j \in Elems(jobs) :
        \/ DropResult(j)
        \/ \E p \in Elems(pending) :
             \/ CancelStale(j, p) \/ RejectKeyDown(j, p) \/ ConfirmKeyDown(j, p)
             \/ LockKeyDown(j, p) \/ FailRelease(j, p) \/ ConfirmRelease(j, p)
  BY DEF Complete
<1>2. ASSUME NEW p, CancelStale(j, p) PROVE FALSE
  BY <1>2, CompletedIs DEF CancelStale
<1>3. ASSUME NEW p, RejectKeyDown(j, p) \/ LockKeyDown(j, p) PROVE AInv'
  <2>1. /\ Completed(j, p) /\ p.on /\ confirmed' = confirmed
        /\ UntrackedRelease(j.rig, j.vfo, outstanding[j.rig] - 1)
    BY <1>3 DEF RejectKeyDown, LockKeyDown
  <2>. QED
    BY <2>1, RejectAir
<1>4. ASSUME NEW p, FailRelease(j, p) \/ ConfirmRelease(j, p) PROVE AInv'
  <2>1. Completed(j, p) /\ ~p.on /\ UNCHANGED <<confirmed, queue, running, done>>
    BY <1>4 DEF FailRelease, ConfirmRelease, CountOut
  <2>. QED
    BY <2>1, ReleasedAir
<1>. QED
  BY <1>1, <1>2, <1>3, <1>4, DropAir, ConfirmAir

\* Every action keeps it.
LEMMA StepAir ==
  ASSUME PInv, GInv, TInv, AInv, [Next]_vars
  PROVE  AInv'
<1>1. ASSUME UNCHANGED <<jobs, worker, tx, confirmed, failed_last>>
      PROVE  AInv'
  BY <1>1 DEF AInv, KeyDownsAnswered, AirTraced, Traced, worker
<1>2. CASE UNCHANGED vars
  BY <1>1, <1>2 DEF vars, radio, history
<1>3. pending \in Seq(Pending)
  BY DEF PInv, Ordered, Lines
<1>4. ASSUME NEW c \in Clients, NEW r \in Rigs, NEW v \in VFO, KeyDown(c, r, v) PROVE AInv'
  BY <1>4, KeyDownAir
<1>5. NoClient \in Client /\ talker \in Client /\ (talker # NoClient => ptt_vfo \in VFO)
  BY DEF Client, PInv, Typed
<1>6. CASE KeyUp
  <2>1. PICK rejected \in BOOLEAN : RequestRelease(pending, ptt_vfo, NoClient, rejected)
    BY <1>6 DEF KeyUp
  <2>2. ptt_vfo \in VFO /\ UNCHANGED <<jobs, tx, confirmed, failed_last>>
    BY <1>5, <1>6 DEF KeyUp, radio, history
  <2>. QED
    BY <1>3, <1>5, <2>1, <2>2, SameRelabelled, RequestAir
<1>7. ASSUME NEW c \in Clients, Disconnect(c) PROVE AInv'
  <2>1. UNCHANGED <<jobs, tx, confirmed, failed_last>>
    BY <1>7 DEF Disconnect, radio, history
  <2>2. CASE c = talker
    <3>1. PICK rejected \in BOOLEAN : RequestRelease(Orphan(pending, c), ptt_vfo, NoClient, rejected)
      BY <1>7, <2>2 DEF Disconnect
    <3>2. ptt_vfo \in VFO
      BY <1>5, <2>2, LogAssumption
    <3>. QED
      BY <1>3, <1>5, <2>1, <3>1, <3>2, OrphanIs, RequestAir
  <2>3. CASE c # talker
    BY <1>1, <1>7, <2>1, <2>3 DEF Disconnect
  <2>. QED
    BY <2>2, <2>3
<1>8. CASE \/ ForceOff \/ Fault \/ TalkTimeout \/ RetryStop \/ Shutdown
           \/ \E r \in Rigs : EstopTrip(r) \/ EstopReset(r)
  <2>1. PICK why, r : StartOff(why, r)
    BY <1>8, LoopStartIs
  <2>. QED
    BY <1>1, <2>1 DEF StartOff, history
<1>9. CASE OffVfo
  <2>1. PICK rejected \in BOOLEAN : RequestRelease(pending, off.next, talker, rejected)
    BY <1>9 DEF OffVfo
  <2>2. off.next \in VFO /\ UNCHANGED <<jobs, tx, confirmed, failed_last>>
    BY <1>9, LogAssumption DEF OffVfo, radio, history, PInv, Typed, Loop, VFO
  <2>. QED
    BY <1>3, <1>5, <2>1, <2>2, SameRelabelled, RequestAir
<1>10. CASE EndOff
  BY <1>1, <1>10 DEF EndOff, history
<1>11. CASE Complete
  BY <1>11, CompleteAir
<1>12. ASSUME NEW r \in Rigs, Drain(r) PROVE AInv'
  <2>1. UNCHANGED <<queue, running, tx, confirmed, failed_last>>
    BY <1>12 DEF Drain, radio, history
  <2>2. AirKept
    BY <1>12, <2>1, LineDrain DEF AirKept
  <2>. QED
    BY <2>1, <2>2, AirSteady
<1>13. ASSUME NEW r \in Rigs, Take(r) \/ Execute(r) PROVE AInv'
  BY <1>13, TakeAir, ExecuteAir
<1>14. CASE AccountingFailed
  BY <1>1, <1>14 DEF AccountingFailed, radio, history
<1>. QED
  BY <1>2, <1>4, <1>6, <1>7, <1>8, <1>9, <1>10, <1>11, <1>12, <1>13, <1>14 DEF Next, WorkerStep

\* It holds at the start.
LEMMA InitAir ==
  ASSUME Init
  PROVE  AInv
<1>1. /\ jobs = <<>> /\ done = [r \in Rigs |-> <<>>] /\ tx = [r \in Rigs |-> [v \in VFO |-> FALSE]]
  BY DEF Init, All
<1>2. \A r \in Rigs : LineIn(jobs, done, r) = <<>>
  BY <1>1 DEF LineIn, JobsOf
<1>3. \A r \in Rigs : Elems(LineIn(jobs, done, r)) = {}
  BY <1>2, NoItems
<1>. QED
  BY <1>1, <1>3 DEF AInv, KeyDownsAnswered, AirTraced
----------------------------------------------------------------------------
(* The transmission log *)

\* Its session table and its rows are tables.
LogShape(L) == /\ L.session = [v \in VFO |-> L.session[v]]
               /\ L.row = [s \in Rows |-> L.row[s]]

\* Every open row is the current one of a VFO.
RowsOpen(L) == \A s \in Rows : L.row[s] # NoClient => \E v \in VFO : L.session[v] = s

\* Log M is log L with transmissions closed; ok says whether it was written.
LogClosed(L, M, ok) ==
  /\ LogShape(M)
  /\ \A v \in VFO : M.session[v] = L.session[v] \/ M.session[v] = 0
  /\ ok /\ RowsOpen(L) => RowsOpen(M)

\* Closing the transmission of one VFO: it is no longer in the table, and its
\* row, if the write succeeds, is no longer open.
LEMMA LogStopIs ==
  ASSUME NEW L, LogShape(L), NEW c, NEW v \in VFO, NEW ok
  PROVE  LogClosed(L, LogStop(L, c, v, ok), ok) /\ LogStop(L, c, v, ok).session[v] = 0
<1>. DEFINE M == LogStop(L, c, v, ok)
            s == RowOf(L, c, v)
<1>1. /\ M.session = IF s = 0 THEN L.session ELSE [L.session EXCEPT ![v] = 0]
      /\ M.row = IF s = 0 \/ ~ok THEN L.row ELSE [L.row EXCEPT ![s] = NoClient]
  BY DEF LogStop
<1>2. L.session[v] # 0 => s = L.session[v]
  BY DEF RowOf
<1>. HIDE DEF M, s
<1>. DEFINE S == L.session
            R == L.row
            T == M.session
            U == M.row
<1>3. /\ S = [w \in VFO |-> S[w]] /\ R = [z \in Rows |-> R[z]]
      /\ T = (IF s = 0 THEN S ELSE [S EXCEPT ![v] = 0])
      /\ U = (IF s = 0 \/ ~ok THEN R ELSE [R EXCEPT ![s] = NoClient])
      /\ S[v] # 0 => s = S[v]
  BY <1>1, <1>2 DEF LogShape
<1>. HIDE DEF S, R, T, U
<1>4. /\ T = [w \in VFO |-> T[w]] /\ T[v] = 0 /\ \A w \in VFO : w # v => T[w] = S[w]
  <2>1. CASE s = 0
    BY <1>3, <2>1
  <2>2. CASE s # 0
    BY <1>3, <2>2
  <2>. QED
    BY <2>1, <2>2
<1>5. /\ U = [z \in Rows |-> U[z]]
      /\ \A z \in Rows : U[z] # NoClient => R[z] # NoClient
      /\ ok /\ s \in Rows => U[s] = NoClient
  <2>1. CASE s = 0 \/ ~ok
    <3>1. U = R
      BY <1>3, <2>1
    <3>2. 0 \notin Rows
      BY DEF Rows
    <3>. QED
      BY <1>3, <2>1, <3>1, <3>2
  <2>2. CASE ~(s = 0 \/ ~ok)
    <3>1. U = [R EXCEPT ![s] = NoClient]
      BY <1>3, <2>2
    <3>2. U = [z \in Rows |-> U[z]]
      BY <1>3, <3>1
    <3>3. \A z \in Rows : U[z] = IF z = s THEN NoClient ELSE R[z]
      BY <1>3, <3>1
    <3>. QED
      BY <3>2, <3>3
  <2>. QED
    BY <2>1, <2>2
<1>6. ASSUME ok, \A z \in Rows : R[z] # NoClient => \E w \in VFO : S[w] = z,
             NEW z \in Rows, U[z] # NoClient
      PROVE  \E w \in VFO : T[w] = z
  <2>1. PICK w \in VFO : S[w] = z
    BY <1>5, <1>6
  <2>2. z # 0
    BY DEF Rows
  <2>3. w # v
    BY <1>3, <1>5, <1>6, <2>1, <2>2
  <2>. QED
    BY <1>4, <2>1, <2>3
<1>. QED
  BY <1>4, <1>5, <1>6 DEF LogClosed, LogShape, RowsOpen, S, R, T, U, M

\* Closing again.
LEMMA LogClosedTwice ==
  ASSUME NEW L, NEW M, NEW N, NEW ok, LogClosed(L, M, ok), LogClosed(M, N, ok)
  PROVE  LogClosed(L, N, ok)
BY DEF LogClosed

\* f holds the logs ptt_log_stop leaves behind, VFO by VFO, up to VFO m.
Steps(f, L, c, V, ok, m) ==
  f = [n \in 0..m |->
         IF n = 0 THEN L
         ELSE IF n - 1 \in V THEN LogStop(f[n - 1], c, n - 1, ok)
         ELSE f[n - 1]]

\* There are such logs.
LEMMA StepsExist ==
  ASSUME NEW L, NEW c, NEW V, NEW ok, NEW m \in Nat
  PROVE  \E f : Steps(f, L, c, V, ok, m)
<1>. DEFINE S == {n \in Nat : ~(\E f : Steps(f, L, c, V, ok, n))}
<1>1. SUFFICES ASSUME S # {} PROVE FALSE
  OBVIOUS
<1>2. PICK n \in S : \A k \in S : n <= k
  BY <1>1, LeastNatural
<1>3. n \in Nat /\ ~(\E f : Steps(f, L, c, V, ok, n))
  OBVIOUS
<1>4. CASE n = 0
  <2>. DEFINE f == [k \in 0..0 |-> L]
  <2>1. Steps(f, L, c, V, ok, 0)
    BY DEF Steps
  <2>. QED
    BY <1>3, <1>4, <2>1
<1>5. CASE n # 0
  <2>1. n - 1 \in Nat /\ n - 1 \notin S
    BY <1>2, <1>3, <1>5
  <2>2. PICK g : Steps(g, L, c, V, ok, n - 1)
    BY <2>1
  <2>. DEFINE last == IF n - 1 \in V THEN LogStop(g[n - 1], c, n - 1, ok) ELSE g[n - 1]
              f == [k \in 0..n |-> IF k <= n - 1 THEN g[k] ELSE last]
  <2>3. \A k \in 0..(n - 1) : g[k] = IF k = 0 THEN L
                                     ELSE IF k - 1 \in V THEN LogStop(g[k - 1], c, k - 1, ok)
                                     ELSE g[k - 1]
    BY <2>2 DEF Steps
  <2>4. /\ \A k \in 0..(n - 1) : k \in 0..n /\ f[k] = g[k] /\ (k # 0 => k - 1 \in 0..(n - 1))
        /\ f[n] = last /\ n - 1 \in 0..(n - 1)
    BY <1>3, <1>5
  <2>5. f = [k \in 0..n |-> f[k]]
    OBVIOUS
  <2>. HIDE DEF f
  <2>6. ASSUME NEW k \in 0..n
        PROVE  f[k] = IF k = 0 THEN L
                      ELSE IF k - 1 \in V THEN LogStop(f[k - 1], c, k - 1, ok)
                      ELSE f[k - 1]
    <3>1. CASE k = n
      BY <1>5, <2>4, <3>1
    <3>2. CASE k # n
      <4>1. k \in 0..(n - 1)
        BY <1>3, <3>2
      <4>. QED
        BY <2>3, <2>4, <4>1
    <3>. QED
      BY <3>1, <3>2
  <2>7. Steps(f, L, c, V, ok, n)
    BY <2>5, <2>6 DEF Steps
  <2>. QED
    BY <1>3, <2>7
<1>. QED
  BY <1>4, <1>5

\* Closing the transmissions of several VFOs.
LEMMA LogStopAllIs ==
  ASSUME NEW L, LogShape(L), NEW c, NEW V, NEW ok
  PROVE  LogClosed(L, LogStopAll(L, c, V, ok), ok)
<1>. DEFINE f == CHOOSE g : Steps(g, L, c, V, ok, MaxVfos)
<1>1. MaxVfos \in Nat
  BY LogAssumption
<1>2. LogStopAll(L, c, V, ok) = f[MaxVfos]
  BY DEF LogStopAll, Steps
<1>3. Steps(f, L, c, V, ok, MaxVfos)
  BY <1>1, StepsExist
<1>. HIDE DEF f
<1>4. \A n \in 0..MaxVfos : f[n] = IF n = 0 THEN L
                                   ELSE IF n - 1 \in V THEN LogStop(f[n - 1], c, n - 1, ok)
                                   ELSE f[n - 1]
  BY <1>3 DEF Steps
<1>5. LogClosed(L, L, ok)
  BY DEF LogClosed
<1>. DEFINE S == {n \in 0..MaxVfos : ~LogClosed(L, f[n], ok)}
<1>6. ASSUME S # {} PROVE FALSE
  <2>1. S \in SUBSET Nat
    OBVIOUS
  <2>2. PICK n \in S : \A k \in S : n <= k
    BY <1>6, <2>1, LeastNatural
  <2>3. n \in 0..MaxVfos /\ ~LogClosed(L, f[n], ok)
    OBVIOUS
  <2>4. n # 0
    BY <1>4, <1>5, <2>3
  <2>5. n - 1 \in 0..MaxVfos /\ n - 1 \in VFO /\ n - 1 \notin S
    BY <1>1, <2>2, <2>3, <2>4 DEF VFO
  <2>6. LogClosed(L, f[n - 1], ok)
    BY <2>5
  <2>7. LogClosed(f[n - 1], LogStop(f[n - 1], c, n - 1, ok), ok)
    BY <2>5, <2>6, LogStopIs DEF LogClosed
  <2>8. f[n] = f[n - 1] \/ f[n] = LogStop(f[n - 1], c, n - 1, ok)
    BY <1>4, <2>3, <2>4
  <2>. QED
    BY <2>3, <2>6, <2>7, <2>8, LogClosedTwice
<1>7. MaxVfos \in 0..MaxVfos /\ MaxVfos \notin S
  BY <1>1, <1>6
<1>. QED
  BY <1>2, <1>7

\* Opening a row.
LEMMA LogStartIs ==
  ASSUME NEW L, LogShape(L), NEW c, NEW v \in VFO, NEW ok
  PROVE  LET M == LogStart(L, c, v, ok)
         IN  /\ LogShape(M)
             /\ \A w \in VFO : w # v => M.session[w] = L.session[w]
             /\ RowsOpen(L) => RowsOpen(M)
<1>. DEFINE M == LogStart(L, c, v, ok)
            n == NewRow(L)
<1>1. CASE L.session[v] # 0 \/ ~ok
  BY <1>1 DEF LogStart
<1>2. CASE ~(L.session[v] # 0 \/ ~ok)
  <2>1. /\ M.session = [L.session EXCEPT ![v] = n] /\ M.row = [L.row EXCEPT ![n] = c]
    BY <1>2 DEF LogStart
  <2>. HIDE DEF M, n
  <2>. DEFINE S == L.session
              R == L.row
              T == M.session
              U == M.row
  <2>2. /\ S = [w \in VFO |-> S[w]] /\ R = [z \in Rows |-> R[z]] /\ S[v] = 0
        /\ T = [S EXCEPT ![v] = n] /\ U = [R EXCEPT ![n] = c]
    BY <1>2, <2>1 DEF LogShape
  <2>. HIDE DEF S, R, T, U
  <2>3. /\ T = [w \in VFO |-> T[w]] /\ T[v] = n /\ \A w \in VFO : w # v => T[w] = S[w]
    BY <2>2
  <2>4. /\ U = [z \in Rows |-> U[z]] /\ \A z \in Rows : z # n => U[z] = R[z]
    BY <2>2
  <2>5. ASSUME \A z \in Rows : R[z] # NoClient => \E w \in VFO : S[w] = z,
               NEW z \in Rows, U[z] # NoClient
        PROVE  \E w \in VFO : T[w] = z
    <3>1. CASE z = n
      BY <2>3, <3>1
    <3>2. CASE z # n
      <4>1. PICK w \in VFO : S[w] = z
        BY <2>4, <2>5, <3>2
      <4>2. w # v
        BY <2>2, <4>1 DEF Rows
      <4>. QED
        BY <2>3, <4>1, <4>2
    <3>. QED
      BY <3>1, <3>2
  <2>. QED
    BY <2>3, <2>4, <2>5 DEF LogShape, RowsOpen, S, R, T, U, M
<1>. QED
  BY <1>1, <1>2

\* The log has its shape and no open row is lost.
LogSound == LogShape(log) /\ RowsClosed

\* Transmissions are closed, and a write that fails locks transmission.
LEMMA ClosedSound ==
  ASSUME LogSound, NEW M, NEW ok, LogClosed(log, M, ok), LogShape(log'),
         log'.session = M.session, log'.row = M.row,
         accounting_locked => accounting_locked', Strict /\ ~ok => accounting_locked'
  PROVE  LogSound'
<1>1. ASSUME Strict, ~accounting_locked' PROVE RowsOpen(log')
  <2>1. RowsOpen(log)
    BY <1>1 DEF LogSound, RowsClosed, RowsOpen
  <2>2. RowsOpen(M)
    BY <1>1, <2>1 DEF LogClosed
  <2>. QED
    BY <2>2 DEF RowsOpen
<1>2. RowsClosed'
  BY <1>1 DEF RowsClosed, RowsOpen
<1>. QED
  BY <1>2 DEF LogSound

\* Every action keeps the log sound.
LEMMA StepLog ==
  ASSUME PInv, LogSound, [Next]_vars
  PROVE  LogSound'
<1>1. LogShape(log)
  BY DEF LogSound
<1>2. ASSUME log' = log, accounting_locked => accounting_locked'
      PROVE  LogSound'
  BY <1>2 DEF LogSound, LogShape, RowsClosed
<1>3. ASSUME NEW ok, AfterWrites(ok)
      PROVE  /\ accounting_locked => accounting_locked'
             /\ Strict /\ ~ok => accounting_locked'
  BY <1>3 DEF AfterWrites
<1>4. ASSUME NEW c, NEW v \in VFO, NEW ok, log' = LogStop(log, c, v, ok), AfterWrites(ok)
      PROVE  LogSound'
  <2>. DEFINE M == LogStop(log, c, v, ok)
  <2>1. LogClosed(log, M, ok)
    BY <1>1, LogStopIs
  <2>2. log' = M
    BY <1>4
  <2>. HIDE DEF M
  <2>3. LogShape(log')
    BY <2>1, <2>2 DEF LogClosed
  <2>. QED
    BY <1>3, <1>4, <2>1, <2>2, <2>3, ClosedSound
<1>5. ASSUME NEW c \in Clients, Disconnect(c) PROVE LogSound'
  <2>1. PICK ok \in BOOLEAN :
          /\ log' = Forget(LogStopAll(log, c, {v \in VFO : log.owner[v] = c}, ok), c)
          /\ AfterWrites(ok)
    BY <1>5 DEF Disconnect
  <2>. DEFINE M == LogStopAll(log, c, {v \in VFO : log.owner[v] = c}, ok)
  <2>2. LogClosed(log, M, ok)
    BY <1>1, LogStopAllIs
  <2>. HIDE DEF M
  <2>3. log' = Forget(M, c)
    BY <2>1 DEF M
  <2>4. log'.session = M.session /\ log'.row = M.row
    BY <2>3 DEF Forget
  <2>5. LogShape(log')
    BY <2>2, <2>4 DEF LogClosed, LogShape
  <2>. QED
    BY <1>3, <2>1, <2>2, <2>4, <2>5, ClosedSound
<1>6. ASSUME NEW j, NEW p, Completed(j, p)
      PROVE  p.vfo \in VFO
  BY <1>6, PendingOfIs, UnlinkFirst DEF Completed, Replay, PInv
<1>7. ASSUME NEW j, NEW p, RejectKeyDown(j, p) \/ ConfirmRelease(j, p) PROVE LogSound'
  <2>1. p.vfo \in VFO
    BY <1>6, <1>7 DEF RejectKeyDown, ConfirmRelease
  <2>2. CASE UNCHANGED <<log, accounting_locked>>
    BY <1>2, <2>2
  <2>3. CASE \E ok \in BOOLEAN : log' = LogStop(log, p.owner, p.vfo, ok) /\ AfterWrites(ok)
    BY <1>4, <2>1, <2>3
  <2>. QED
    BY <1>7, <2>2, <2>3 DEF RejectKeyDown, ConfirmRelease
<1>8. ASSUME NEW j, NEW p, ConfirmKeyDown(j, p) PROVE LogSound'
  <2>1. p.vfo \in VFO /\ accounting_locked' = accounting_locked
    BY <1>6, <1>8 DEF ConfirmKeyDown
  <2>2. PICK ok \in BOOLEAN : log' = LogStart(log, p.owner, p.vfo, ok)
    BY <1>8 DEF ConfirmKeyDown
  <2>3. LogShape(log') /\ (RowsOpen(log) => RowsOpen(log'))
    BY <1>1, <2>1, <2>2, LogStartIs
  <2>. QED
    BY <2>1, <2>3 DEF LogSound, RowsClosed, RowsOpen
<1>9. ASSUME NEW j, NEW p, LockKeyDown(j, p) PROVE LogSound'
  <2>1. p.vfo \in VFO /\ accounting_locked' = TRUE
    BY <1>6, <1>9 DEF LockKeyDown
  <2>2. PICK opened \in BOOLEAN : \E ok \in BOOLEAN :
          log' = LogStopAll(LogStart(log, p.owner, p.vfo, opened), p.owner, VFO, ok)
    BY <1>9 DEF LockKeyDown
  <2>3. LogShape(LogStart(log, p.owner, p.vfo, opened))
    BY <1>1, <2>1, LogStartIs
  <2>4. LogShape(log')
    BY <2>2, <2>3, LogStopAllIs DEF LogClosed
  <2>. QED
    BY <2>1, <2>4 DEF LogSound, RowsClosed
<1>10. CASE Complete
  <2>1. PICK j \in Elems(jobs) :
          \/ DropResult(j)
          \/ \E p \in Elems(pending) :
               \/ CancelStale(j, p) \/ RejectKeyDown(j, p) \/ ConfirmKeyDown(j, p)
               \/ LockKeyDown(j, p) \/ FailRelease(j, p) \/ ConfirmRelease(j, p)
    BY <1>10 DEF Complete
  <2>2. ASSUME NEW p, DropResult(j) \/ CancelStale(j, p) \/ FailRelease(j, p) PROVE LogSound'
    BY <1>2, <2>2 DEF DropResult, CancelStale, FailRelease
  <2>. QED
    BY <1>7, <1>8, <1>9, <2>1, <2>2
<1>11. CASE UNCHANGED vars
  BY <1>2, <1>11 DEF vars, switches
<1>12. CASE \/ \E c \in Clients, r \in Rigs, v \in VFO : KeyDown(c, r, v)
            \/ KeyUp \/ OffVfo
  BY <1>2, <1>12 DEF KeyDown, KeyUp, OffVfo, switches
<1>13. CASE \/ ForceOff \/ Fault \/ TalkTimeout \/ RetryStop \/ Shutdown
            \/ \E r \in Rigs : EstopTrip(r) \/ EstopReset(r)
  <2>1. PICK why, r : StartOff(why, r)
    BY <1>13, LoopStartIs
  <2>. QED
    BY <1>2, <2>1 DEF StartOff
<1>14. CASE EndOff \/ AccountingFailed
  BY <1>2, <1>14 DEF EndOff, AccountingFailed
<1>15. ASSUME NEW r \in Rigs, Drain(r) \/ Take(r) \/ Execute(r) PROVE LogSound'
  BY <1>2, <1>15 DEF Drain, Take, Execute, switches
<1>. QED
  BY <1>5, <1>10, <1>11, <1>12, <1>13, <1>14, <1>15 DEF Next, WorkerStep

\* It is sound at the start.
LEMMA InitLog ==
  ASSUME Init
  PROVE  LogSound
<1>1. log = EmptyLog
  BY DEF Init
<1>2. /\ log.session = [v \in VFO |-> 0] /\ log.row = [s \in Rows |-> NoClient]
  BY <1>1 DEF EmptyLog
<1>3. LogShape(log)
  BY <1>2 DEF LogShape
<1>. QED
  BY <1>2, <1>3 DEF LogSound, RowsClosed
----------------------------------------------------------------------------
(* The session table *)

\* The talker holds v, a release of v is pending, or the stop is retried.
Counts(v) ==
  \/ stop_pending
  \/ \E r \in Rigs : Held(r, v)
  \/ \E q \in Elems(pending) : ~q.on /\ q.vfo = v

\* That is so of every VFO in the table.
SessionHeld == ~dying => \A v \in VFO : log.session[v] # 0 => Counts(v)

\* A step that opens no row and keeps these.
LEMMA SessionKept ==
  ASSUME SessionHeld, dying => dying',
         \A v \in VFO : log'.session[v] = log.session[v] \/ log'.session[v] = 0,
         \A v \in VFO : Counts(v) => Counts(v)'
  PROVE  SessionHeld'
BY DEF SessionHeld

\* The parts of it that a step keeps.
LEMMA CountsKept ==
  ASSUME stop_pending => stop_pending',
         \A v \in VFO : \A q \in Elems(pending) : ~q.on /\ q.vfo = v =>
           \E z \in Elems(pending') : ~z.on /\ z.vfo = v,
         \A v \in VFO : \A r \in Rigs : Held(r, v) =>
           Held(r, v)' \/ \E z \in Elems(pending') : ~z.on /\ z.vfo = v
  PROVE  \A v \in VFO : Counts(v) => Counts(v)'
BY DEF Counts

\* A request to release.
LEMMA RequestCounts ==
  ASSUME GInv, NEW v, Reduced(pending, pending', Target, v),
         stop_pending => stop_pending',
         \/ talker # NoClient /\ v = ptt_vfo
         \/ UNCHANGED <<talker, ptt_vfo, ptt_rig>>
  PROVE  \A w \in VFO : Counts(w) => Counts(w)'
<1>1. \A w \in VFO : \A q \in Elems(pending) : ~q.on /\ q.vfo = w =>
           \E z \in Elems(pending') : ~z.on /\ z.vfo = w
  <2>. SUFFICES ASSUME NEW q \in Elems(pending), ~q.on
                PROVE  \E z \in Elems(pending') : ~z.on /\ z.vfo = q.vfo
    OBVIOUS
  <2>1. ReleasePending(pending, q.rig, q.vfo)
    BY DEF ReleasePending
  <2>2. ReleasePending(pending', q.rig, q.vfo)
    BY <2>1 DEF Reduced
  <2>. QED
    BY <2>2 DEF ReleasePending
<1>2. ReleasePending(pending', Target, v) /\ (NoneLive(pending) => NoneLive(pending'))
  BY ReducedKeeps DEF Reduced
<1>3. ASSUME NEW w \in VFO, NEW r \in Rigs, Held(r, w)
      PROVE  Held(r, w)' \/ \E z \in Elems(pending') : ~z.on /\ z.vfo = w
  <2>1. CASE UNCHANGED <<talker, ptt_vfo, ptt_rig>>
    BY <1>2, <1>3, <2>1 DEF Held
  <2>2. CASE v = ptt_vfo
    BY <1>2, <1>3, <2>2 DEF Held, ReleasePending
  <2>. QED
    BY <2>1, <2>2
<1>. QED
  BY <1>1, <1>3, CountsKept

\* A completion unlinks its request.  If it was a release, it was that of a VFO
\* whose transmission is closed with it.
LEMMA UnlinkCounts ==
  ASSUME PInv, GInv, NEW j, Replay(j), NEW p \in Elems(pending), p.id = j.pend,
         pending' = Without(pending, {p}), stop_pending => stop_pending',
         Live(p) \/ UNCHANGED <<talker, ptt_vfo>>, NEW v \in VFO, p.on \/ p.vfo # v, Counts(v)
  PROVE  Counts(v)'
<1>1. Elems(pending') = Elems(pending) \ {p} /\ ptt_rig' = ptt_rig
  BY UnlinkReduces DEF Replay
<1>2. CASE stop_pending
  BY <1>2 DEF Counts
<1>3. ASSUME NEW r \in Rigs, Held(r, v) PROVE Held(r, v)'
  <2>1. ~Live(p)
    BY <1>3 DEF Held, NoneLive
  <2>. QED
    BY <1>1, <1>3, <2>1 DEF Held, NoneLive
<1>4. ASSUME NEW q \in Elems(pending), ~q.on, q.vfo = v PROVE q \in Elems(pending')
  BY <1>1, <1>4
<1>. QED
  BY <1>2, <1>3, <1>4 DEF Counts

\* A client keys: nobody was talking.
LEMMA KeyDownSession ==
  ASSUME PInv, GInv, SessionHeld, NEW c \in Clients, NEW r \in Rigs, NEW v \in VFO, KeyDown(c, r, v)
  PROVE  SessionHeld'
<1>1. talker = NoClient /\ UNCHANGED <<stop_pending, dying, log>>
  BY DEF KeyDown, switches
<1>2. Elems(pending) \subseteq Elems(pending')
  <2>1. UNCHANGED <<talker, ptt_vfo, pending, worker>> \/ \E p : KeyDownPending(p, r, v, c)
    BY KeyDownGInv
  <2>2. ASSUME NEW p, KeyDownPending(p, r, v, c) PROVE Elems(pending) \subseteq Elems(pending')
    BY <2>2 DEF KeyDownPending
  <2>3. CASE UNCHANGED <<talker, ptt_vfo, pending, worker>>
    BY <2>3
  <2>. QED
    BY <2>1, <2>2, <2>3
<1>3. \A w \in VFO : Counts(w) => Counts(w)'
  BY <1>1, <1>2 DEF Counts, Held
<1>. QED
  BY <1>1, <1>3, SessionKept

\* A connection closes.
LEMMA DisconnectSession ==
  ASSUME PInv, GInv, LogSound, SessionHeld, NEW c \in Clients, Disconnect(c)
  PROVE  SessionHeld'
<1>1. PICK ok \in BOOLEAN :
        /\ log' = Forget(LogStopAll(log, c, {v \in VFO : log.owner[v] = c}, ok), c)
        /\ AfterWrites(ok)
  BY DEF Disconnect
<1>. DEFINE M == LogStopAll(log, c, {v \in VFO : log.owner[v] = c}, ok)
<1>2. LogClosed(log, M, ok)
  BY LogStopAllIs DEF LogSound
<1>. HIDE DEF M
<1>3. log'.session = M.session
  BY <1>1 DEF M, Forget
<1>4. \A v \in VFO : log'.session[v] = log.session[v] \/ log'.session[v] = 0
  BY <1>2, <1>3 DEF LogClosed
<1>5. /\ stop_pending => stop_pending'
      /\ dying' = dying /\ ptt_rig' = ptt_rig /\ Closed(c)
  BY <1>1, DisconnectGInv DEF AfterWrites, Disconnect
<1>6. CASE c = talker
  <2>1. talker # NoClient /\ Reduced(pending, pending', Target, ptt_vfo)
    BY <1>5, <1>6, LogAssumption DEF Closed
  <2>2. \A w \in VFO : Counts(w) => Counts(w)'
    BY <1>5, <2>1, RequestCounts
  <2>. QED
    BY <1>4, <1>5, <2>2, SessionKept
<1>7. CASE c # talker
  <2>1. /\ LiveFrom(pending, pending')
        /\ \A r, w : ReleasePending(pending, r, w) <=> ReleasePending(pending', r, w)
        /\ UNCHANGED <<talker, ptt_vfo>>
    BY <1>5, <1>7 DEF Closed
  <2>2. NoneLive(pending) => NoneLive(pending')
    BY <2>1 DEF NoneLive, LiveFrom
  <2>3. ASSUME NEW w \in VFO, NEW q \in Elems(pending), ~q.on, q.vfo = w
        PROVE  \E z \in Elems(pending') : ~z.on /\ z.vfo = w
    <3>1. ReleasePending(pending, q.rig, w)
      BY <2>3 DEF ReleasePending
    <3>2. ReleasePending(pending', q.rig, w)
      BY <2>1, <3>1
    <3>. QED
      BY <3>2 DEF ReleasePending
  <2>4. \A w \in VFO : \A r \in Rigs : Held(r, w) => Held(r, w)'
    BY <1>5, <2>1, <2>2 DEF Held
  <2>5. \A w \in VFO : Counts(w) => Counts(w)'
    BY <1>5, <2>3, <2>4, CountsKept
  <2>. QED
    BY <1>4, <1>5, <2>5, SessionKept
<1>. QED
  BY <1>6, <1>7

\* The end of the loop: a release of every VFO is pending.
LEMMA EndOffSession ==
  ASSUME PInv, GInv, SessionHeld, EndOff
  PROVE  SessionHeld'
<1>1. \A v \in VFO : ReleasePending(pending, Target, v) /\ pending' = pending
  BY EndOffGInv
<1>2. \A v \in VFO : Counts(v)'
  BY <1>1 DEF Counts, ReleasePending
<1>. QED
  BY <1>2 DEF SessionHeld

\* A result is replayed.
LEMMA CompleteSession ==
  ASSUME PInv, GInv, LogSound, SessionHeld, Complete
  PROVE  SessionHeld'
<1>1. PICK j \in Elems(jobs) :
        \/ DropResult(j)
        \/ \E p \in Elems(pending) :
             \/ CancelStale(j, p) \/ RejectKeyDown(j, p) \/ ConfirmKeyDown(j, p)
             \/ LockKeyDown(j, p) \/ FailRelease(j, p) \/ ConfirmRelease(j, p)
  BY DEF Complete
<1>2. CASE DropResult(j)
  <2>1. /\ Replay(j) /\ UNCHANGED <<talker, ptt_vfo, stop_pending, log, dying, ptt_rig>>
    BY <1>2 DEF DropResult, Replay
  <2>2. CASE pending' = pending
    BY <2>1, <2>2 DEF SessionHeld, Counts, Held
  <2>3. CASE dying
    BY <2>1, <2>3 DEF SessionHeld
  <2>4. ASSUME NEW p \in Elems(pending), p.id = j.pend, pending' = Without(pending, {p}), p.on
        PROVE  SessionHeld'
    <3>1. \A v \in VFO : Counts(v) => Counts(v)'
      BY <2>1, <2>4, UnlinkCounts
    <3>. QED
      BY <2>1, <3>1, SessionKept
  <2>. QED
    BY <1>2, <2>2, <2>3, <2>4, DropIs
<1>3. ASSUME NEW p, CancelStale(j, p) PROVE FALSE
  BY <1>3, CompletedIs DEF CancelStale
<1>4. ASSUME NEW p, LockKeyDown(j, p) \/ FailRelease(j, p) PROVE SessionHeld'
  <2>1. stop_pending' = TRUE
    BY <1>4 DEF LockKeyDown, FailRelease
  <2>. QED
    BY <2>1 DEF SessionHeld, Counts
<1>5. ASSUME NEW p, Completed(j, p)
      PROVE  /\ p \in Elems(pending) /\ p.id = j.pend /\ pending' = Without(pending, {p})
             /\ Replay(j) /\ p.vfo \in VFO /\ p.rig \in Rigs /\ (p.on => Live(p)) /\ dying' = dying
  BY <1>5, CompletedIs, UnlinkFirst DEF PInv, Replay
<1>9. LogShape(log)
  BY DEF LogSound
<1>6. ASSUME NEW p, RejectKeyDown(j, p) PROVE SessionHeld'
  <2>1. Completed(j, p) /\ p.on
    BY <1>6 DEF RejectKeyDown
  <2>2. stop_pending => stop_pending'
    BY <1>6 DEF RejectKeyDown, AfterWrites
  <2>3. \A v \in VFO : Counts(v) => Counts(v)'
    BY <1>5, <2>1, <2>2, UnlinkCounts
  <2>4. \A v \in VFO : log'.session[v] = log.session[v] \/ log'.session[v] = 0
    <3>1. CASE log' = log
      BY <3>1
    <3>2. ASSUME NEW ok, log' = LogStop(log, p.owner, p.vfo, ok)
          PROVE  \A v \in VFO : log'.session[v] = log.session[v] \/ log'.session[v] = 0
      <4>1. LogClosed(log, log', ok)
        BY <1>5, <1>9, <2>1, <3>2, LogStopIs
      <4>. QED
        BY <4>1 DEF LogClosed
    <3>. QED
      BY <1>6, <3>1, <3>2 DEF RejectKeyDown
  <2>. QED
    BY <1>5, <2>1, <2>3, <2>4, SessionKept
<1>7. ASSUME NEW p, ConfirmRelease(j, p) PROVE SessionHeld'
  <2>1. Completed(j, p) /\ ~p.on /\ UNCHANGED <<talker, ptt_vfo>>
    BY <1>7 DEF ConfirmRelease
  <2>2. PICK ok \in BOOLEAN : log' = LogStop(log, p.owner, p.vfo, ok) /\ AfterWrites(ok)
    BY <1>7 DEF ConfirmRelease
  <2>3. stop_pending => stop_pending'
    BY <2>2 DEF AfterWrites
  <2>4. /\ log'.session[p.vfo] = 0
        /\ \A v \in VFO : log'.session[v] = log.session[v] \/ log'.session[v] = 0
    <3>1. p.vfo \in VFO /\ log' = LogStop(log, p.owner, p.vfo, ok)
      BY <1>5, <2>1, <2>2
    <3>. DEFINE c == p.owner
                w == p.vfo
                M == LogStop(log, c, w, ok)
    <3>2. w \in VFO /\ log' = M
      BY <3>1
    <3>. HIDE DEF c, w
    <3>3. LogClosed(log, M, ok) /\ M.session[w] = 0
      BY <1>9, <3>2, LogStopIs
    <3>. HIDE DEF M
    <3>4. /\ log'.session[w] = 0
          /\ \A v \in VFO : log'.session[v] = log.session[v] \/ log'.session[v] = 0
      BY <3>2, <3>3 DEF LogClosed
    <3>. QED
      BY <3>4 DEF w
  <2>5. ASSUME NEW v \in VFO, log'.session[v] # 0, ~dying PROVE Counts(v)'
    <3>1. v # p.vfo /\ log.session[v] # 0
      BY <2>4, <2>5
    <3>2. Counts(v)
      BY <2>5, <3>1 DEF SessionHeld
    <3>. QED
      BY <1>5, <2>1, <2>3, <3>1, <3>2, UnlinkCounts
  <2>6. dying' = dying
    BY <1>5, <2>1
  <2>. QED
    BY <2>5, <2>6 DEF SessionHeld
<1>8. ASSUME NEW p, ConfirmKeyDown(j, p) PROVE SessionHeld'
  <2>1. Completed(j, p) /\ p.on /\ UNCHANGED <<talker, ptt_vfo, stop_pending>>
    BY <1>8 DEF ConfirmKeyDown
  <2>2. PICK ok \in BOOLEAN : log' = LogStart(log, p.owner, p.vfo, ok)
    BY <1>8 DEF ConfirmKeyDown
  <2>3. \A v \in VFO : v # p.vfo => log'.session[v] = log.session[v]
    <3>1. p.vfo \in VFO
      BY <1>5, <2>1
    <3>. DEFINE c == p.owner
                w == p.vfo
                M == LogStart(log, c, w, ok)
    <3>2. w \in VFO /\ log' = M
      BY <2>2, <3>1
    <3>. HIDE DEF c, w
    <3>3. \A v \in VFO : v # w => M.session[v] = log.session[v]
      BY <1>9, <3>2, LogStartIs
    <3>. HIDE DEF M
    <3>4. \A v \in VFO : v # w => log'.session[v] = log.session[v]
      BY <3>2, <3>3
    <3>. QED
      BY <3>4 DEF w
  <2>4. Counts(p.vfo)'
    <3>1. /\ talker # NoClient /\ p.rig = ptt_rig /\ p.vfo = ptt_vfo
      BY <1>5, <2>1, LiveTalker
    <3>2. /\ Elems(pending') = Elems(pending) \ {p}
          /\ \A z \in Elems(pending) : z.id = p.id => z = p
      BY <1>5, <2>1, UnlinkReduces
    <3>3. NoneLive(pending')
      BY <1>5, <2>1, <3>2 DEF NoneLive, GInv, OneLive
    <3>4. ptt_rig' = ptt_rig
      BY <1>5, <2>1 DEF Replay
    <3>5. Held(p.rig, p.vfo)'
      BY <2>1, <3>1, <3>3, <3>4 DEF Held
    <3>. QED
      BY <1>5, <2>1, <3>5 DEF Counts
  <2>5. ASSUME NEW v \in VFO, log'.session[v] # 0, ~dying PROVE Counts(v)'
    <3>1. CASE v = p.vfo
      BY <2>4, <3>1
    <3>2. CASE v # p.vfo
      <4>1. Counts(v)
        BY <2>3, <2>5, <3>2 DEF SessionHeld
      <4>. QED
        BY <1>5, <2>1, <4>1, UnlinkCounts
    <3>. QED
      BY <3>1, <3>2
  <2>6. dying' = dying
    BY <1>5, <2>1
  <2>. QED
    BY <2>5, <2>6 DEF SessionHeld
<1>. QED
  BY <1>1, <1>2, <1>3, <1>4, <1>6, <1>7, <1>8

\* Every action keeps it.
LEMMA StepSession ==
  ASSUME OneStop, PInv, GInv, LogSound, SessionHeld, [Next]_vars
  PROVE  SessionHeld'
<1>1. ASSUME UNCHANGED <<talker, ptt_vfo, ptt_rig, pending, log, stop_pending, dying>>
      PROVE  SessionHeld'
  BY <1>1 DEF SessionHeld, Counts, Held
<1>2. CASE UNCHANGED vars
  BY <1>1, <1>2 DEF vars, switches
<1>3. CASE KeyUp
  <2>1. talker # NoClient /\ UNCHANGED <<stop_pending, dying, log>>
    BY <1>3 DEF KeyUp, switches
  <2>2. Reduced(pending, pending', Target, ptt_vfo)
    BY <1>3, KeyUpGInv
  <2>3. \A w \in VFO : Counts(w) => Counts(w)'
    BY <2>1, <2>2, RequestCounts
  <2>. QED
    BY <2>1, <2>3, SessionKept
<1>4. CASE \/ ForceOff \/ Fault \/ TalkTimeout \/ RetryStop \/ Shutdown
           \/ \E r \in Rigs : EstopTrip(r) \/ EstopReset(r)
  <2>1. PICK why, r : StartOff(why, r) /\ (r = ptt_rig \/ (r \in Rigs /\ why \in {"trip", "reset"}))
    BY <1>4, LoopStartIs
  <2>2. /\ UNCHANGED <<talker, ptt_vfo, pending, stop_pending, log>> /\ ~dying
        /\ talker # NoClient => ptt_rig' = ptt_rig
    BY <2>1, StartOffGInv DEF StartOff
  <2>3. \A w \in VFO : Counts(w) => Counts(w)'
    BY <2>2 DEF Counts, Held
  <2>. QED
    BY <2>2, <2>3, SessionKept
<1>5. CASE OffVfo
  <2>1. UNCHANGED <<talker, ptt_vfo, ptt_rig, stop_pending, dying, log>>
    BY <1>5 DEF OffVfo, switches
  <2>2. Reduced(pending, pending', Target, off.next)
    BY <1>5, OffVfoGInv
  <2>3. \A w \in VFO : Counts(w) => Counts(w)'
    BY <2>1, <2>2, RequestCounts
  <2>. QED
    BY <2>1, <2>3, SessionKept
<1>6. ASSUME NEW r \in Rigs, Drain(r) \/ Take(r) \/ Execute(r) PROVE SessionHeld'
  BY <1>1, <1>6 DEF Drain, Take, Execute, switches
<1>7. CASE AccountingFailed
  <2>1. stop_pending' = TRUE
    BY <1>7 DEF AccountingFailed
  <2>. QED
    BY <2>1 DEF SessionHeld, Counts
<1>. QED
  BY <1>2, <1>3, <1>4, <1>5, <1>6, <1>7, KeyDownSession, DisconnectSession, EndOffSession,
     CompleteSession DEF Next, WorkerStep

\* It holds at the start.
LEMMA InitSession ==
  ASSUME Init
  PROVE  SessionHeld
<1>1. \A v \in VFO : log.session[v] = 0
  BY DEF Init, EmptyLog
<1>. QED
  BY <1>1 DEF SessionHeld
----------------------------------------------------------------------------
(* The theorems *)

\* Everything that is said of a transmission from its key-down to its row.
Transmission ==
  PInv /\ GInv /\ LiveLast /\ TInv /\ AInv /\ LogSound /\ SessionHeld

\* "Strict" accounting loses no row: every row that is open in the database is
\* the current one of a VFO, or transmission is locked, whatever is forced,
\* retried, superseded or outlived by its operator (db.pttlog.c).
THEOREM PttRowsClosed == Spec => []RowsClosed
<1>1. Init => PInv /\ LogSound
  BY InitPInv, InitLog
<1>2. PInv /\ LogSound /\ [Next]_vars => LogSound'
  BY StepLog
<1>3. LogSound => RowsClosed
  BY DEF LogSound
<1>. QED
  BY <1>1, <1>2, <1>3, PttInvariant, PTL DEF Spec

\* The invariant of the transmissions, for one rig or without the emergency
\* stop: every action of ptt.c and of its callers keeps it.
THEOREM TransmissionInvariant ==
  ASSUME OneStop
  PROVE  Spec => []Transmission
<1>1. Init => Transmission
  BY InitPInv, InitGInv, InitT, InitAir, InitLog, InitSession DEF Transmission
<1>2. PInv /\ PInv' /\ Transmission /\ [Next]_vars => Transmission'
  BY StepGInv, StepLast, StepT, StepAir, StepLog, StepSession DEF Transmission
<1>. QED
  BY <1>1, <1>2, PttInvariant, PTL DEF Spec

\* No phantom talker: whoever holds the channel has a key-down that is pending
\* or a transmission that the radio confirmed (ptt_worker_completed).
THEOREM PttNoPhantomTalker ==
  ASSUME OneStop
  PROVE  Spec => []NoPhantomTalker
<1>1. Transmission => NoPhantomTalker
  <2>. SUFFICES ASSUME Transmission, talker # NoClient, off = NoLoop
                PROVE  \/ \E r \in Rigs : confirmed[r][ptt_vfo]
                       \/ \E p \in Elems(pending) : /\ p.on /\ p.owner = talker /\ p.vfo = ptt_vfo
                                                    /\ ~p.superseded
    BY DEF NoPhantomTalker
  <2>1. PInv /\ GInv /\ TInv
    BY DEF Transmission
  <2>2. ASSUME NEW p \in Elems(pending), Live(p)
        PROVE  p.on /\ p.owner = talker /\ p.vfo = ptt_vfo /\ ~p.superseded
    BY <2>1, <2>2, LiveTalker DEF Live
  <2>3. CASE NoneLive(pending)
    <3>1. ptt_rig \in Rigs /\ ptt_vfo \in VFO
      BY <2>1 DEF GInv, TalkerRig, PInv, Typed
    <3>2. Held(ptt_rig, ptt_vfo)
      BY <2>3 DEF Held
    <3>. QED
      BY <2>1, <3>1, <3>2 DEF TInv, HeldConfirmed
  <2>. QED
    BY <2>2, <2>3 DEF NoneLive
<1>. QED
  BY <1>1, TransmissionInvariant, PTL

\* Two transmissions are never confirmed at the same time, on any rigs and VFOs
\* (the talker check of the protocol layer and rr_ptt_request).
THEOREM PttOneTransmission ==
  ASSUME OneStop
  PROVE  Spec => []OneTransmission
<1>1. Transmission => OneTransmission
  BY DEF Transmission, TInv
<1>. QED
  BY <1>1, TransmissionInvariant, PTL

\* A transmitter that is on the air is accounted for: its transmission is
\* confirmed, its last command failed, or a command is underway for it.
THEOREM PttAirAccounted ==
  ASSUME OneStop
  PROVE  Spec => []AirAccounted
<1>1. Transmission => AirAccounted
  <2>. SUFFICES ASSUME Transmission, NEW r \in Rigs, NEW v \in VFO, tx[r][v]
                PROVE  \/ confirmed[r][v] \/ failed_last[r][v]
                       \/ ReleaseUnderway(r, v) \/ KeyDownUnderway(r, v)
    BY DEF AirAccounted
  <2>1. PInv /\ Traced(r, v)
    BY DEF Transmission, AInv, AirTraced
  <2>2. CASE InHand(running[r], queue[r], v)
    BY <2>2 DEF InHand, ReleaseUnderway
  <2>3. CASE FreshIn(LineIn(jobs, done, r), v)
    <3>1. PICK y \in Elems(LineIn(jobs, done, r)) : y.on /\ y.vfo = v
      BY <2>3 DEF FreshIn, Elems
    <3>2. y.rig = r /\ y \in Elems(done[r]) \cup Elems(jobs)
      BY <2>1, <3>1, LineType
    <3>. QED
      BY <3>1, <3>2 DEF KeyDownUnderway
  <2>. QED
    BY <2>1, <2>2, <2>3 DEF Traced
<1>. QED
  BY <1>1, TransmissionInvariant, PTL

\* A release that is pending is underway.
LEMMA PendingUnderway ==
  ASSUME PInv, NEW r \in Rigs, NEW v, ReleasePending(pending, r, v)
  PROVE  ReleaseUnderway(r, v)
<1>1. CASE InHand(running[r], queue[r], v)
  BY <1>1 DEF InHand, ReleaseUnderway
<1>2. ASSUME NEW y \in Elems(LineIn(jobs, done, r)), y.vfo = v, ~y.on
      PROVE  ReleaseUnderway(r, v)
  <2>1. y.rig = r /\ y \in Elems(done[r]) \cup Elems(jobs)
    BY <1>2, LineType
  <2>. QED
    BY <1>2, <2>1 DEF ReleaseUnderway
<1>. QED
  BY <1>1, <1>2, PendingInHand

\* The session table is billable: an entry belongs to a confirmed transmission,
\* or to one whose release is underway or to be retried, which will close it.
THEOREM PttSessionsReal ==
  ASSUME OneStop
  PROVE  Spec => []SessionsReal
<1>1. Transmission => SessionsReal
  <2>. SUFFICES ASSUME Transmission, ~dying, NEW v \in VFO, log.session[v] # 0
                PROVE  \E r \in Rigs : confirmed[r][v] \/ ReleaseUnderway(r, v) \/ stop_pending
    BY DEF SessionsReal
  <2>1. PInv /\ GInv /\ TInv /\ Counts(v)
    BY DEF Transmission, SessionHeld
  <2>2. CASE stop_pending
    BY <2>2, PttAssumption
  <2>3. ASSUME NEW r \in Rigs, Held(r, v) PROVE confirmed[r][v] \/ ReleaseUnderway(r, v)
    <3>1. CASE off = NoLoop
      BY <2>1, <2>3, <3>1 DEF TInv, HeldConfirmed
    <3>2. CASE off # NoLoop
      <4>1. Target = r
        BY <2>3, PttAssumption DEF Held, Target
      <4>2. CASE off.next <= v
        BY <3>2, <4>1, <4>2 DEF ReleaseUnderway
      <4>3. CASE ~(off.next <= v)
        <5>1. v < off.next
          <6>1. off.next \in Nat /\ v \in Nat
            BY <2>1, <3>2, LogAssumption DEF PInv, Typed, Loop, VFO
          <6>. QED
            BY <4>3, <6>1
        <5>2. ReleasePending(pending, Target, v)
          BY <2>1, <3>2, <5>1 DEF GInv, LoopPending
        <5>. QED
          BY <2>1, <4>1, <5>2, PendingUnderway
      <4>. QED
        BY <4>2, <4>3
    <3>. QED
      BY <3>1, <3>2
  <2>4. ASSUME NEW q \in Elems(pending), ~q.on, q.vfo = v
        PROVE  \E r \in Rigs : ReleaseUnderway(r, v)
    <3>1. q.rig \in Rigs
      <4>1. pending \in Seq(Pending)
        BY <2>1 DEF PInv, Ordered, Lines
      <4>2. q \in Pending
        BY <4>1 DEF Elems
      <4>. QED
        BY <4>2 DEF Pending
    <3>2. ReleasePending(pending, q.rig, v)
      BY <2>4 DEF ReleasePending
    <3>. QED
      BY <2>1, <3>1, <3>2, PendingUnderway
  <2>. QED
    BY <2>1, <2>2, <2>3, <2>4 DEF Counts
<1>. QED
  BY <1>1, TransmissionInvariant, PTL

----------------------------------------------------------------------------
(***************************************************************************)
(* Operators of linked servers, for every number of sessions, connections  *)
(* and VFOs: what a session does to transmit control is a step of Ptt, or  *)
(* only forgets the row of a connection, so that the invariants of Ptt     *)
(* hold here too; and a transmission whose operator is gone ends.          *)
(***************************************************************************)

(* Steps of a session are steps of transmit control *)

\* No closed session still holds the transmitter.
KeptFree ==
  /\ kept \in [Remote -> VFO \cup {NoVfo}]
  /\ \A c \in Remote : kept[c] = NoVfo

\* A closed session that held nothing: only its row is forgotten.
ForgetRow ==
  /\ \E c \in Clients, ok \in BOOLEAN :
       log' = Forget(LogStopAll(log, c, {}, ok), c) /\ AfterWrites(ok)
  /\ UNCHANGED <<talker, ptt_vfo, ptt_rig, tx_blocked, tot, dying, pending, off, jobs,
                 worker, radio, history>>

\* Marking the requests of a connection that has none changes nothing.
LEMMA OrphanNone ==
  ASSUME NEW q \in Seq(Pending), NEW c, \A p \in Elems(q) : p.owner # c
  PROVE  Orphan(q, c) = q
<1>1. /\ Len(q) \in Nat /\ q = [i \in 1..Len(q) |-> q[i]]
      /\ \A i \in 1..Len(q) : q[i] \in Pending /\ q[i].owner # c
  BY DEF Elems
<1>2. ASSUME NEW p \in Pending, p.owner # c
      PROVE  [id |-> p.id, rig |-> p.rig, vfo |-> p.vfo, on |-> p.on,
              owner |-> IF p.owner = c THEN NoClient ELSE p.owner,
              superseded |-> p.superseded \/ (p.owner = c /\ p.on)] = p
  <2>1. p.superseded \in BOOLEAN
    BY DEF Pending
  <2>2. (p.superseded \/ (p.owner = c /\ p.on)) = p.superseded
    BY <1>2, <2>1, Zenon
  <2>3. (IF p.owner = c THEN NoClient ELSE p.owner) = p.owner
    BY <1>2
  <2>4. p = [id |-> p.id, rig |-> p.rig, vfo |-> p.vfo, on |-> p.on,
             owner |-> p.owner, superseded |-> p.superseded]
    BY DEF Pending
  <2>. QED
    BY <2>2, <2>3, <2>4
<1>3. \A i \in 1..Len(q) :
        [id |-> q[i].id, rig |-> q[i].rig, vfo |-> q[i].vfo, on |-> q[i].on,
         owner |-> IF q[i].owner = c THEN NoClient ELSE q[i].owner,
         superseded |-> q[i].superseded \/ (q[i].owner = c /\ q[i].on)] = q[i]
  BY <1>1, <1>2
<1>4. Orphan(q, c) = [i \in 1..Len(q) |-> q[i]]
  BY <1>3, Zenon DEF Orphan
<1>. QED
  BY <1>1, <1>4

\* rr_relay_remove_remote: the release it requests is accepted, so that it is a
\* key-up or a disconnect, or the session held nothing.
LEMMA RemoveIs ==
  ASSUME PInv, KeptFree, NEW c \in Remote, RemoveRemote(c)
  PROVE  /\ KeptFree'
         /\ KeyUp \/ Disconnect(c) \/ ForgetRow \/ UNCHANGED vars
<1>1. /\ Idle /\ UNCHANGED <<ptt_rig, tx_blocked, tot, dying, off, jobs, radio, history>>
      /\ IF talker = c THEN talker' = NoClient /\ ptt_vfo' = NoVfo
                       ELSE UNCHANGED <<talker, ptt_vfo>>
  BY DEF RemoveRemote
<1>2. /\ c \in Clients /\ c # NoClient /\ kept[c] = NoVfo
      /\ kept \in [Remote -> VFO \cup {NoVfo}] /\ NoVfo \notin VFO
  BY RelayAssumption, LogAssumption DEF KeptFree, VFO, NoVfo
<1>3. pending \in Seq(Pending) /\ Relabelled(pending, pending) /\ Relabelled(pending, Orphan(pending, c))
  BY SameRelabelled, OrphanIs DEF PInv, Ordered, Lines
<1>4. PICK informed \in BOOLEAN, rejected \in BOOLEAN :
        LET v == IF talker = c THEN ptt_vfo ELSE kept[c]
            q == IF informed THEN Orphan(pending, c) ELSE pending
        IN  /\ IF v # NoVfo
                 THEN /\ RequestRelease(q, v, NoClient, rejected)
                      /\ kept' = [kept EXCEPT ![c] = IF rejected THEN v ELSE NoVfo]
                 ELSE pending' = q /\ ~rejected /\ UNCHANGED <<kept, worker>>
            /\ IF informed
                 THEN \E ok \in BOOLEAN :
                        /\ log' = Forget(LogStopAll(log, c, {w \in VFO : log.owner[w] = c}, ok), c)
                        /\ AfterWrites(ok)
                 ELSE UNCHANGED <<log, accounting_locked, stop_pending>>
  BY DEF RemoveRemote
<1>5. CASE talker = c
  <2>1. ptt_vfo \in VFO /\ ptt_vfo # NoVfo /\ NoClient \in Client
    BY <1>2, <1>5 DEF PInv, Typed, Client
  <2>2. CASE informed
    <3>1. /\ RequestRelease(Orphan(pending, c), ptt_vfo, NoClient, rejected)
          /\ kept' = [kept EXCEPT ![c] = IF rejected THEN ptt_vfo ELSE NoVfo]
          /\ \E ok \in BOOLEAN :
               /\ log' = Forget(LogStopAll(log, c, {w \in VFO : log.owner[w] = c}, ok), c)
               /\ AfterWrites(ok)
      BY <1>4, <1>5, <2>1, <2>2
    <3>2. ~rejected
      BY <1>3, <2>1, <3>1, RequestReleaseStep DEF PInv
    <3>3. KeptFree'
      BY <1>2, <3>1, <3>2 DEF KeptFree
    <3>4. Disconnect(c)
      BY <1>1, <1>5, <3>1 DEF Disconnect
    <3>. QED
      BY <3>3, <3>4
  <2>3. CASE ~informed
    <3>1. /\ RequestRelease(pending, ptt_vfo, NoClient, rejected)
          /\ kept' = [kept EXCEPT ![c] = IF rejected THEN ptt_vfo ELSE NoVfo]
          /\ UNCHANGED <<log, accounting_locked, stop_pending>>
      BY <1>4, <1>5, <2>1, <2>3
    <3>2. ~rejected
      BY <1>3, <2>1, <3>1, RequestReleaseStep DEF PInv
    <3>3. KeptFree'
      BY <1>2, <3>1, <3>2 DEF KeptFree
    <3>4. KeyUp
      BY <1>1, <1>2, <1>5, <3>1, <3>2 DEF KeyUp, switches
    <3>. QED
      BY <3>3, <3>4
  <2>. QED
    BY <2>2, <2>3
<1>6. CASE talker # c
  <2>1. UNCHANGED <<kept, worker, talker, ptt_vfo>>
    BY <1>1, <1>2, <1>4, <1>6
  <2>2. KeptFree'
    BY <2>1 DEF KeptFree
  <2>3. CASE ~informed
    <3>1. pending' = pending /\ UNCHANGED <<log, accounting_locked, stop_pending>>
      BY <1>2, <1>4, <1>6, <2>3
    <3>. QED
      BY <1>1, <2>1, <2>2, <3>1 DEF vars, switches
  <2>4. CASE informed
    <3>1. PICK ok \in BOOLEAN :
            /\ log' = Forget(LogStopAll(log, c, {w \in VFO : log.owner[w] = c}, ok), c)
            /\ AfterWrites(ok)
      BY <1>4, <2>4
    <3>2. pending' = Orphan(pending, c)
      BY <1>2, <1>4, <1>6, <2>4
    <3>3. CASE (\E p \in Elems(pending) : p.owner = c) \/ (\E v \in VFO : log.owner[v] = c)
      <4>1. Disconnect(c)
        BY <1>1, <1>6, <2>1, <3>1, <3>2, <3>3 DEF Disconnect
      <4>. QED
        BY <2>2, <4>1
    <3>4. CASE (\A p \in Elems(pending) : p.owner # c) /\ (\A v \in VFO : log.owner[v] # c)
      <4>1. pending' = pending
        BY <1>3, <3>2, <3>4, OrphanNone
      <4>2. {w \in VFO : log.owner[w] = c} = {}
        BY <3>4
      <4>3. log' = Forget(LogStopAll(log, c, {}, ok), c)
        BY <3>1, <4>2
      <4>4. ForgetRow
        BY <1>1, <1>2, <2>1, <3>1, <4>1, <4>3 DEF ForgetRow
      <4>. QED
        BY <2>2, <4>4
    <3>. QED
      BY <3>3, <3>4
  <2>. QED
    BY <2>3, <2>4
<1>. QED
  BY <1>5, <1>6

\* Every step of RelayNext is one of transmit control, or forgets a row.  The
\* server does not shut down here.
LEMMA RelayStep ==
  ASSUME PInv, KeptFree, [RelayNext]_<<vars, relay>>
  PROVE  /\ KeptFree' /\ dying' = dying
         /\ [Next]_vars \/ ForgetRow
<1>1. CASE UNCHANGED <<vars, relay>>
  BY <1>1 DEF KeptFree, vars, switches, relay
<1>2. KeyUp => dying' = dying
  BY DEF KeyUp, switches
<1>3. CASE Control /\ KeepTime /\ UNCHANGED <<way, kept>>
  <2>1. KeptFree'
    BY <1>3 DEF KeptFree
  <2>2. CASE KeyUp
    BY <1>2, <2>1, <2>2 DEF Next
  <2>3. CASE ForceOff \/ TalkTimeout \/ RetryStop \/ OffVfo \/ EndOff
    <3>1. dying' = dying
      BY <2>3 DEF ForceOff, TalkTimeout, RetryStop, OffVfo, EndOff, switches
    <3>. QED
      BY <2>1, <2>3, <3>1 DEF Next
  <2>4. ASSUME NEW r \in Rigs, Drain(r) PROVE dying' = dying /\ Next
    BY <2>4 DEF Drain, switches, Next
  <2>5. CASE Complete
    <3>1. \E j : Replay(j)
      <4>1. PICK j \in Elems(jobs) :
              \/ DropResult(j)
              \/ \E p \in Elems(pending) :
                   \/ CancelStale(j, p) \/ RejectKeyDown(j, p) \/ ConfirmKeyDown(j, p)
                   \/ LockKeyDown(j, p) \/ FailRelease(j, p) \/ ConfirmRelease(j, p)
        BY <2>5 DEF Complete
      <4>2. DropResult(j) => Replay(j)
        BY DEF DropResult
      <4>3. ASSUME NEW p, \/ CancelStale(j, p) \/ RejectKeyDown(j, p) \/ ConfirmKeyDown(j, p)
                          \/ LockKeyDown(j, p) \/ FailRelease(j, p) \/ ConfirmRelease(j, p)
            PROVE  Completed(j, p)
        BY <4>3 DEF CancelStale, RejectKeyDown, ConfirmKeyDown, LockKeyDown, FailRelease, ConfirmRelease
      <4>4. \A p : Completed(j, p) => Replay(j)
        BY DEF Completed
      <4>. QED
        BY <4>1, <4>2, <4>3, <4>4
    <3>2. dying' = dying
      BY <3>1 DEF Replay
    <3>. QED
      BY <2>1, <2>5, <3>2 DEF Next
  <2>6. CASE AccountingFailed
    BY <2>1, <2>6 DEF AccountingFailed, Next
  <2>7. CASE WorkerStep
    <3>1. dying' = dying
      BY <2>7 DEF WorkerStep, Take, Execute, switches
    <3>. QED
      BY <2>1, <2>7, <3>1 DEF Next
  <2>. QED
    BY <1>3, <2>1, <2>2, <2>3, <2>4, <2>5, <2>6, <2>7 DEF Control
<1>4. ASSUME NEW c \in Remote, NEW w, Subscribe(c, w) PROVE KeptFree' /\ UNCHANGED vars
  BY <1>4 DEF Subscribe, KeptFree
<1>5. ASSUME NEW c \in Remote, Unsubscribe(c) \/ Frame(c) \/ Silence(c)
      PROVE  KeptFree' /\ UNCHANGED vars
  BY <1>5 DEF Unsubscribe, Frame, Silence, KeptFree
<1>6. ASSUME NEW c \in Remote, NEW w, NEW force, Detach(c, w, force)
      PROVE  KeptFree' /\ (KeyUp \/ UNCHANGED vars)
  BY <1>6 DEF Detach, KeptFree
<1>7. ASSUME NEW c \in Remote, NEW r \in Rigs, NEW v \in VFO, RemoteKeyDown(c, r, v)
      PROVE  KeptFree' /\ KeyDown(c, r, v) /\ dying' = dying /\ c \in Clients
  BY <1>7, RelayAssumption DEF RemoteKeyDown, KeptFree, KeyDown, switches
<1>8. ASSUME NEW c \in Remote, retry_remote_ptt(c) PROVE KeptFree' /\ KeyUp
  BY <1>8 DEF retry_remote_ptt, KeptFree
<1>9. ASSUME NEW c \in Remote, RemoveRemote(c)
      PROVE  /\ KeptFree' /\ c \in Clients /\ dying' = dying
             /\ KeyUp \/ Disconnect(c) \/ ForgetRow \/ UNCHANGED vars
  BY <1>9, RemoveIs, RelayAssumption DEF RemoveRemote
<1>10. UNCHANGED vars => dying' = dying
  BY DEF vars, switches
<1>11. ASSUME NEW c \in Remote,
              \/ \E w \in {"proxy", "direct"} : Subscribe(c, w)
              \/ Unsubscribe(c) \/ Frame(c) \/ Silence(c)
              \/ \E w \in Way, force \in BOOLEAN : Detach(c, w, force)
              \/ \E r \in Rigs, v \in VFO : RemoteKeyDown(c, r, v)
              \/ retry_remote_ptt(c) \/ RemoveRemote(c)
       PROVE  KeptFree' /\ dying' = dying /\ ([Next]_vars \/ ForgetRow)
  <2>1. CASE \E w \in {"proxy", "direct"} : Subscribe(c, w)
    BY <1>4, <1>10, <2>1
  <2>2. CASE Unsubscribe(c) \/ Frame(c) \/ Silence(c)
    BY <1>5, <1>10, <2>2
  <2>3. CASE \E w \in Way, force \in BOOLEAN : Detach(c, w, force)
    BY <1>2, <1>6, <1>10, <2>3 DEF Next
  <2>4. CASE \E r \in Rigs, v \in VFO : RemoteKeyDown(c, r, v)
    BY <1>7, <2>4 DEF Next
  <2>5. CASE retry_remote_ptt(c)
    BY <1>2, <1>8, <2>5 DEF Next
  <2>6. CASE RemoveRemote(c)
    BY <1>9, <2>6 DEF Next
  <2>. QED
    BY <1>11, <2>1, <2>2, <2>3, <2>4, <2>5, <2>6
<1>. QED
  BY <1>1, <1>3, <1>11 DEF RelayNext

\* Forgetting a row concerns nothing that is said of transmissions.
LEMMA ForgetKeeps ==
  ASSUME PInv, GInv, LiveLast, TInv, ForgetRow
  PROVE  PInv' /\ GInv' /\ LiveLast' /\ TInv'
<1>1. UNCHANGED <<talker, ptt_vfo, ptt_rig, tx_blocked, tot, dying, pending, off, jobs, queue,
                  running, done, outstanding, halted, tx, confirmed, failed_last, unreleased>>
  BY DEF ForgetRow, worker, radio, history
<1>2. PInv'
  BY <1>1, QuietStep
<1>3. GInv'
  BY <1>1, QuietGInv
<1>4. LiveLast'
  BY <1>1 DEF LiveLast
<1>5. TInv'
  BY <1>1 DEF TInv, ConfirmedType, ConfirmedHeld, PendingCloses, HeldConfirmed, OneTransmission,
              Held, Closing
<1>. QED
  BY <1>2, <1>3, <1>4, <1>5

----------------------------------------------------------------------------
(* A release that was acknowledged ends the transmission *)

\* Line L reports to somebody that a release of v succeeded.
AcknowledgedIn(L, v) == \E y \in Elems(L) : y.vfo = v /\ ~y.on /\ ~y.failed /\ y.pend # 0

\* Then v is not confirmed any more.
NoneAcknowledged ==
  \A r \in Rigs, v \in VFO : confirmed[r][v] => ~AcknowledgedIn(LineIn(jobs, done, r), v)

\* A step that adds results of key-downs only.
OnlyKeyDowns ==
  \A r \in Rigs : \A y \in Elems(LineIn(jobs', done', r)) :
    y.on \/ y \in Elems(LineIn(jobs, done, r))

\* A line that grows, grows by results of key-downs.
LEMMA GrowsKeyDowns ==
  ASSUME NEW L \in Seq(Result), NEW M, LineGrows(L, M)
  PROVE  \A y \in Elems(M) : y.on \/ y \in Elems(L)
<1>1. PICK E \in Seq(Result) : M = L \o E /\ \A i \in 1..Len(E) : E[i].on /\ E[i].pend # 0
  BY DEF LineGrows
<1>2. Elems(M) = Elems(L) \cup Elems(E)
  BY <1>1, ConcatElems
<1>3. \A y \in Elems(E) : y.on
  BY <1>1 DEF Elems
<1>. QED
  BY <1>2, <1>3

\* A request to release.
LEMMA RequestResults ==
  ASSUME PInv, NEW v \in VFO, NEW owner \in Client, NEW q, Relabelled(pending, q),
         NEW rejected, RequestRelease(q, v, owner, rejected), UNCHANGED jobs
  PROVE  OnlyKeyDowns
<1>1. Target \in Rigs /\ pending \in Seq(Pending) /\ jobs \in Seq(Result)
  BY TargetRig DEF PInv, Ordered, Lines
<1>. DEFINE t == Target
            n == outstanding[Target]
            k == NewId
<1>2. k \in Nat /\ t \in Rigs
  BY <1>1, NewIdFresh
<1>3. UNCHANGED worker \/ SubmitRelease(t, v, k, n)
  BY DEF RequestRelease
<1>. HIDE DEF t, n, k
<1>4. CASE UNCHANGED worker
  BY <1>4 DEF OnlyKeyDowns, worker
<1>5. CASE SubmitRelease(t, v, k, n)
  <2>1. Submitted(t, v, k, done, running, queue, done', running', queue')
    BY <1>2, <1>5, SubmitIs DEF PInv
  <2>2. \A s \in Rigs : LineGrows(LineIn(jobs, done, s), LineIn(jobs, done', s))
    BY <1>1, <1>2, <2>1, LineSubmit
  <2>3. \A s \in Rigs : LineIn(jobs, done, s) \in Seq(Result)
    BY LineType
  <2>. QED
    BY <2>2, <2>3, GrowsKeyDowns DEF OnlyKeyDowns
<1>. QED
  BY <1>3, <1>4, <1>5

\* A result is replayed.
LEMMA ReplayResults ==
  ASSUME PInv, NEW j, Replay(j),
         \/ UNCHANGED <<queue, running, done>>
         \/ j.vfo \in VFO /\ \E n : UntrackedRelease(j.rig, j.vfo, n)
  PROVE  OnlyKeyDowns
<1>1. jobs' = Tail(jobs)
  BY DEF Replay
<1>2. /\ j.rig \in Rigs /\ LineLed(j, LineIn(jobs, done, j.rig), LineIn(Tail(jobs), done, j.rig))
      /\ \A s \in Rigs : s # j.rig => LineIn(Tail(jobs), done, s) = LineIn(jobs, done, s)
  BY LineReplay
<1>3. \A s \in Rigs : Elems(LineIn(Tail(jobs), done, s)) \subseteq Elems(LineIn(jobs, done, s))
  BY <1>2, FreshLed
<1>4. /\ Tail(jobs) \in Seq(Result)
      /\ \A s \in Rigs : LineIn(Tail(jobs), done, s) \in Seq(Result)
  <2>1. Tail(jobs) \in Seq(Result) /\ done \in [Rigs -> Seq(Result)]
    BY FirstResult, TailElems DEF PInv, Ordered, Lines
  <2>2. \A s \in Rigs : JobsOf(Tail(jobs), s) \in Seq(Result) /\ done[s] \in Seq(Result)
    BY <2>1, JobsOfType
  <2>. QED
    BY <2>1, <2>2 DEF LineIn
<1>5. CASE UNCHANGED <<queue, running, done>>
  BY <1>1, <1>3, <1>5 DEF OnlyKeyDowns
<1>6. ASSUME j.vfo \in VFO, NEW n, SubmitRelease(j.rig, j.vfo, 0, n) PROVE OnlyKeyDowns
  <2>. DEFINE k == 0
  <2>1. k \in Nat /\ SubmitRelease(j.rig, j.vfo, k, n)
    BY <1>6
  <2>. HIDE DEF k
  <2>2. Submitted(j.rig, j.vfo, k, done, running, queue, done', running', queue')
    BY <1>2, <1>6, <2>1, SubmitIs DEF PInv
  <2>3. \A s \in Rigs : LineGrows(LineIn(Tail(jobs), done, s), LineIn(Tail(jobs), done', s))
    BY <1>2, <1>4, <2>2, LineSubmit
  <2>4. \A s \in Rigs : \A y \in Elems(LineIn(Tail(jobs), done', s)) :
           y.on \/ y \in Elems(LineIn(Tail(jobs), done, s))
    BY <1>4, <2>3, GrowsKeyDowns
  <2>. QED
    BY <1>1, <1>3, <2>4 DEF OnlyKeyDowns
<1>. QED
  BY <1>5, <1>6 DEF UntrackedRelease

\* Nothing but the hardware call reports of a release.
LEMMA StepResults ==
  ASSUME PInv, GInv, [Next]_vars, \A r \in Rigs : ~Execute(r)
  PROVE  OnlyKeyDowns
<1>1. ASSUME UNCHANGED <<jobs, done>> PROVE OnlyKeyDowns
  BY <1>1 DEF OnlyKeyDowns
<1>2. CASE UNCHANGED vars
  BY <1>1, <1>2 DEF vars, worker
<1>3. pending \in Seq(Pending) /\ NoClient \in Client /\ talker \in Client
      /\ (talker # NoClient => ptt_vfo \in VFO)
  BY DEF PInv, Ordered, Lines, Client, Typed
<1>4. ASSUME NEW c \in Clients, NEW r \in Rigs, NEW v \in VFO, KeyDown(c, r, v) PROVE OnlyKeyDowns
  BY <1>1, <1>4 DEF KeyDown, worker, SubmitKeyDown
<1>5. CASE KeyUp
  <2>1. /\ \E rejected \in BOOLEAN : RequestRelease(pending, ptt_vfo, NoClient, rejected)
        /\ ptt_vfo \in VFO /\ UNCHANGED jobs
    BY <1>3, <1>5 DEF KeyUp
  <2>. QED
    BY <1>3, <2>1, SameRelabelled, RequestResults
<1>6. ASSUME NEW c \in Clients, Disconnect(c) PROVE OnlyKeyDowns
  <2>1. UNCHANGED jobs
    BY <1>6 DEF Disconnect
  <2>2. CASE c = talker
    <3>1. PICK rejected \in BOOLEAN : RequestRelease(Orphan(pending, c), ptt_vfo, NoClient, rejected)
      BY <1>6, <2>2 DEF Disconnect
    <3>2. ptt_vfo \in VFO
      BY <1>3, <2>2, LogAssumption
    <3>. QED
      BY <1>3, <2>1, <3>1, <3>2, OrphanIs, RequestResults
  <2>3. CASE c # talker
    BY <1>1, <1>6, <2>1, <2>3 DEF Disconnect, worker
  <2>. QED
    BY <2>2, <2>3
<1>7. CASE \/ ForceOff \/ Fault \/ TalkTimeout \/ RetryStop \/ Shutdown
           \/ \E r \in Rigs : EstopTrip(r) \/ EstopReset(r)
  <2>1. PICK why, r : StartOff(why, r)
    BY <1>7, LoopStartIs
  <2>. QED
    BY <1>1, <2>1 DEF StartOff, worker
<1>8. CASE OffVfo
  <2>1. PICK rejected \in BOOLEAN : RequestRelease(pending, off.next, talker, rejected)
    BY <1>8 DEF OffVfo
  <2>2. off.next \in VFO /\ UNCHANGED jobs
    BY <1>8, OffVfoGInv DEF OffVfo
  <2>. QED
    BY <1>3, <2>1, <2>2, SameRelabelled, RequestResults
<1>9. CASE EndOff \/ AccountingFailed
  BY <1>1, <1>9 DEF EndOff, AccountingFailed, worker
<1>10. ASSUME NEW r \in Rigs, Drain(r) PROVE OnlyKeyDowns
  BY <1>10, LineDrain DEF OnlyKeyDowns
<1>11. ASSUME NEW r \in Rigs, Take(r) PROVE OnlyKeyDowns
  <2>1. jobs' = jobs
    BY <1>11 DEF Take
  <2>2. CASE done' = done
    BY <1>1, <2>1, <2>2
  <2>3. ASSUME NEW F, ResultsOf(F, r, Head(queue[r])), done' = [done EXCEPT ![r] = done[r] \o F],
               Head(queue[r]).on
        PROVE  OnlyKeyDowns
    <3>1. F \in Seq(Result) /\ \A y \in Elems(F) : y.on
      BY <2>3 DEF ResultsOf, Elems
    <3>2. Appended(done, done', r, F)
      BY <2>3 DEF Appended
    <3>3. /\ LineIn(jobs, done', r) = LineIn(jobs, done, r) \o F
          /\ \A s \in Rigs : s # r => LineIn(jobs, done', s) = LineIn(jobs, done, s)
      BY <3>1, <3>2, WorkerAppends
    <3>4. LineIn(jobs, done, r) \in Seq(Result)
      BY LineType
    <3>5. Elems(LineIn(jobs, done', r)) = Elems(LineIn(jobs, done, r)) \cup Elems(F)
      BY <3>1, <3>3, <3>4, ConcatElems
    <3>. QED
      BY <2>1, <3>1, <3>3, <3>5 DEF OnlyKeyDowns
  <2>. QED
    BY <1>11, <2>2, <2>3, TakeIs
<1>12. CASE Complete
  <2>1. PICK j \in Elems(jobs) :
          \/ DropResult(j)
          \/ \E p \in Elems(pending) :
               \/ CancelStale(j, p) \/ RejectKeyDown(j, p) \/ ConfirmKeyDown(j, p)
               \/ LockKeyDown(j, p) \/ FailRelease(j, p) \/ ConfirmRelease(j, p)
    BY <1>12 DEF Complete
  <2>2. CASE DropResult(j)
    BY <2>2, ReplayResults DEF DropResult, CountOut
  <2>3. ASSUME NEW p, CancelStale(j, p) PROVE FALSE
    BY <2>3, CompletedIs DEF CancelStale
  <2>4. ASSUME NEW p, Completed(j, p) PROVE Replay(j) /\ j.vfo \in VFO
    BY <2>4, CompletedIs, UnlinkFirst DEF PInv
  <2>5. ASSUME NEW p, RejectKeyDown(j, p) \/ LockKeyDown(j, p) PROVE OnlyKeyDowns
    <3>1. Completed(j, p) /\ UntrackedRelease(j.rig, j.vfo, outstanding[j.rig] - 1)
      BY <2>5 DEF RejectKeyDown, LockKeyDown
    <3>. QED
      BY <2>4, <3>1, ReplayResults
  <2>6. ASSUME NEW p, ConfirmKeyDown(j, p) \/ FailRelease(j, p) \/ ConfirmRelease(j, p)
        PROVE  OnlyKeyDowns
    <3>1. Completed(j, p) /\ UNCHANGED <<queue, running, done>>
      BY <2>6 DEF ConfirmKeyDown, FailRelease, ConfirmRelease, CountOut
    <3>. QED
      BY <2>4, <3>1, ReplayResults
  <2>. QED
    BY <2>1, <2>2, <2>3, <2>5, <2>6
<1>. QED
  BY <1>2, <1>4, <1>5, <1>6, <1>7, <1>8, <1>9, <1>10, <1>11, <1>12 DEF Next, WorkerStep

\* A step that confirms nothing and adds no release.
LEMMA AcknowledgedKept ==
  ASSUME NoneAcknowledged, OnlyKeyDowns, \A r \in Rigs, v \in VFO : confirmed'[r][v] => confirmed[r][v]
  PROVE  NoneAcknowledged'
BY DEF NoneAcknowledged, OnlyKeyDowns, AcknowledgedIn

\* The radio acknowledges a release: the transmission has ended.
LEMMA ExecuteAcknowledged ==
  ASSUME PInv, TInv, NoneAcknowledged, NEW r \in Rigs, Execute(r)
  PROVE  NoneAcknowledged' /\ \A s \in Rigs, v \in VFO : confirmed'[s][v] => confirmed[s][v]
<1>1. jobs' = jobs
  BY DEF Execute
<1>. DEFINE x == running[r]
            u == x.vfo
<1>2. /\ x \in Job /\ x \in Job \cup {NoJob}
      /\ \E f \in BOOLEAN : \E F :
           /\ ResultsOf(F, r, x) /\ done' = [done EXCEPT ![r] = done[r] \o F]
           /\ F = Finished(r, x, f)
           /\ IF ~x.on /\ ~f THEN confirmed' = [confirmed EXCEPT ![r][u] = FALSE]
                             ELSE confirmed' = confirmed
  BY ExecuteIs
<1>3. u \in VFO /\ x.on \in BOOLEAN
  BY <1>2, JobType
<1>4. PICK f \in BOOLEAN : \E F :
           /\ ResultsOf(F, r, x) /\ done' = [done EXCEPT ![r] = done[r] \o F]
           /\ F = Finished(r, x, f)
           /\ IF ~x.on /\ ~f THEN confirmed' = [confirmed EXCEPT ![r][u] = FALSE]
                             ELSE confirmed' = confirmed
  BY <1>2
<1>5. PICK F : /\ ResultsOf(F, r, x) /\ done' = [done EXCEPT ![r] = done[r] \o F]
               /\ F = Finished(r, x, f)
               /\ IF ~x.on /\ ~f THEN confirmed' = [confirmed EXCEPT ![r][u] = FALSE]
                                 ELSE confirmed' = confirmed
  BY <1>4
<1>6. F \in Seq(Result) /\ \A y \in Elems(F) : y.vfo = u /\ y.on = x.on
  BY <1>5 DEF ResultsOf, Elems
<1>7. \A y \in Elems(F) : y.failed = f
  BY <1>5 DEF Finished, Elems
<1>8. Appended(done, done', r, F)
  BY <1>5 DEF Appended
<1>9. /\ LineIn(jobs, done', r) = LineIn(jobs, done, r) \o F
      /\ \A s \in Rigs : s # r => LineIn(jobs, done', s) = LineIn(jobs, done, s)
  BY <1>6, <1>8, WorkerAppends
<1>10. Elems(LineIn(jobs, done', r)) = Elems(LineIn(jobs, done, r)) \cup Elems(F)
  BY <1>6, <1>9, LineType, ConcatElems
<1>11. confirmed \in [Rigs -> [VFO -> BOOLEAN]]
  BY DEF TInv, ConfirmedType
<1>12. IF ~x.on /\ ~f THEN confirmed' = [confirmed EXCEPT ![r][u] = FALSE]
                      ELSE confirmed' = confirmed
  BY <1>5
<1>. HIDE DEF x, u
<1>13. \A s \in Rigs, v \in VFO : confirmed'[s][v] =>
         confirmed[s][v] /\ (~x.on /\ ~f => ~(s = r /\ v = u))
  <2>1. CASE ~x.on /\ ~f
    <3>1. confirmed' = [confirmed EXCEPT ![r][u] = FALSE]
      BY <1>12, <2>1
    <3>. QED
      BY <1>3, <1>11, <3>1
  <2>2. CASE ~(~x.on /\ ~f)
    BY <1>12, <2>2
  <2>. QED
    BY <2>1, <2>2
<1>14. ASSUME NEW s \in Rigs, NEW v \in VFO, confirmed'[s][v]
       PROVE  ~AcknowledgedIn(LineIn(jobs', done', s), v)
  <2>1. ~AcknowledgedIn(LineIn(jobs, done, s), v)
    BY <1>13, <1>14 DEF NoneAcknowledged
  <2>2. CASE s # r
    BY <1>1, <1>9, <2>1, <2>2
  <2>3. CASE s = r
    <3>1. ASSUME NEW y \in Elems(F), y.vfo = v, ~y.on, ~y.failed PROVE FALSE
      BY <1>6, <1>7, <1>13, <1>14, <2>3, <3>1
    <3>. QED
      BY <1>1, <1>10, <2>1, <2>3, <3>1 DEF AcknowledgedIn
  <2>. QED
    BY <2>2, <2>3
<1>15. NoneAcknowledged'
  BY <1>14 DEF NoneAcknowledged
<1>. QED
  BY <1>13, <1>15

\* Only the confirmation of a key-down confirms anything.
LEMMA ConfirmedBy ==
  ASSUME PInv, GInv, [Next]_vars, \A r \in Rigs : ~Execute(r)
  PROVE  confirmed' = confirmed \/ \E j, p : ConfirmKeyDown(j, p)
<1>1. CASE UNCHANGED vars
  BY <1>1 DEF vars, history
<1>2. ASSUME NEW c \in Clients, NEW r \in Rigs, NEW v \in VFO, KeyDown(c, r, v) PROVE confirmed' = confirmed
  BY <1>2 DEF KeyDown, history
<1>3. CASE KeyUp \/ (\E c \in Clients : Disconnect(c)) \/ OffVfo \/ EndOff \/ AccountingFailed
  BY <1>3 DEF KeyUp, Disconnect, OffVfo, EndOff, AccountingFailed, history
<1>4. CASE \/ ForceOff \/ Fault \/ TalkTimeout \/ RetryStop \/ Shutdown
           \/ \E r \in Rigs : EstopTrip(r) \/ EstopReset(r)
  <2>1. PICK why, r : StartOff(why, r)
    BY <1>4, LoopStartIs
  <2>. QED
    BY <2>1 DEF StartOff, history
<1>5. ASSUME NEW r \in Rigs, Drain(r) \/ Take(r) PROVE confirmed' = confirmed
  BY <1>5 DEF Drain, Take, history
<1>6. CASE Complete
  <2>1. PICK j \in Elems(jobs) :
          \/ DropResult(j)
          \/ \E p \in Elems(pending) :
               \/ CancelStale(j, p) \/ RejectKeyDown(j, p) \/ ConfirmKeyDown(j, p)
               \/ LockKeyDown(j, p) \/ FailRelease(j, p) \/ ConfirmRelease(j, p)
    BY <1>6 DEF Complete
  <2>2. DropResult(j) => confirmed' = confirmed
    BY DEF DropResult
  <2>3. ASSUME NEW p, CancelStale(j, p) \/ RejectKeyDown(j, p) \/ LockKeyDown(j, p)
                      \/ FailRelease(j, p) \/ ConfirmRelease(j, p)
        PROVE  confirmed' = confirmed
    BY <2>3 DEF CancelStale, RejectKeyDown, LockKeyDown, FailRelease, ConfirmRelease
  <2>. QED
    BY <2>1, <2>2, <2>3
<1>. QED
  BY <1>1, <1>2, <1>3, <1>4, <1>5, <1>6 DEF Next, WorkerStep

\* A result that answers a request.
LEMMA AnsweredResult ==
  ASSUME PInv, NEW r \in Rigs, NEW y \in Elems(LineIn(jobs, done, r)), y.pend # 0
  PROVE  \E z \in Elems(pending) : z.rig = r /\ z.vfo = y.vfo /\ z.on = y.on
<1>. DEFINE k == y.pend
<1>1. k # 0 /\ y.pend = k
  OBVIOUS
<1>. HIDE DEF k
<1>2. /\ \A x \in Elems(LineIn(jobs, done, r)) : x.pend = k =>
           \E z \in Elems(pending) : z.id = k /\ z.rig = r /\ z.vfo = x.vfo /\ z.on = x.on
      /\ \A i \in Elems(queue[r]) \cup {running[r]} : i # NoJob /\ Answers(i, k) =>
           \E z \in Elems(pending) : z.id = k /\ z.rig = r /\ z.vfo = i.vfo /\ z.on = i.on
  BY <1>1, AnsweredPending, Z3
<1>. QED
  BY <1>1, <1>2

\* Every action keeps it: a key-down is confirmed only when no release of its
\* VFO is left to be reported.
LEMMA StepAcknowledged ==
  ASSUME PInv, GInv, LiveLast, TInv, NoneAcknowledged, [Next]_vars
  PROVE  NoneAcknowledged'
<1>1. ASSUME NEW r \in Rigs, Execute(r) PROVE NoneAcknowledged'
  BY <1>1, ExecuteAcknowledged
<1>2. CASE \A r \in Rigs : ~Execute(r)
  <2>1. OnlyKeyDowns
    BY <1>2, StepResults
  <2>2. CASE confirmed' = confirmed
    BY <2>1, <2>2, AcknowledgedKept
  <2>3. ASSUME NEW j, NEW p, ConfirmKeyDown(j, p) PROVE NoneAcknowledged'
    <3>1. /\ Completed(j, p) /\ p.on /\ ~tx_blocked
          /\ confirmed' = [confirmed EXCEPT ![p.rig][p.vfo] = TRUE]
      BY <2>3 DEF ConfirmKeyDown, KeyDownBarred
    <3>2. p \in Elems(pending) /\ p.id = j.pend /\ Replay(j)
      BY <3>1, CompletedIs
    <3>3. p.rig \in Rigs /\ p.vfo \in VFO
      BY <3>2, UnlinkFirst DEF PInv
    <3>4. /\ \A r \in Rigs, v \in VFO : ~confirmed[r][v]
          /\ ~ReleasePending(pending, p.rig, p.vfo)
      BY <3>1, ConfirmedAlone
    <3>. DEFINE r0 == p.rig
                v0 == p.vfo
    <3>5. /\ confirmed \in [Rigs -> [VFO -> BOOLEAN]] /\ r0 \in Rigs /\ v0 \in VFO
          /\ confirmed' = [confirmed EXCEPT ![r0][v0] = TRUE]
          /\ ~ReleasePending(pending, r0, v0)
      BY <3>1, <3>3, <3>4 DEF TInv, ConfirmedType
    <3>. HIDE DEF r0, v0
    <3>6. \A r \in Rigs, v \in VFO : confirmed'[r][v] => r = r0 /\ v = v0
      BY <3>4, <3>5
    <3>7. ASSUME NEW y \in Elems(LineIn(jobs, done, r0)), y.vfo = v0, ~y.on, y.pend # 0
          PROVE  FALSE
      <4>1. PICK z \in Elems(pending) : z.rig = r0 /\ z.vfo = y.vfo /\ z.on = y.on
        BY <3>5, <3>7, AnsweredResult
      <4>. QED
        BY <3>5, <3>7, <4>1 DEF ReleasePending
    <3>8. ~AcknowledgedIn(LineIn(jobs', done', r0), v0)
      BY <2>1, <3>5, <3>7 DEF AcknowledgedIn, OnlyKeyDowns
    <3>. QED
      BY <3>6, <3>8 DEF NoneAcknowledged
  <2>. QED
    BY <1>2, <2>2, <2>3, ConfirmedBy
<1>. QED
  BY <1>1, <1>2

----------------------------------------------------------------------------
(* Every confirmed transmission is somebody's, or it is being ended *)

\* The talker has it, a release of it is pending, or the stop is retried.
Ends(r, v) == stop_pending \/ Held(r, v) \/ ReleasePending(pending, r, v)

ConfirmedEnds == ~dying => \A r \in Rigs, v \in VFO : confirmed[r][v] => Ends(r, v)

\* A step that confirms nothing and keeps these.
LEMMA EndsKept ==
  ASSUME ConfirmedEnds, dying => dying', stop_pending => stop_pending',
         \A r \in Rigs, v \in VFO :
           /\ confirmed'[r][v] => confirmed[r][v]
           /\ ReleasePending(pending, r, v) => ReleasePending(pending', r, v)
           /\ Held(r, v) => Held(r, v)' \/ ReleasePending(pending', r, v)
  PROVE  ConfirmedEnds'
<1>1. \A r \in Rigs, v \in VFO : Ends(r, v) => Ends(r, v)'
  BY DEF Ends
<1>. QED
  BY <1>1 DEF ConfirmedEnds

\* A request to release.
LEMMA RequestEnds ==
  ASSUME GInv, ConfirmedEnds, NEW v, Reduced(pending, pending', Target, v),
         UNCHANGED <<dying, confirmed>>, stop_pending => stop_pending',
         \/ talker # NoClient /\ v = ptt_vfo
         \/ UNCHANGED <<talker, ptt_vfo, ptt_rig>>
  PROVE  ConfirmedEnds'
<1>1. /\ ReleasePending(pending', Target, v) /\ (NoneLive(pending) => NoneLive(pending'))
      /\ \A r, w : ReleasePending(pending, r, w) => ReleasePending(pending', r, w)
  BY ReducedKeeps DEF Reduced
<1>2. ASSUME NEW r \in Rigs, NEW w \in VFO, Held(r, w)
      PROVE  Held(r, w)' \/ ReleasePending(pending', r, w)
  <2>1. CASE UNCHANGED <<talker, ptt_vfo, ptt_rig>>
    BY <1>1, <1>2, <2>1 DEF Held
  <2>2. CASE talker # NoClient /\ v = ptt_vfo
    <3>1. Target = r /\ v = w
      BY <1>2, <2>2, TalkerTarget DEF Held
    <3>. QED
      BY <1>1, <3>1
  <2>. QED
    BY <2>1, <2>2
<1>. QED
  BY <1>1, <1>2, EndsKept

\* A client keys: nobody was talking.
LEMMA KeyDownEnds ==
  ASSUME PInv, GInv, ConfirmedEnds, NEW c \in Clients, NEW r \in Rigs, NEW v \in VFO, KeyDown(c, r, v)
  PROVE  ConfirmedEnds'
<1>1. talker = NoClient /\ UNCHANGED <<stop_pending, dying, confirmed>>
  BY DEF KeyDown, switches, history
<1>2. Elems(pending) \subseteq Elems(pending')
  <2>1. UNCHANGED <<talker, ptt_vfo, pending, worker>> \/ \E p : KeyDownPending(p, r, v, c)
    BY KeyDownGInv
  <2>2. ASSUME NEW p, KeyDownPending(p, r, v, c) PROVE Elems(pending) \subseteq Elems(pending')
    BY <2>2 DEF KeyDownPending
  <2>3. CASE UNCHANGED <<talker, ptt_vfo, pending, worker>>
    BY <2>3
  <2>. QED
    BY <2>1, <2>2, <2>3
<1>3. \A s \in Rigs, w \in VFO : ReleasePending(pending, s, w) => ReleasePending(pending', s, w)
  BY <1>2 DEF ReleasePending
<1>. QED
  BY <1>1, <1>3, EndsKept DEF Held

\* A connection closes.
LEMMA DisconnectEnds ==
  ASSUME PInv, GInv, ConfirmedEnds, NEW c \in Clients, Disconnect(c)
  PROVE  ConfirmedEnds'
<1>1. UNCHANGED <<dying, confirmed, ptt_rig>> /\ (stop_pending => stop_pending') /\ Closed(c)
  BY DisconnectGInv DEF Disconnect, AfterWrites, history
<1>2. CASE c = talker
  <2>1. talker # NoClient /\ Reduced(pending, pending', Target, ptt_vfo)
    BY <1>1, <1>2, LogAssumption DEF Closed
  <2>. QED
    BY <1>1, <2>1, RequestEnds
<1>3. CASE c # talker
  <2>1. /\ LiveFrom(pending, pending')
        /\ \A r, w : ReleasePending(pending, r, w) <=> ReleasePending(pending', r, w)
        /\ UNCHANGED <<talker, ptt_vfo>>
    BY <1>1, <1>3 DEF Closed
  <2>2. NoneLive(pending) => NoneLive(pending')
    BY <2>1 DEF NoneLive, LiveFrom
  <2>3. \A r \in Rigs, w \in VFO : Held(r, w) => Held(r, w)'
    BY <1>1, <2>1, <2>2 DEF Held
  <2>. QED
    BY <1>1, <2>1, <2>3, EndsKept
<1>. QED
  BY <1>2, <1>3

\* A completion unlinks request p: the other transmissions are kept.
LEMMA UnlinkEnds ==
  ASSUME PInv, GInv, NEW j, Replay(j), NEW p \in Elems(pending), p.id = j.pend,
         pending' = Without(pending, {p}), stop_pending => stop_pending',
         Live(p) \/ UNCHANGED <<talker, ptt_vfo>>,
         NEW r \in Rigs, NEW v \in VFO, p.on \/ p.rig # r \/ p.vfo # v, Ends(r, v)
  PROVE  Ends(r, v)'
<1>1. Elems(pending') = Elems(pending) \ {p} /\ ptt_rig' = ptt_rig
  BY UnlinkReduces DEF Replay
<1>2. CASE stop_pending
  BY <1>2 DEF Ends
<1>3. CASE Held(r, v)
  <2>1. ~Live(p)
    BY <1>3 DEF Held, NoneLive
  <2>2. Held(r, v)'
    BY <1>1, <1>3, <2>1 DEF Held, NoneLive
  <2>. QED
    BY <2>2 DEF Ends
<1>4. CASE ReleasePending(pending, r, v)
  <2>1. PICK q \in Elems(pending) : ~q.on /\ q.rig = r /\ q.vfo = v
    BY <1>4 DEF ReleasePending
  <2>2. q \in Elems(pending')
    BY <1>1, <2>1
  <2>. QED
    BY <2>1, <2>2 DEF Ends, ReleasePending
<1>. QED
  BY <1>2, <1>3, <1>4 DEF Ends

\* A result is replayed.
LEMMA CompleteEnds ==
  ASSUME PInv, GInv, TInv, NoneAcknowledged, ConfirmedEnds, Complete
  PROVE  ConfirmedEnds'
<1>1. PICK j \in Elems(jobs) :
        \/ DropResult(j)
        \/ \E p \in Elems(pending) :
             \/ CancelStale(j, p) \/ RejectKeyDown(j, p) \/ ConfirmKeyDown(j, p)
             \/ LockKeyDown(j, p) \/ FailRelease(j, p) \/ ConfirmRelease(j, p)
  BY DEF Complete
<1>2. CASE DropResult(j)
  <2>1. /\ Replay(j)
        /\ UNCHANGED <<talker, ptt_vfo, ptt_rig, stop_pending, dying, confirmed>>
    BY <1>2 DEF DropResult, Replay
  <2>2. CASE pending' = pending
    BY <2>1, <2>2, EndsKept DEF Held
  <2>3. CASE dying
    BY <2>1, <2>3 DEF ConfirmedEnds
  <2>4. ASSUME NEW p \in Elems(pending), p.id = j.pend, pending' = Without(pending, {p}), p.on
        PROVE  ConfirmedEnds'
    <3>1. \A r \in Rigs, v \in VFO : Ends(r, v) => Ends(r, v)'
      BY <2>1, <2>4, UnlinkEnds
    <3>. QED
      BY <2>1, <3>1 DEF ConfirmedEnds
  <2>. QED
    BY <1>2, <2>2, <2>3, <2>4, DropIs
<1>3. ASSUME NEW p, CancelStale(j, p) PROVE FALSE
  BY <1>3, CompletedIs DEF CancelStale
<1>4. ASSUME NEW p, LockKeyDown(j, p) \/ FailRelease(j, p) PROVE ConfirmedEnds'
  <2>1. stop_pending' = TRUE
    BY <1>4 DEF LockKeyDown, FailRelease
  <2>. QED
    BY <2>1 DEF ConfirmedEnds, Ends
<1>5. ASSUME NEW p, Completed(j, p)
      PROVE  /\ p \in Elems(pending) /\ p.id = j.pend /\ pending' = Without(pending, {p})
             /\ Replay(j) /\ p.vfo \in VFO /\ p.rig \in Rigs /\ (p.on => Live(p)) /\ dying' = dying
             /\ p.rig = j.rig /\ p.vfo = j.vfo /\ p.on = j.on /\ j.pend # 0
  BY <1>5, CompletedIs, UnlinkFirst DEF PInv, Replay
<1>6. ASSUME NEW p, RejectKeyDown(j, p) PROVE ConfirmedEnds'
  <2>3. stop_pending => stop_pending'
    BY <1>6 DEF RejectKeyDown, AfterWrites
  <2>1. Completed(j, p) /\ p.on /\ (stop_pending => stop_pending') /\ confirmed' = confirmed
    BY <1>6, <2>3 DEF RejectKeyDown
  <2>2. \A r \in Rigs, v \in VFO : Ends(r, v) => Ends(r, v)'
    BY <1>5, <2>1, UnlinkEnds
  <2>. QED
    BY <1>5, <2>1, <2>2 DEF ConfirmedEnds
<1>7. ASSUME NEW p, ConfirmRelease(j, p) PROVE ConfirmedEnds'
  <2>1. /\ Completed(j, p) /\ ~p.on /\ ~j.failed /\ UNCHANGED <<talker, ptt_vfo, confirmed>>
        /\ stop_pending => stop_pending'
    BY <1>7 DEF ConfirmRelease, AfterWrites
  <2>2. j \in Elems(LineIn(jobs, done, j.rig))
    <3>. DEFINE L == LineIn(jobs, done, j.rig)
                M == LineIn(Tail(jobs), done, j.rig)
    <3>1. LineLed(j, L, M)
      BY <1>5, <2>1, LineReplay
    <3>. HIDE DEF L, M
    <3>2. j \in Elems(L)
      BY <3>1, FreshLed
    <3>. QED
      BY <3>2 DEF L
  <2>3. ~confirmed[p.rig][p.vfo]
    <3>1. AcknowledgedIn(LineIn(jobs, done, j.rig), j.vfo)
      BY <1>5, <2>1, <2>2 DEF AcknowledgedIn
    <3>. QED
      BY <1>5, <2>1, <3>1 DEF NoneAcknowledged
  <2>4. ASSUME NEW r \in Rigs, NEW v \in VFO, confirmed'[r][v], ~dying
        PROVE  Ends(r, v)'
    <3>1. p.rig # r \/ p.vfo # v
      BY <2>1, <2>3, <2>4
    <3>2. Ends(r, v)
      BY <2>1, <2>4 DEF ConfirmedEnds
    <3>. QED
      BY <1>5, <2>1, <3>1, <3>2, UnlinkEnds
  <2>5. dying' = dying
    BY <1>5, <2>1
  <2>. QED
    BY <2>4, <2>5 DEF ConfirmedEnds
<1>8. ASSUME NEW p, ConfirmKeyDown(j, p) PROVE ConfirmedEnds'
  <2>1. /\ Completed(j, p) /\ p.on /\ UNCHANGED <<talker, ptt_vfo, stop_pending>>
        /\ confirmed' = [confirmed EXCEPT ![p.rig][p.vfo] = TRUE]
    BY <1>8 DEF ConfirmKeyDown
  <2>2. Held(p.rig, p.vfo)'
    <3>1. /\ talker # NoClient /\ p.rig = ptt_rig /\ p.vfo = ptt_vfo
      BY <1>5, <2>1, LiveTalker
    <3>2. /\ Elems(pending') = Elems(pending) \ {p}
          /\ \A z \in Elems(pending) : z.id = p.id => z = p
      BY <1>5, <2>1, UnlinkReduces
    <3>3. NoneLive(pending')
      BY <1>5, <2>1, <3>2 DEF NoneLive, GInv, OneLive
    <3>4. ptt_rig' = ptt_rig
      BY <1>5, <2>1 DEF Replay
    <3>. QED
      BY <2>1, <3>1, <3>3, <3>4 DEF Held
  <2>. DEFINE r0 == p.rig
              v0 == p.vfo
  <2>3. /\ confirmed \in [Rigs -> [VFO -> BOOLEAN]] /\ r0 \in Rigs /\ v0 \in VFO
        /\ confirmed' = [confirmed EXCEPT ![r0][v0] = TRUE] /\ Held(r0, v0)'
    BY <1>5, <2>1, <2>2 DEF TInv, ConfirmedType
  <2>. HIDE DEF r0, v0
  <2>4. ASSUME NEW r \in Rigs, NEW v \in VFO, confirmed'[r][v], ~dying
        PROVE  Ends(r, v)'
    <3>1. CASE r = r0 /\ v = v0
      BY <2>3, <3>1 DEF Ends
    <3>2. CASE ~(r = r0 /\ v = v0)
      <4>1. confirmed[r][v]
        BY <2>3, <2>4, <3>2
      <4>2. Ends(r, v)
        BY <2>4, <4>1 DEF ConfirmedEnds
      <4>. QED
        BY <1>5, <2>1, <4>2, UnlinkEnds
    <3>. QED
      BY <3>1, <3>2
  <2>5. dying' = dying
    BY <1>5, <2>1
  <2>. QED
    BY <2>4, <2>5 DEF ConfirmedEnds
<1>. QED
  BY <1>1, <1>2, <1>3, <1>4, <1>6, <1>7, <1>8

\* Every action keeps it.  The retry of a stop releases the rig of the last
\* key-down only: it takes back stop_pending with one rig.
LEMMA StepEnds ==
  ASSUME Rigs = {DefaultRig}, PInv, GInv, TInv, NoneAcknowledged, ConfirmedEnds, [Next]_vars
  PROVE  ConfirmedEnds'
<1>1. ASSUME UNCHANGED <<talker, ptt_vfo, ptt_rig, pending, stop_pending, dying>>,
             \A r \in Rigs, v \in VFO : confirmed'[r][v] => confirmed[r][v]
      PROVE  ConfirmedEnds'
  BY <1>1, EndsKept DEF Held
<1>2. CASE UNCHANGED vars
  BY <1>1, <1>2 DEF vars, switches, history
<1>3. CASE KeyUp
  <2>1. talker # NoClient /\ UNCHANGED <<stop_pending, dying, confirmed>>
    BY <1>3 DEF KeyUp, switches, history
  <2>2. Reduced(pending, pending', Target, ptt_vfo)
    BY <1>3, KeyUpGInv
  <2>. QED
    BY <2>1, <2>2, RequestEnds
<1>4. CASE \/ ForceOff \/ Fault \/ TalkTimeout \/ RetryStop \/ Shutdown
           \/ \E r \in Rigs : EstopTrip(r) \/ EstopReset(r)
  <2>1. PICK why, r : StartOff(why, r) /\ (r = ptt_rig \/ (r \in Rigs /\ why \in {"trip", "reset"}))
    BY <1>4, LoopStartIs
  <2>2. /\ UNCHANGED <<talker, ptt_vfo, pending, stop_pending, confirmed>> /\ ~dying
        /\ talker # NoClient => ptt_rig' = ptt_rig
    BY <2>1, StartOffGInv DEF StartOff, history, OneStop
  <2>. QED
    BY <2>2, EndsKept DEF Held
<1>5. CASE OffVfo
  <2>1. UNCHANGED <<talker, ptt_vfo, ptt_rig, stop_pending, dying, confirmed>>
    BY <1>5 DEF OffVfo, switches, history
  <2>2. Reduced(pending, pending', Target, off.next)
    BY <1>5, OffVfoGInv
  <2>. QED
    BY <2>1, <2>2, RequestEnds
<1>6. CASE EndOff
  <2>1. /\ \A v \in VFO : ReleasePending(pending, Target, v)
        /\ pending' = pending
    BY <1>6, EndOffGInv
  <2>2. \A r \in Rigs : r = Target
    BY TargetRig DEF PInv
  <2>3. \A r \in Rigs, v \in VFO : Ends(r, v)'
    BY <2>1, <2>2 DEF Ends, ReleasePending
  <2>. QED
    BY <2>3 DEF ConfirmedEnds
<1>7. ASSUME NEW r \in Rigs, Drain(r) \/ Take(r) PROVE ConfirmedEnds'
  BY <1>1, <1>7 DEF Drain, Take, switches, history
<1>8. ASSUME NEW r \in Rigs, Execute(r) PROVE ConfirmedEnds'
  <2>1. UNCHANGED <<talker, ptt_vfo, ptt_rig, pending, stop_pending, dying>>
    BY <1>8 DEF Execute, switches
  <2>. QED
    BY <1>1, <1>8, <2>1, ExecuteAcknowledged
<1>9. CASE AccountingFailed
  <2>1. stop_pending' = TRUE
    BY <1>9 DEF AccountingFailed
  <2>. QED
    BY <2>1 DEF ConfirmedEnds, Ends
<1>. QED
  BY <1>2, <1>3, <1>4, <1>5, <1>6, <1>7, <1>8, <1>9, KeyDownEnds, DisconnectEnds,
     CompleteEnds DEF Next, WorkerStep

----------------------------------------------------------------------------
(* Theorems *)

\* Sessions of linked servers, whatever the number of rigs: their invariant.
Attended ==
  PInv /\ KeptFree /\ ~dying

\* ... and what the end of a transmission needs.
Ending ==
  Attended /\ GInv /\ LiveLast /\ TInv /\ NoneAcknowledged /\ ConfirmedEnds

\* Every step that the sessions, the watchdog and rr_relay_remove_remote take is
\* one of ptt.c for its own connections, but for the row of a connection that
\* is forgotten; and no closed session goes on holding the transmitter, so that
\* the retry of a refused release in rr_relay_remove_remote has nothing to do.
THEOREM RelaySteps ==
  RelaySpec => /\ [][Next \/ ForgetRow]_vars
               /\ [](\A c \in Remote : kept[c] = NoVfo)
<1>1. RelayInit => Attended
  BY InitPInv DEF RelayInit, Init, Attended, KeptFree
<1>2. Attended /\ [RelayNext]_<<vars, relay>> => Attended' /\ [Next \/ ForgetRow]_vars
  <2>. SUFFICES ASSUME Attended, [RelayNext]_<<vars, relay>>
                PROVE  Attended' /\ [Next \/ ForgetRow]_vars
    OBVIOUS
  <2>1. PInv /\ KeptFree /\ ~dying
    BY DEF Attended
  <2>2. KeptFree' /\ dying' = dying /\ ([Next]_vars \/ ForgetRow)
    BY <2>1, RelayStep
  <2>3. CASE [Next]_vars
    BY <2>1, <2>2, <2>3, StepPInv DEF Attended
  <2>4. CASE ForgetRow
    <3>1. UNCHANGED <<talker, ptt_vfo, ptt_rig, tx_blocked, tot, dying, pending, off, jobs, queue,
                      running, done, outstanding, halted, tx, confirmed, failed_last, unreleased>>
      BY <2>4 DEF ForgetRow, worker, radio, history
    <3>2. PInv'
      BY <2>1, <3>1, QuietStep
    <3>. QED
      BY <2>1, <2>2, <2>4, <3>2 DEF Attended
  <2>. QED
    BY <2>2, <2>3, <2>4
<1>3. Attended => \A c \in Remote : kept[c] = NoVfo
  BY DEF Attended, KeptFree
<1>. QED
  BY <1>1, <1>2, <1>3, PTL DEF RelaySpec

\* A confirmed transmission without a talker is being ended, without the talk
\* timeout: a release of it is underway, or accounting_poll will request one.
\* With several rigs the retry may release another rig than the one that is on
\* the air.
THEOREM RelayUnattendedEnds ==
  ASSUME Rigs = {DefaultRig}
  PROVE  RelaySpec => []UnattendedEnds
<1>1. RelayInit => Ending
  <2>. SUFFICES ASSUME RelayInit PROVE Ending
    OBVIOUS
  <2>1. Init
    BY DEF RelayInit
  <2>2. Attended
    BY <2>1, InitPInv DEF RelayInit, Init, Attended, KeptFree
  <2>3. \A r \in Rigs, v \in VFO : ~confirmed[r][v]
    BY <2>1 DEF Init, All
  <2>. QED
    BY <2>1, <2>2, <2>3, InitGInv, InitT DEF Ending, NoneAcknowledged, ConfirmedEnds
<1>2. Ending /\ [RelayNext]_<<vars, relay>> => Ending'
  <2>. SUFFICES ASSUME Ending, [RelayNext]_<<vars, relay>>
                PROVE  Ending'
    OBVIOUS
  <2>1. /\ PInv /\ KeptFree /\ ~dying /\ GInv /\ LiveLast /\ TInv
        /\ NoneAcknowledged /\ ConfirmedEnds
    BY DEF Ending, Attended
  <2>2. KeptFree' /\ dying' = dying /\ ([Next]_vars \/ ForgetRow)
    BY <2>1, RelayStep
  <2>3. CASE [Next]_vars
    <3>1. PInv' /\ GInv' /\ LiveLast' /\ TInv'
      BY <2>1, <2>3, StepPInv, StepGInv, StepLast, StepT DEF OneStop
    <3>2. NoneAcknowledged' /\ ConfirmedEnds'
      BY <2>1, <2>3, StepAcknowledged, StepEnds
    <3>. QED
      BY <2>1, <2>2, <3>1, <3>2 DEF Ending, Attended
  <2>4. CASE ForgetRow
    <3>1. /\ UNCHANGED <<talker, ptt_vfo, ptt_rig, pending, jobs, done, confirmed>>
          /\ stop_pending => stop_pending'
      BY <2>4 DEF ForgetRow, worker, history, AfterWrites
    <3>2. PInv' /\ GInv' /\ LiveLast' /\ TInv'
      BY <2>1, <2>4, ForgetKeeps
    <3>3. NoneAcknowledged'
      BY <2>1, <3>1 DEF NoneAcknowledged, LineIn
    <3>4. ConfirmedEnds'
      BY <2>1, <2>2, <3>1, EndsKept DEF Held
    <3>. QED
      BY <2>1, <2>2, <3>2, <3>3, <3>4 DEF Ending, Attended
  <2>. QED
    BY <2>2, <2>3, <2>4
<1>3. Ending => UnattendedEnds
  <2>. SUFFICES ASSUME Ending, NEW r \in Rigs, NEW v \in VFO, confirmed[r][v], talker = NoClient
                PROVE  stop_pending \/ ReleaseUnderway(r, v)
    BY DEF UnattendedEnds
  <2>1. PInv /\ Ends(r, v)
    BY DEF Ending, Attended, ConfirmedEnds
  <2>. QED
    BY <2>1, PendingUnderway DEF Ends, Held
<1>. QED
  BY <1>1, <1>2, <1>3, PTL DEF RelaySpec

----------------------------------------------------------------------------
(* What a queue carries *)

\* The completion slots of the jobs of a queue, by job and place, and how many.
Slots(q) == {s \in Nat \X Nat : s[1] \in 1..Len(q) /\ s[2] \in 1..Len(q[s[1]].pends)}

Weight(q) == Cardinality(Slots(q))

\* A queue has finitely many of them.
LEMMA SlotsFinite ==
  ASSUME NEW q \in Seq(Job)
  PROVE  IsFiniteSet(Slots(q)) /\ Weight(q) \in Nat
<1>. DEFINE Row(i) == {i} \X (1..Len(q[i].pends))
            f == [i \in 1..Len(q) |-> Row(i)]
            R == {f[i] : i \in 1..Len(q)}
<1>1. Len(q) \in Nat
  OBVIOUS
<1>2. ASSUME NEW i \in 1..Len(q)
      PROVE  IsFiniteSet(Row(i)) /\ Len(q[i].pends) \in Nat
  <2>1. q[i] \in Job
    OBVIOUS
  <2>2. q[i].pends \in Seq(Nat)
    BY <2>1, JobType
  <2>3. Len(q[i].pends) \in Nat
    BY <2>2
  <2>4. IsFiniteSet({i}) /\ IsFiniteSet(1..Len(q[i].pends))
    BY <2>3, FS_Singleton, IntervalSize
  <2>. QED
    BY <2>3, <2>4, FS_Product
<1>3. IsFiniteSet(R)
  <2>1. f \in Surjection(1..Len(q), R)
    BY DEF Surjection
  <2>2. IsFiniteSet(1..Len(q))
    BY <1>1, IntervalSize
  <2>. HIDE DEF f, R
  <2>. QED
    BY <2>1, <2>2, FS_Surjection
<1>4. \A T \in R : IsFiniteSet(T)
  BY <1>2
<1>5. IsFiniteSet(UNION R)
  <2>. HIDE DEF R
  <2>. QED
    BY <1>3, <1>4, FS_UNION
<1>6. Slots(q) \subseteq UNION R
  <2>1. SUFFICES ASSUME NEW s \in Slots(q) PROVE s \in UNION R
    OBVIOUS
  <2>2. s \in Nat \X Nat /\ s[1] \in 1..Len(q) /\ s[2] \in 1..Len(q[s[1]].pends)
    BY DEF Slots
  <2>3. s = <<s[1], s[2]>>
    BY <2>2
  <2>4. s \in Row(s[1])
    BY <2>2, <2>3
  <2>5. Row(s[1]) \in R
    BY <2>2
  <2>. QED
    BY <2>4, <2>5
<1>7. IsFiniteSet(Slots(q))
  <2>. HIDE DEF R
  <2>. QED
    BY <1>5, <1>6, FS_Subset
<1>. QED
  BY <1>7, FS_CardinalityType DEF Weight

\* The slots of w but those of D move, with their jobs, to slots of q that are
\* not in E.
LEMMA SlotsMoved ==
  ASSUME NEW q \in Seq(Job), NEW w \in Seq(Job), NEW D, IsFiniteSet(D),
         NEW E \in SUBSET Slots(q), NEW g,
         \A i, j \in 1..Len(w) : g[i] = g[j] => i = j,
         \A s \in Slots(w) \ D : <<g[s[1]], s[2]>> \in Slots(q) \ E
  PROVE  Weight(w) + Cardinality(E) <= Weight(q) + Cardinality(D)
<1>. DEFINE S == Slots(w) \ D
            T == Slots(q) \ E
            h == [s \in S |-> <<g[s[1]], s[2]>>]
<1>1. /\ IsFiniteSet(Slots(q)) /\ Weight(q) \in Nat
      /\ IsFiniteSet(Slots(w)) /\ Weight(w) \in Nat
  BY SlotsFinite
<1>2. h \in [S -> T]
  OBVIOUS
<1>3. ASSUME NEW s \in S, NEW t \in S, h[s] = h[t] PROVE s = t
  <2>1. /\ s \in Nat \X Nat /\ s[1] \in 1..Len(w)
        /\ t \in Nat \X Nat /\ t[1] \in 1..Len(w)
    BY DEF Slots
  <2>2. <<g[s[1]], s[2]>> = <<g[t[1]], t[2]>>
    BY <1>3
  <2>3. s[2] = t[2] /\ g[s[1]] = g[t[1]]
    BY <2>2
  <2>4. s[1] = t[1]
    BY <2>1, <2>3
  <2>5. s = <<s[1], s[2]>> /\ t = <<t[1], t[2]>>
    BY <2>1
  <2>. QED
    BY <2>3, <2>4, <2>5
<1>4. h \in Injection(S, T)
  <2>1. \A s, t \in S : h[s] = h[t] => s = t
    BY <1>3
  <2>. HIDE DEF S, T, h
  <2>. QED
    BY <1>2, <2>1 DEF Injection, IsInjective
<1>5. IsFiniteSet(T) /\ Cardinality(T) = Weight(q) - Cardinality(E)
  <2>1. Slots(q) \cap E = E
    OBVIOUS
  <2>. QED
    BY <1>1, <2>1, FS_Difference DEF Weight
<1>6. IsFiniteSet(S) /\ Cardinality(S) = Weight(w) - Cardinality(Slots(w) \cap D)
  BY <1>1, FS_Difference DEF Weight
<1>7. Cardinality(S) <= Cardinality(T)
  <2>. HIDE DEF S, T, h
  <2>. QED
    BY <1>4, <1>5, FS_Injection
<1>8. /\ Cardinality(Slots(w) \cap D) <= Cardinality(D)
      /\ Cardinality(Slots(w) \cap D) \in Nat /\ Cardinality(D) \in Nat
  <2>1. IsFiniteSet(Slots(w) \cap D) /\ Cardinality(Slots(w) \cap D) <= Cardinality(D)
    BY FS_Intersection
  <2>. QED
    BY <2>1, FS_CardinalityType
<1>9. Cardinality(E) \in Nat
  <2>1. IsFiniteSet(E)
    BY <1>1, FS_Subset
  <2>. QED
    BY <2>1, FS_CardinalityType
<1>. QED
  BY <1>1, <1>5, <1>6, <1>7, <1>8, <1>9

\* n different slots are at least n.
LEMMA SlotsCounted ==
  ASSUME NEW E, IsFiniteSet(E), NEW I, IsFiniteSet(I), NEW h \in Injection(I, E)
  PROVE  Cardinality(I) <= Cardinality(E) /\ Cardinality(I) \in Nat /\ Cardinality(E) \in Nat
  BY FS_Injection, FS_CardinalityType

\* A queue without jobs carries nothing.
LEMMA WeightEmpty == Weight(<<>>) = 0
<1>1. Slots(<<>>) = {}
  BY DEF Slots
<1>. QED
  BY <1>1, FS_EmptySet DEF Weight

\* Taking the first job takes its slots.
LEMMA WeightTail ==
  ASSUME NEW q \in Seq(Job), q # <<>>
  PROVE  Weight(Tail(q)) + Len(Head(q).pends) <= Weight(q)
<1>. DEFINE w == Tail(q)
            n == Len(q[1].pends)
            E == {s \in Slots(q) : s[1] = 1}
            g == [i \in 1..Len(w) |-> i + 1]
            h == [k \in 1..n |-> <<1, k>>]
<1>1. /\ w \in Seq(Job) /\ Head(q) = q[1] /\ Len(q) \in Nat \ {0} /\ Len(w) = Len(q) - 1
      /\ \A i \in 1..Len(w) : w[i] = q[i + 1] /\ i + 1 \in 1..Len(q)
  BY TailElems
<1>2. q[1] \in Job /\ 1 \in 1..Len(q)
  BY <1>1
<1>3. n \in Nat
  <2>1. q[1].pends \in Seq(Nat)
    BY <1>2, JobType
  <2>. QED
    BY <2>1
<1>. HIDE DEF w
<1>4. \A i, j \in 1..Len(w) : g[i] = g[j] => i = j
  BY <1>1
<1>5. ASSUME NEW s \in Slots(w) \ {}
      PROVE  <<g[s[1]], s[2]>> \in Slots(q) \ E
  <2>1. s \in Nat \X Nat /\ s[1] \in 1..Len(w) /\ s[2] \in 1..Len(w[s[1]].pends)
    BY DEF Slots
  <2>. DEFINE i == s[1]
              k == s[2]
  <2>2. i \in 1..Len(w) /\ k \in Nat /\ k \in 1..Len(w[i].pends)
    BY <2>1
  <2>. HIDE DEF i, k
  <2>3. g[i] = i + 1 /\ i + 1 \in 1..Len(q) /\ i + 1 # 1 /\ w[i] = q[i + 1]
    BY <1>1, <2>2
  <2>4. <<i + 1, k>> \in Slots(q) \ E
    BY <2>2, <2>3 DEF Slots
  <2>. QED
    BY <2>3, <2>4 DEF i, k
<1>6. IsFiniteSet(E) /\ E \in SUBSET Slots(q)
  BY SlotsFinite, FS_Subset
<1>7. h \in Injection(1..n, E)
  <2>1. ASSUME NEW k \in 1..n PROVE <<1, k>> \in E
    BY <1>2, <1>3 DEF Slots
  <2>2. h \in [1..n -> E] /\ \A a, b \in 1..n : h[a] = h[b] => a = b
    BY <2>1
  <2>. HIDE DEF h, E
  <2>. QED
    BY <2>2 DEF Injection, IsInjective
<1>8. Cardinality(1..n) = n /\ IsFiniteSet(1..n)
  BY <1>3, IntervalSize
<1>. HIDE DEF E, g, h
<1>9. n <= Cardinality(E) /\ Cardinality(E) \in Nat
  BY <1>6, <1>7, <1>8, SlotsCounted
<1>10. Weight(w) + Cardinality(E) <= Weight(q) + Cardinality({})
  BY <1>1, <1>4, <1>5, <1>6, FS_EmptySet, SlotsMoved
<1>11. Weight(w) \in Nat /\ Weight(q) \in Nat
  BY <1>1, SlotsFinite
<1>12. Weight(w) + n <= Weight(q)
  BY <1>3, <1>9, <1>10, <1>11, FS_EmptySet
<1>. QED
  BY <1>1, <1>12 DEF w

\* A job that is appended adds its slot.
LEMMA WeightAppend ==
  ASSUME NEW q \in Seq(Job), NEW j \in Job, Len(j.pends) = 1
  PROVE  Weight(Append(q, j)) <= Weight(q) + 1
<1>. DEFINE w == Append(q, j)
            D == {<<Len(q) + 1, 1>>}
            g == [i \in 1..Len(w) |-> i]
<1>1. /\ w \in Seq(Job) /\ Len(w) = Len(q) + 1 /\ Len(q) \in Nat
      /\ \A i \in 1..Len(q) : w[i] = q[i]
      /\ w[Len(q) + 1] = j
  BY AppendElems
<1>. HIDE DEF w
<1>2. ASSUME NEW s \in Slots(w) \ D
      PROVE  <<g[s[1]], s[2]>> \in Slots(q) \ {}
  <2>1. s \in Nat \X Nat /\ s[1] \in 1..Len(w) /\ s[2] \in 1..Len(w[s[1]].pends)
    BY DEF Slots
  <2>2. s = <<s[1], s[2]>> /\ g[s[1]] = s[1]
    BY <2>1
  <2>3. s[1] # Len(q) + 1
    <3>1. CASE s[1] = Len(q) + 1
      <4>1. s[2] = 1
        <5>1. w[s[1]] = j
          BY <1>1, <3>1
        <5>2. s[2] \in 1..1
          BY <2>1, <5>1
        <5>. QED
          BY <5>2
      <4>. QED
        BY <2>2, <3>1, <4>1
    <3>. QED
      BY <3>1
  <2>4. s[1] \in 1..Len(q) /\ w[s[1]] = q[s[1]]
    BY <1>1, <2>1, <2>3
  <2>5. s \in Slots(q)
    BY <2>1, <2>4 DEF Slots
  <2>. QED
    BY <2>2, <2>5
<1>3. IsFiniteSet(D) /\ Cardinality(D) = 1
  BY FS_Singleton
<1>4. \A i, k \in 1..Len(w) : g[i] = g[k] => i = k
  OBVIOUS
<1>. HIDE DEF D, g
<1>5. Weight(w) + Cardinality({}) <= Weight(q) + Cardinality(D)
  BY <1>1, <1>2, <1>3, <1>4, SlotsMoved
<1>6. Weight(w) \in Nat /\ Weight(q) \in Nat
  BY <1>1, SlotsFinite
<1>. QED
  BY <1>3, <1>5, <1>6, FS_EmptySet DEF w

\* A release that goes first adds its slot.
LEMMA WeightPushed ==
  ASSUME NEW q \in Seq(Job), NEW j \in Job, Len(j.pends) = 1
  PROVE  Weight(<<j>> \o q) <= Weight(q) + 1
<1>. DEFINE w == <<j>> \o q
            D == {<<1, 1>>}
            g == [i \in 1..Len(w) |-> i - 1]
<1>1. /\ w \in Seq(Job) /\ Len(w) = Len(q) + 1 /\ Len(q) \in Nat /\ w[1] = j
      /\ \A i \in 1..Len(w) : i = 1 \/ (i - 1 \in 1..Len(q) /\ w[i] = q[i - 1])
  BY PushElems
<1>. HIDE DEF w
<1>2. ASSUME NEW s \in Slots(w) \ D
      PROVE  <<g[s[1]], s[2]>> \in Slots(q) \ {}
  <2>. DEFINE i == s[1]
              k == s[2]
  <2>1. s \in Nat \X Nat /\ i \in 1..Len(w) /\ k \in 1..Len(w[i].pends)
    BY DEF Slots
  <2>2. s = <<i, k>> /\ g[i] = i - 1 /\ k \in Nat
    BY <2>1
  <2>3. i # 1
    <3>1. CASE i = 1
      <4>1. k = 1
        <5>1. w[i] = j
          BY <1>1, <3>1
        <5>2. k \in 1..1
          BY <2>1, <5>1
        <5>. QED
          BY <5>2
      <4>. QED
        BY <2>2, <3>1, <4>1
    <3>. QED
      BY <3>1
  <2>4. i - 1 \in 1..Len(q) /\ w[i] = q[i - 1]
    BY <1>1, <2>1, <2>3
  <2>. HIDE DEF i, k
  <2>5. <<i - 1, k>> \in Slots(q)
    BY <2>1, <2>2, <2>4 DEF Slots
  <2>. QED
    BY <2>2, <2>5 DEF i, k
<1>3. IsFiniteSet(D) /\ Cardinality(D) = 1
  BY FS_Singleton
<1>4. \A i, k \in 1..Len(w) : g[i] = g[k] => i = k
  BY <1>1
<1>. HIDE DEF D, g
<1>5. Weight(w) + Cardinality({}) <= Weight(q) + Cardinality(D)
  BY <1>1, <1>2, <1>3, <1>4, SlotsMoved
<1>6. Weight(w) \in Nat /\ Weight(q) \in Nat
  BY <1>1, SlotsFinite
<1>. QED
  BY <1>3, <1>5, <1>6, FS_EmptySet DEF w

\* The jobs that are unlinked take their slots, one each at least.
LEMMA WeightWithout ==
  ASSUME NEW q \in Seq(Job), NEW S, \A j \in Elems(q) \cap S : Len(j.pends) >= 1
  PROVE  Weight(Without(q, S)) + Len(Filter(q, S)) <= Weight(q)
<1>. DEFINE w == Without(q, S)
            T == Elems(q) \ S
            I == Positions(q, S)
            P == Positions(q, T)
            E == {s \in Slots(q) : s[1] \in I}
            g == [a \in 1..Len(w) |-> Nth(P, a)]
            h == [i \in I |-> <<i, 1>>]
<1>1. /\ w \in Seq(Job) /\ Len(w) \in Nat /\ P \subseteq 1..Len(q) /\ I \subseteq 1..Len(q)
      /\ P \subseteq Nat /\ I \subseteq Nat
      /\ IsFiniteSet(I) /\ Len(Filter(q, S)) = Cardinality(I) /\ Cardinality(I) \in Nat
  BY WithoutProperties, FilterProperties, PositionsFinite
<1>2. /\ \A a \in 1..Len(w) : Nth(P, a) \in P /\ w[a] = q[Nth(P, a)]
      /\ \A a, b \in 1..Len(w) : a < b => Nth(P, a) < Nth(P, b)
  BY FilterProperties DEF Without
<1>3. \A i \in P : i \notin I /\ i \in 1..Len(q) /\ i \in Nat
  BY <1>1 DEF Positions
<1>4. ASSUME NEW i \in I PROVE <<i, 1>> \in E
  <2>1. i \in 1..Len(q) /\ q[i] \in S /\ q[i] \in Job
    BY <1>1 DEF Positions
  <2>2. Len(q[i].pends) >= 1
    BY <2>1 DEF Elems
  <2>3. q[i].pends \in Seq(Nat)
    BY <2>1, JobType
  <2>4. Len(q[i].pends) \in Nat
    BY <2>3
  <2>5. 1 \in 1..Len(q[i].pends)
    BY <2>2, <2>4
  <2>. QED
    BY <2>1, <2>5 DEF Slots
<1>. HIDE DEF w, I, P, T
<1>5. \A a, b \in 1..Len(w) : g[a] = g[b] => a = b
  <2>1. SUFFICES ASSUME NEW a \in 1..Len(w), NEW b \in 1..Len(w), a # b
                 PROVE  Nth(P, a) # Nth(P, b)
    OBVIOUS
  <2>2. Nth(P, a) \in Nat /\ Nth(P, b) \in Nat
    BY <1>2, <1>3
  <2>3. a < b \/ b < a
    BY <1>1, <2>1
  <2>. QED
    BY <1>2, <2>2, <2>3
<1>6. ASSUME NEW s \in Slots(w) \ {}
      PROVE  <<g[s[1]], s[2]>> \in Slots(q) \ E
  <2>. DEFINE a == s[1]
              k == s[2]
  <2>1. s \in Nat \X Nat /\ a \in 1..Len(w) /\ k \in 1..Len(w[a].pends)
    BY DEF Slots
  <2>2. k \in Nat
    BY <2>1
  <2>. HIDE DEF a, k
  <2>. DEFINE n == Nth(P, a)
  <2>3. g[a] = n
    BY <2>1
  <2>4. n \in P /\ w[a] = q[n]
    BY <1>2, <2>1
  <2>. HIDE DEF n
  <2>5. n \notin I /\ n \in 1..Len(q) /\ n \in Nat
    BY <1>3, <2>4
  <2>6. <<n, k>> \in Slots(q) \ E
    BY <2>1, <2>2, <2>4, <2>5 DEF Slots
  <2>. QED
    BY <2>3, <2>6 DEF a, k
<1>7. IsFiniteSet(E) /\ E \in SUBSET Slots(q)
  BY SlotsFinite, FS_Subset
<1>8. h \in Injection(I, E)
  <2>1. h \in [I -> E] /\ \A a, b \in I : h[a] = h[b] => a = b
    BY <1>4
  <2>. HIDE DEF h, E
  <2>. QED
    BY <2>1 DEF Injection, IsInjective
<1>. HIDE DEF E, g, h
<1>9. Cardinality(I) <= Cardinality(E) /\ Cardinality(E) \in Nat
  BY <1>1, <1>7, <1>8, SlotsCounted
<1>10. Weight(w) + Cardinality(E) <= Weight(q) + Cardinality({})
  BY <1>1, <1>5, <1>6, <1>7, FS_EmptySet, SlotsMoved
<1>11. Weight(w) \in Nat /\ Weight(q) \in Nat
  BY <1>1, SlotsFinite
<1>12. Weight(w) + Len(Filter(q, S)) <= Weight(q)
  BY <1>1, <1>9, <1>10, <1>11, FS_EmptySet
<1>. QED
  BY <1>12 DEF w

\* A job that another request shares has one more slot.
LEMMA JoinLonger ==
  ASSUME NEW j \in Job, Len(j.pends) >= 1, NEW k \in Nat
  PROVE  Join(j, k) \in Job /\ Len(Join(j, k).pends) = Len(j.pends) + 1
<1>. DEFINE p == j.pends
            c == <<Head(p), k>>
            t == Tail(p)
            z == c \o t
<1>1. p \in Seq(Nat) /\ j.vfo \in VFO /\ j.on \in BOOLEAN
  BY JobType
<1>2. p # <<>>
  OBVIOUS
<1>3. t \in Seq(Nat) /\ Head(p) \in Nat /\ Len(p) \in Nat \ {0} /\ Len(t) = Len(p) - 1
  BY <1>1, <1>2, TailElems
<1>4. c \in Seq(Nat) /\ Len(c) = 2
  BY <1>3
<1>. HIDE DEF p, c, t
<1>5. z \in Seq(Nat) /\ Len(z) = 2 + Len(t)
  <2>1. ASSUME NEW a \in Seq(Nat), NEW b \in Seq(Nat)
        PROVE  a \o b \in Seq(Nat) /\ Len(a \o b) = Len(a) + Len(b)
    BY ConcatElems, Zenon
  <2>2. z \in Seq(Nat) /\ Len(z) = Len(c) + Len(t)
    BY <1>3, <1>4, <2>1
  <2>. QED
    BY <1>4, <2>2
<1>6. Join(j, k) = [vfo |-> j.vfo, on |-> j.on, pends |-> z]
  BY DEF Join, p, c, t
<1>. HIDE DEF z
<1>7. Join(j, k) \in Job /\ Join(j, k).pends = z
  BY <1>1, <1>5, <1>6 DEF Job
<1>. QED
  BY <1>3, <1>5, <1>7 DEF p

\* A queue in which a release is shared is a queue.
LEMMA JoinInType ==
  ASSUME NEW q \in Seq(Job), NEW v, NEW k \in Nat, \A i \in 1..Len(q) : Len(q[i].pends) >= 1
  PROVE  /\ JoinIn(q, v, k) \in Seq(Job) /\ Len(JoinIn(q, v, k)) = Len(q)
         /\ \A i \in 1..Len(q) :
              JoinIn(q, v, k)[i] = IF IsReleaseOf(q[i], v) THEN Join(q[i], k) ELSE q[i]
<1>. DEFINE w == JoinIn(q, v, k)
<1>1. /\ Len(q) \in Nat /\ w = [i \in 1..Len(q) |-> w[i]]
      /\ \A i \in 1..Len(q) : w[i] = IF IsReleaseOf(q[i], v) THEN Join(q[i], k) ELSE q[i]
  BY DEF JoinIn
<1>2. \A i \in 1..Len(q) : q[i] \in Job /\ Join(q[i], k) \in Job
  BY JoinLonger
<1>. HIDE DEF w
<1>3. w \in Seq(Job) /\ Len(w) = Len(q)
  BY <1>1, <1>2
<1>. QED
  BY <1>1, <1>3 DEF w

\* Where the key-downs of v were unlinked one release of v is left at most.
LEMMA OneReleaseLeft ==
  ASSUME NEW Q \in Seq(Job), NEW x, OneRelease(x, Q), NEW S, NEW v,
         NEW i \in 1..Len(Without(Q, S)), NEW j \in 1..Len(Without(Q, S)),
         IsReleaseOf(Without(Q, S)[i], v), IsReleaseOf(Without(Q, S)[j], v)
  PROVE  i = j
<1>. DEFINE w == Without(Q, S)
            P == Positions(Q, Elems(Q) \ S)
<1>1. /\ \A a \in 1..Len(w) : Nth(P, a) \in P /\ w[a] = Q[Nth(P, a)]
      /\ \A a, b \in 1..Len(w) : a < b => Nth(P, a) < Nth(P, b)
  <2>. DEFINE T == Elems(Q) \ S
  <2>. HIDE DEF T
  <2>1. /\ \A a \in 1..Len(Filter(Q, T)) :
             Nth(Positions(Q, T), a) \in Positions(Q, T) /\ Filter(Q, T)[a] = Q[Nth(Positions(Q, T), a)]
        /\ \A a, b \in 1..Len(Filter(Q, T)) :
             a < b => Nth(Positions(Q, T), a) < Nth(Positions(Q, T), b)
    BY FilterProperties
  <2>2. w = Filter(Q, T) /\ P = Positions(Q, T)
    BY DEF Without, T
  <2>. HIDE DEF w, P
  <2>. QED
    BY <2>1, <2>2
<1>2. P \subseteq 1..Len(Q) /\ P \subseteq Nat /\ Len(w) \in Nat
  BY PositionsFinite, WithoutProperties
<1>. HIDE DEF w, P
<1>3. i \in 1..Len(w) /\ j \in 1..Len(w) /\ IsReleaseOf(w[i], v) /\ IsReleaseOf(w[j], v)
  BY DEF w
<1>4. Nth(P, i) \in 1..Len(Q) /\ Nth(P, j) \in 1..Len(Q) /\ Nth(P, i) \in Nat /\ Nth(P, j) \in Nat
  BY <1>1, <1>2, <1>3
<1>5. Nth(P, i) = Nth(P, j)
  BY <1>1, <1>3, <1>4 DEF OneRelease, IsReleaseOf
<1>6. ~(i < j) /\ ~(j < i)
  BY <1>1, <1>3, <1>4, <1>5
<1>. QED
  BY <1>2, <1>3, <1>6

\* A request that joins the queued release of v, of which there is one, adds a
\* slot to it.
LEMMA WeightJoin ==
  ASSUME NEW q \in Seq(Job), NEW v, NEW k \in Nat,
         \A i \in 1..Len(q) : Len(q[i].pends) >= 1,
         \A i, j \in 1..Len(q) : IsReleaseOf(q[i], v) /\ IsReleaseOf(q[j], v) => i = j,
         NEW m \in 1..Len(q), IsReleaseOf(q[m], v)
  PROVE  Weight(JoinIn(q, v, k)) <= Weight(q) + 1
<1>. DEFINE w == JoinIn(q, v, k)
            n == Len(q[m].pends)
            D == {<<m, n + 1>>}
            g == [i \in 1..Len(w) |-> i]
<1>1. q[m] \in Job /\ n >= 1 /\ Len(q) \in Nat
  OBVIOUS
<1>2. /\ w \in Seq(Job) /\ Len(w) = Len(q)
      /\ \A i \in 1..Len(q) : w[i] = IF IsReleaseOf(q[i], v) THEN Join(q[i], k) ELSE q[i]
  BY JoinInType
<1>3. Len(Join(q[m], k).pends) = n + 1 /\ n \in Nat
  <2>1. q[m].pends \in Seq(Nat)
    BY <1>1, JobType
  <2>2. n \in Nat
    BY <2>1
  <2>. QED
    BY <1>1, <2>2, JoinLonger
<1>4. w \in Seq(Job) /\ \A i \in 1..Len(q) : w[i] = IF i = m THEN Join(q[m], k) ELSE q[i]
  BY <1>2
<1>. HIDE DEF w, n
<1>5. ASSUME NEW s \in Slots(w) \ D
      PROVE  <<g[s[1]], s[2]>> \in Slots(q) \ {}
  <2>. DEFINE i == s[1]
              a == s[2]
  <2>1. s \in Nat \X Nat /\ i \in 1..Len(w) /\ a \in 1..Len(w[i].pends)
    BY DEF Slots
  <2>2. s = <<i, a>> /\ g[i] = i /\ a \in Nat /\ i \in Nat
    BY <2>1
  <2>. HIDE DEF i, a
  <2>3. i \in 1..Len(q)
    BY <1>2, <2>1
  <2>4. a \in 1..Len(q[i].pends)
    <3>1. CASE i # m
      <4>1. w[i] = q[i]
        BY <1>4, <2>3, <3>1
      <4>. QED
        BY <2>1, <4>1
    <3>2. CASE i = m
      <4>1. w[i] = Join(q[m], k)
        BY <1>4, <2>3, <3>2
      <4>2. a \in 1..(n + 1)
        BY <1>3, <2>1, <4>1
      <4>3. a # n + 1
        BY <2>2, <3>2
      <4>4. a \in 1..n
        BY <1>3, <4>2, <4>3
      <4>. QED
        BY <3>2, <4>4 DEF n
    <3>. QED
      BY <3>1, <3>2
  <2>5. <<i, a>> \in Slots(q)
    BY <2>2, <2>3, <2>4 DEF Slots
  <2>. QED
    BY <2>2, <2>5 DEF i, a
<1>6. IsFiniteSet(D) /\ Cardinality(D) = 1
  BY FS_Singleton
<1>7. \A i, j \in 1..Len(w) : g[i] = g[j] => i = j
  OBVIOUS
<1>. HIDE DEF D, g
<1>8. Weight(w) + Cardinality({}) <= Weight(q) + Cardinality(D)
  BY <1>4, <1>5, <1>6, <1>7, SlotsMoved
<1>9. Weight(w) \in Nat /\ Weight(q) \in Nat
  BY <1>4, SlotsFinite
<1>. QED
  BY <1>6, <1>8, <1>9, FS_EmptySet DEF w

----------------------------------------------------------------------------
(* What the worker owes *)

\* The completions that results J and D, running job x and queue Q will cause.
Load(J, D, x, Q) ==
  Len(J) + Len(D) + (IF x = NoJob THEN 0 ELSE Len(x.pends)) + Weight(Q)

\* It is a number.
LEMMA LoadType ==
  ASSUME NEW J \in Seq(Result), NEW D \in Seq(Result), NEW x \in Job \cup {NoJob},
         NEW Q \in Seq(Job)
  PROVE  /\ Load(J, D, x, Q) \in Nat /\ Load(J, D, x, Q) >= Len(J)
         /\ Len(J) \in Nat /\ Len(D) \in Nat /\ Weight(Q) \in Nat
         /\ x # NoJob => Len(x.pends) \in Nat
<1>1. Len(J) \in Nat /\ Len(D) \in Nat
  OBVIOUS
<1>2. x # NoJob => Len(x.pends) \in Nat
  <2>1. SUFFICES ASSUME x # NoJob PROVE Len(x.pends) \in Nat
    OBVIOUS
  <2>2. x.pends \in Seq(Nat)
    BY <2>1, JobType
  <2>. QED
    BY <2>2
<1>3. Weight(Q) \in Nat
  BY SlotsFinite
<1>. DEFINE X == IF x = NoJob THEN 0 ELSE Len(x.pends)
<1>4. X \in Nat
  BY <1>2
<1>5. Load(J, D, x, Q) = Len(J) + Len(D) + X + Weight(Q)
  BY DEF Load
<1>. HIDE DEF X
<1>6. Load(J, D, x, Q) \in Nat /\ Load(J, D, x, Q) >= Len(J)
  BY <1>1, <1>3, <1>4, <1>5
<1>. QED
  BY <1>1, <1>2, <1>3, <1>6

\* A release that is submitted adds one.
LEMMA LoadReleased ==
  ASSUME NEW r \in Rigs, NEW v, NEW k \in Nat, v \in VFO,
         NEW J \in Seq(Result), NEW D \in Seq(Result), NEW x \in Job \cup {NoJob},
         NEW Q \in Seq(Job), WorkerSound(x, Q)
  PROVE  LET after == Load(J, D \o Cancelled(r, Q, v), RunningAfter(x, v, k),
                           QueueAfter(x, Without(Q, Cut(Q, v)), v, k))
         IN  after \in Nat /\ after <= Load(J, D, x, Q) + 1
<1>. DEFINE G == Cancelled(r, Q, v)
            S == Cut(Q, v)
            q == Without(Q, S)
            y == RunningAfter(x, v, k)
            R == QueueAfter(x, q, v, k)
            X == IF x = NoJob THEN 0 ELSE Len(x.pends)
            Y == IF y = NoJob THEN 0 ELSE Len(y.pends)
<1>1. \A j \in Elems(Q) : JobSound(j)
  BY DEF WorkerSound
<1>2. G \in Seq(Result) /\ Len(G) = Len(Filter(Q, S)) /\ Len(G) \in Nat
  BY <1>1, CancelledItems
<1>3. D \o G \in Seq(Result) /\ Len(D \o G) = Len(D) + Len(G)
  BY <1>2, ConcatElems
<1>4. Weight(q) + Len(Filter(Q, S)) <= Weight(Q)
  <2>1. \A j \in Elems(Q) \cap S : Len(j.pends) >= 1
    BY <1>1 DEF JobSound
  <2>. QED
    BY <2>1, WeightWithout
<1>5. q \in Seq(Job) /\ Elems(q) \subseteq Elems(Q)
  BY WithoutProperties
<1>6. Weight(q) \in Nat /\ Weight(Q) \in Nat
  BY <1>5, SlotsFinite
<1>7. X \in Nat
  BY LoadType
<1>. HIDE DEF G
<1>8. Y + Weight(R) <= X + Weight(q) + 1 /\ Y \in Nat /\ Weight(R) \in Nat
  <2>1. CASE IsReleaseOf(x, v)
    <3>1. x # NoJob /\ x \in Job /\ R = q /\ y = Join(x, k)
      BY <2>1 DEF IsReleaseOf, RunningAfter, QueueAfter
    <3>2. JobSound(x)
      BY <3>1 DEF WorkerSound
    <3>3. Join(x, k) \in Job /\ Len(Join(x, k).pends) = Len(x.pends) + 1
      BY <3>1, <3>2, JoinLonger DEF JobSound
    <3>4. y # NoJob
      BY <3>1, <3>3, JobType
    <3>. HIDE DEF y, R
    <3>. QED
      BY <1>6, <1>7, <3>1, <3>3, <3>4
  <2>2. CASE ~IsReleaseOf(x, v)
    <3>1. y = x
      BY <2>2 DEF RunningAfter
    <3>2. CASE \E i \in 1..Len(q) : IsReleaseOf(q[i], v)
      <4>1. R = JoinIn(q, v, k)
        BY <2>2, <3>2 DEF QueueAfter
      <4>2. \A i \in 1..Len(q) : Len(q[i].pends) >= 1
        BY <1>1, <1>5 DEF Elems, JobSound
      <4>3. ASSUME NEW i \in 1..Len(q), NEW j \in 1..Len(q),
                   IsReleaseOf(q[i], v), IsReleaseOf(q[j], v)
            PROVE  i = j
        BY <4>3, OneReleaseLeft DEF WorkerSound
      <4>4. PICK m \in 1..Len(q) : IsReleaseOf(q[m], v)
        BY <3>2
      <4>. HIDE DEF q
      <4>5. Weight(JoinIn(q, v, k)) <= Weight(q) + 1
        BY <1>5, <4>2, <4>3, <4>4, WeightJoin
      <4>6. JoinIn(q, v, k) \in Seq(Job)
        BY <1>5, <4>2, JoinInType
      <4>7. Weight(R) \in Nat /\ Weight(R) <= Weight(q) + 1
        BY <4>1, <4>5, <4>6, SlotsFinite
      <4>. HIDE DEF R, y
      <4>. QED
        BY <1>6, <1>7, <3>1, <4>7
    <3>3. CASE ~(\E i \in 1..Len(q) : IsReleaseOf(q[i], v))
      <4>. DEFINE j == NewRelease(v, k)
      <4>1. R = <<j>> \o q
        BY <2>2, <3>3 DEF QueueAfter, Pushed
      <4>2. j \in Job /\ Len(j.pends) = 1
        BY DEF NewRelease, Job
      <4>. HIDE DEF j, q
      <4>3. Weight(<<j>> \o q) <= Weight(q) + 1 /\ <<j>> \o q \in Seq(Job)
        BY <1>5, <4>2, WeightPushed, PushElems
      <4>4. Weight(R) \in Nat /\ Weight(R) <= Weight(q) + 1
        BY <4>1, <4>3, SlotsFinite
      <4>. HIDE DEF R, y
      <4>. QED
        BY <1>6, <1>7, <3>1, <4>4
    <3>. QED
      BY <3>2, <3>3
  <2>. QED
    BY <2>1, <2>2
<1>9. Len(J) \in Nat /\ Len(D) \in Nat
  OBVIOUS
<1>. DEFINE DG == D \o G
<1>10. Load(J, DG, y, R) = Len(J) + (Len(D) + Len(G)) + Y + Weight(R)
  BY <1>3 DEF Load
<1>11. Load(J, D, x, Q) = Len(J) + Len(D) + X + Weight(Q)
  BY DEF Load
<1>. HIDE DEF X, Y, R, y, q, DG
<1>12. Load(J, DG, y, R) \in Nat /\ Load(J, DG, y, R) <= Load(J, D, x, Q) + 1
  <2>. DEFINE jobs_held == Len(J)
              done_held == Len(D)
              cancelled == Len(G)
              kept_held == Weight(q)
              held == Weight(Q)
              now == Weight(R)
              before == Load(J, D, x, Q)
              after == Load(J, DG, y, R)
  <2>1. jobs_held \in Nat /\ done_held \in Nat
    BY <1>9
  <2>2. cancelled \in Nat /\ kept_held + cancelled <= held
    BY <1>2, <1>4
  <2>3. kept_held \in Nat /\ held \in Nat
    BY <1>6
  <2>4. Y + now <= X + kept_held + 1 /\ now \in Nat /\ Y \in Nat
    BY <1>8
  <2>5. after = jobs_held + (done_held + cancelled) + Y + now
    BY <1>10
  <2>6. before = jobs_held + done_held + X + held
    BY <1>11
  <2>. HIDE DEF jobs_held, done_held, cancelled, kept_held, held, now, before, after
  <2>7. after \in Nat /\ after <= before + 1
    BY <1>7, <2>1, <2>2, <2>3, <2>4, <2>5, <2>6
  <2>. QED
    BY <2>7 DEF before, after
<1>. QED
  BY <1>12 DEF DG, G, y, R, q

\* Results behind results.
LEMMA ResultsConcat ==
  ASSUME NEW D \in Seq(Result), NEW F \in Seq(Result)
  PROVE  D \o F \in Seq(Result) /\ Len(D \o F) = Len(D) + Len(F)
  BY ConcatElems, Zenon

\* What the results J being replayed and the worker of rig r hold.
Debt(J, r) == Load(JobsOf(J, r), done[r], running[r], queue[r])

\* Every completion that is to come was counted when its job was submitted.
Owed == \A r \in Rigs : Debt(jobs, r) <= outstanding[r]

\* What a worker holds, by type.
LEMMA WorkerType ==
  ASSUME PInv, NEW r \in Rigs
  PROVE  /\ JobsOf(jobs, r) \in Seq(Result) /\ done[r] \in Seq(Result)
         /\ running[r] \in Job \cup {NoJob} /\ queue[r] \in Seq(Job)
         /\ WorkerSound(running[r], queue[r]) /\ outstanding[r] \in Int
         /\ Debt(jobs, r) \in Nat /\ Debt(jobs, r) >= Len(JobsOf(jobs, r))
<1>1. Lines(pending, jobs, done, running, queue) /\ outstanding \in [Rigs -> Int]
  BY DEF PInv, Ordered, Typed
<1>2. /\ JobsOf(jobs, r) \in Seq(Result) /\ done[r] \in Seq(Result)
      /\ running[r] \in Job \cup {NoJob} /\ queue[r] \in Seq(Job)
      /\ WorkerSound(running[r], queue[r])
  BY <1>1, JobsOfType DEF Lines, RigSound
<1>3. Debt(jobs, r) \in Nat /\ Debt(jobs, r) >= Len(JobsOf(jobs, r))
  BY <1>2, LoadType DEF Debt
<1>. QED
  BY <1>1, <1>2, <1>3

\* So the count is never negative.
LEMMA OwedCounts ==
  ASSUME PInv, Owed
  PROVE  outstanding \in [Rigs -> Nat]
<1>1. outstanding \in [Rigs -> Int]
  BY DEF PInv, Typed
<1>2. ASSUME NEW r \in Rigs PROVE outstanding[r] \in Nat
  <2>1. Debt(jobs, r) \in Nat /\ Debt(jobs, r) <= outstanding[r] /\ outstanding[r] \in Int
    BY WorkerType DEF Owed
  <2>. QED
    BY <2>1
<1>. QED
  BY <1>1, <1>2

\* A key-down is counted.
LEMMA KeyDownOwed ==
  ASSUME PInv, Owed, NEW c \in Clients, NEW r \in Rigs, NEW v \in VFO, KeyDown(c, r, v)
  PROVE  Owed'
<1>1. CASE UNCHANGED <<queue, running, done, outstanding, jobs>>
  BY <1>1 DEF Owed, Debt
<1>2. CASE SubmitKeyDown(r, v, NewId) /\ jobs' = jobs
  <2>. DEFINE j == [vfo |-> v, on |-> TRUE, pends |-> <<NewId>>]
  <2>1. /\ queue' = [queue EXCEPT ![r] = Append(queue[r], j)]
        /\ outstanding' = [outstanding EXCEPT ![r] = outstanding[r] + 1]
        /\ running' = running /\ done' = done
    BY <1>2 DEF SubmitKeyDown
  <2>2. pending \in Seq(Pending) /\ queue \in [Rigs -> Seq(Job)] /\ outstanding \in [Rigs -> Int]
    BY DEF PInv, Ordered, Lines, Typed
  <2>3. NewId \in Nat
    BY <2>2, NewIdFresh
  <2>4. j \in Job /\ Len(j.pends) = 1
    BY <2>3 DEF Job
  <2>. HIDE DEF j
  <2>5. \A s \in Rigs : s # r => queue'[s] = queue[s] /\ outstanding'[s] = outstanding[s]
    BY <2>1, <2>2
  <2>6. queue'[r] = Append(queue[r], j) /\ outstanding'[r] = outstanding[r] + 1
    BY <2>1, <2>2
  <2>7. \A s \in Rigs : s # r => Debt(jobs, s)' = Debt(jobs, s)
    BY <1>2, <2>1, <2>5 DEF Debt
  <2>8. Debt(jobs, r)' <= outstanding'[r]
    <3>1. /\ JobsOf(jobs, r) \in Seq(Result) /\ done[r] \in Seq(Result)
          /\ running[r] \in Job \cup {NoJob} /\ queue[r] \in Seq(Job)
          /\ outstanding[r] \in Int /\ Debt(jobs, r) <= outstanding[r]
      BY WorkerType DEF Owed
    <3>. DEFINE X == IF running[r] = NoJob THEN 0 ELSE Len(running[r].pends)
                q == queue[r]
                a == Append(q, j)
    <3>2. /\ X \in Nat /\ Len(JobsOf(jobs, r)) \in Nat /\ Len(done[r]) \in Nat
          /\ Weight(q) \in Nat
      BY <3>1, LoadType
    <3>3. Weight(a) <= Weight(q) + 1 /\ Weight(a) \in Nat
      <4>. HIDE DEF q
      <4>1. q \in Seq(Job)
        BY <3>1 DEF q
      <4>2. a \in Seq(Job)
        BY <2>4, <4>1, AppendElems
      <4>. QED
        BY <2>4, <4>1, <4>2, WeightAppend, SlotsFinite
    <3>4. Debt(jobs, r) = Len(JobsOf(jobs, r)) + Len(done[r]) + X + Weight(q)
      BY DEF Debt, Load
    <3>5. Debt(jobs, r)' = Len(JobsOf(jobs, r)) + Len(done[r]) + X + Weight(a)
      BY <1>2, <2>1, <2>6 DEF Debt, Load
    <3>. HIDE DEF X, a, q
    <3>. QED
      BY <2>6, <3>1, <3>2, <3>3, <3>4, <3>5
  <2>. QED
    BY <2>5, <2>7, <2>8 DEF Owed
<1>. QED
  BY <1>1, <1>2 DEF KeyDown, worker

\* A release is counted from n on, whatever part J of the results is left.
LEMMA SubmitOwed ==
  ASSUME PInv, NEW J \in Seq(Result), NEW r \in Rigs, NEW v \in VFO, NEW k \in Nat, NEW n \in Int,
         SubmitRelease(r, v, k, n), Debt(J, r) <= n, jobs' = J,
         \A s \in Rigs : s # r => Debt(J, s) <= outstanding[s]
  PROVE  Owed'
<1>1. /\ Submitted(r, v, k, done, running, queue, done', running', queue')
      /\ outstanding' = [outstanding EXCEPT ![r] = n + 1]
  BY SubmitIs DEF PInv
<1>2. /\ done \in [Rigs -> Seq(Result)] /\ running \in [Rigs -> Job \cup {NoJob}]
      /\ queue \in [Rigs -> Seq(Job)] /\ outstanding \in [Rigs -> Int]
  BY DEF PInv, Ordered, Lines, Typed
<1>3. \A s \in Rigs : s # r =>
        /\ done'[s] = done[s] /\ running'[s] = running[s] /\ queue'[s] = queue[s]
        /\ outstanding'[s] = outstanding[s]
  BY <1>1, <1>2 DEF Submitted
<1>4. /\ done'[r] = done[r] \o Cancelled(r, queue[r], v)
      /\ running'[r] = RunningAfter(running[r], v, k)
      /\ queue'[r] = QueueAfter(running[r], Without(queue[r], Cut(queue[r], v)), v, k)
      /\ outstanding'[r] = n + 1
  BY <1>1, <1>2 DEF Submitted
<1>5. /\ done[r] \in Seq(Result) /\ running[r] \in Job \cup {NoJob} /\ queue[r] \in Seq(Job)
      /\ WorkerSound(running[r], queue[r]) /\ JobsOf(J, r) \in Seq(Result)
  BY WorkerType, JobsOfType
<1>. DEFINE after == Load(JobsOf(J, r), done'[r], running'[r], queue'[r])
<1>6. after \in Nat /\ after <= Debt(J, r) + 1
  BY <1>4, <1>5, LoadReleased DEF Debt
<1>7. Debt(J, r) \in Nat
  BY <1>5, LoadType DEF Debt
<1>8. Debt(jobs, r)' = after /\ \A s \in Rigs : s # r => Debt(jobs, s)' = Debt(J, s)
  BY <1>3 DEF Debt
<1>. HIDE DEF after
<1>9. Debt(jobs, r)' <= outstanding'[r]
  BY <1>4, <1>6, <1>7, <1>8
<1>. QED
  BY <1>3, <1>8, <1>9 DEF Owed

\* A request to release is counted if it has a job.
LEMMA RequestOwed ==
  ASSUME PInv, Owed, NEW q, NEW v \in VFO, NEW owner, NEW rejected,
         RequestRelease(q, v, owner, rejected), jobs' = jobs
  PROVE  Owed'
<1>1. CASE UNCHANGED worker
  BY <1>1 DEF Owed, Debt, worker
<1>2. CASE SubmitRelease(Target, v, NewId, outstanding[Target])
  <2>1. Target \in Rigs /\ pending \in Seq(Pending) /\ jobs \in Seq(Result)
    BY TargetRig DEF PInv, Ordered, Lines
  <2>2. NewId \in Nat /\ outstanding[Target] \in Int
    BY <2>1, NewIdFresh, WorkerType
  <2>. QED
    BY <1>2, <2>1, <2>2, SubmitOwed DEF Owed
<1>. QED
  BY <1>1, <1>2 DEF RequestRelease

\* Detaching the results of a worker changes none.
LEMMA DrainOwed ==
  ASSUME PInv, Owed, NEW r \in Rigs, Drain(r)
  PROVE  Owed'
<1>1. /\ jobs = <<>> /\ done[r] # <<>> /\ jobs' = done[r] /\ done' = [done EXCEPT ![r] = <<>>]
      /\ queue' = queue /\ running' = running /\ outstanding' = outstanding
  BY DEF Drain
<1>2. done \in [Rigs -> Seq(Result)] /\ \A y \in Elems(done[r]) : y.rig = r
  BY DEF PInv, Ordered, Lines, RigSound
<1>3. done[r] \in Seq(Result)
  BY <1>2
<1>4. done[r][1].rig = r
  <2>1. done[r][1] \in Elems(done[r])
    BY <1>1, <1>3, TailElems
  <2>. QED
    BY <1>2, <2>1
<1>5. ASSUME NEW s \in Rigs PROVE Debt(jobs, s)' = Debt(jobs, s)
  <2>1. JobsOf(jobs, s) = <<>> /\ Len(<<>>) = 0
    BY <1>1 DEF JobsOf
  <2>2. CASE s = r
    <3>1. JobsOf(jobs', s) = done[s] /\ done'[s] = <<>>
      BY <1>1, <1>2, <1>4, <2>2 DEF JobsOf
    <3>2. Len(done[s]) \in Nat
      BY <1>3, <2>2
    <3>3. Len(JobsOf(jobs, s)) + Len(done[s]) = Len(JobsOf(jobs', s)) + Len(done'[s])
      BY <2>1, <3>1, <3>2
    <3>. QED
      BY <1>1, <3>3 DEF Debt, Load
  <2>3. CASE s # r
    <3>1. JobsOf(jobs', s) = <<>> /\ done'[s] = done[s]
      BY <1>1, <1>2, <1>4, <2>3 DEF JobsOf
    <3>. QED
      BY <1>1, <2>1, <3>1 DEF Debt
  <2>. QED
    BY <2>2, <2>3
<1>. QED
  BY <1>1, <1>5 DEF Owed

\* The worker only moves what it holds.
LEMMA MovedOwed ==
  ASSUME PInv, Owed, NEW r \in Rigs, jobs' = jobs, outstanding' = outstanding,
         \A s \in Rigs : s # r => /\ done'[s] = done[s] /\ running'[s] = running[s]
                                  /\ queue'[s] = queue[s],
         Load(<<>>, done'[r], running'[r], queue'[r]) <= Load(<<>>, done[r], running[r], queue[r]),
         done'[r] \in Seq(Result), running'[r] \in Job \cup {NoJob}, queue'[r] \in Seq(Job)
  PROVE  Owed'
<1>. DEFINE J == JobsOf(jobs, r)
            old == Load(<<>>, done[r], running[r], queue[r])
            new == Load(<<>>, done'[r], running'[r], queue'[r])
<1>1. <<>> \in Seq(Result) /\ Len(<<>>) = 0
  OBVIOUS
<1>2. /\ J \in Seq(Result) /\ done[r] \in Seq(Result) /\ running[r] \in Job \cup {NoJob}
      /\ queue[r] \in Seq(Job) /\ outstanding[r] \in Int /\ Debt(jobs, r) <= outstanding[r]
  BY WorkerType DEF Owed
<1>3. Len(J) \in Nat /\ old \in Nat /\ new \in Nat
  BY <1>1, <1>2, LoadType
<1>4. Debt(jobs, r) = Len(J) + old
  <2>. DEFINE X == IF running[r] = NoJob THEN 0 ELSE Len(running[r].pends)
  <2>1. X \in Nat /\ Len(done[r]) \in Nat /\ Weight(queue[r]) \in Nat
    BY <1>2, LoadType
  <2>2. Debt(jobs, r) = Len(J) + Len(done[r]) + X + Weight(queue[r])
    BY DEF Debt, Load
  <2>3. old = 0 + Len(done[r]) + X + Weight(queue[r])
    BY <1>1 DEF Load
  <2>. HIDE DEF X, J, old
  <2>. QED
    BY <1>3, <2>1, <2>2, <2>3
<1>5. Debt(jobs, r)' = Len(J) + new
  <2>. DEFINE X == IF running'[r] = NoJob THEN 0 ELSE Len(running'[r].pends)
  <2>1. X \in Nat /\ Len(done'[r]) \in Nat /\ Weight(queue'[r]) \in Nat
    BY <1>2, LoadType
  <2>2. Debt(jobs, r)' = Len(J) + Len(done'[r]) + X + Weight(queue'[r])
    BY DEF Debt, Load
  <2>3. new = 0 + Len(done'[r]) + X + Weight(queue'[r])
    BY <1>1 DEF Load
  <2>. HIDE DEF X, J, new
  <2>. QED
    BY <1>3, <2>1, <2>2, <2>3
<1>6. \A s \in Rigs : s # r => Debt(jobs, s)' = Debt(jobs, s)
  BY DEF Debt
<1>. HIDE DEF J, old, new
<1>7. Debt(jobs, r)' <= outstanding'[r]
  <2>1. new <= old
    BY DEF new, old
  <2>. QED
    BY <1>2, <1>3, <1>4, <1>5, <2>1
<1>. QED
  BY <1>6, <1>7 DEF Owed

\* It takes a job.
LEMMA TakeOwed ==
  ASSUME PInv, Owed, NEW r \in Rigs, Take(r)
  PROVE  Owed'
<1>. DEFINE j == Head(queue[r])
            q == queue[r]
            D == done[r]
<1>1. /\ running[r] = NoJob /\ q \in Seq(Job) /\ q # <<>> /\ j \in Job
      /\ queue' = [queue EXCEPT ![r] = Tail(q)]
      /\ queue \in [Rigs -> Seq(Job)] /\ running \in [Rigs -> Job \cup {NoJob}]
      /\ \/ running' = [running EXCEPT ![r] = j] /\ done' = done
         \/ /\ running' = running
            /\ \E F : ResultsOf(F, r, j) /\ done' = [done EXCEPT ![r] = D \o F]
  BY TakeIs
<1>2. D \in Seq(Result) /\ done \in [Rigs -> Seq(Result)]
  BY DEF PInv, Ordered, Lines
<1>3. jobs' = jobs /\ outstanding' = outstanding
  BY DEF Take
<1>4. /\ queue'[r] = Tail(q) /\ Tail(q) \in Seq(Job)
      /\ \A s \in Rigs : s # r => queue'[s] = queue[s]
  BY <1>1, TailElems
<1>5. Weight(Tail(q)) + Len(j.pends) <= Weight(q)
  BY <1>1, WeightTail
<1>6. /\ Weight(Tail(q)) \in Nat /\ Weight(q) \in Nat /\ Len(j.pends) \in Nat /\ Len(D) \in Nat
      /\ j # NoJob
  <2>1. j.pends \in Seq(Nat) /\ j # NoJob
    BY <1>1, JobType
  <2>2. Len(j.pends) \in Nat /\ Len(D) \in Nat
    BY <1>2, <2>1
  <2>3. Weight(Tail(q)) \in Nat /\ Weight(q) \in Nat
    BY <1>1, <1>4, SlotsFinite
  <2>. QED
    BY <2>1, <2>2, <2>3
<1>7. Load(<<>>, D, NoJob, q) = Len(D) + Weight(q)
  BY <1>6 DEF Load
<1>. HIDE DEF j, q, D
<1>8. CASE running' = [running EXCEPT ![r] = j] /\ done' = done
  <2>1. /\ running'[r] = j /\ done'[r] = D
        /\ \A s \in Rigs : s # r => running'[s] = running[s] /\ done'[s] = done[s]
    BY <1>1, <1>8 DEF D
  <2>2. Load(<<>>, D, j, Tail(q)) = Len(D) + Len(j.pends) + Weight(Tail(q))
    BY <1>6 DEF Load
  <2>3. Load(<<>>, D, j, Tail(q)) <= Load(<<>>, D, NoJob, q)
    BY <1>5, <1>6, <1>7, <2>2
  <2>4. /\ done[r] = D /\ queue[r] = q
    BY DEF D, q
  <2>. QED
    BY <1>1, <1>2, <1>3, <1>4, <2>1, <2>3, <2>4, MovedOwed
<1>9. ASSUME NEW F, ResultsOf(F, r, j), done' = [done EXCEPT ![r] = D \o F], running' = running
      PROVE  Owed'
  <2>. DEFINE DF == D \o F
  <2>1. /\ running'[r] = NoJob /\ done'[r] = DF
        /\ \A s \in Rigs : s # r => running'[s] = running[s] /\ done'[s] = done[s]
    BY <1>1, <1>2, <1>9
  <2>2. F \in Seq(Result) /\ Len(F) = Len(j.pends)
    BY <1>9 DEF ResultsOf
  <2>3. DF \in Seq(Result) /\ Len(DF) = Len(D) + Len(j.pends)
    BY <1>2, <2>2, ResultsConcat
  <2>. HIDE DEF DF
  <2>4. Load(<<>>, DF, NoJob, Tail(q)) = Len(D) + Len(j.pends) + Weight(Tail(q))
    BY <1>6, <2>3 DEF Load
  <2>5. Load(<<>>, DF, NoJob, Tail(q)) <= Load(<<>>, D, NoJob, q)
    BY <1>5, <1>6, <1>7, <2>4
  <2>6. done[r] = D /\ queue[r] = q
    BY DEF D, q
  <2>. QED
    BY <1>1, <1>3, <1>4, <2>1, <2>3, <2>5, <2>6, MovedOwed
<1>. QED
  BY <1>1, <1>8, <1>9

\* It executes a job.
LEMMA ExecuteOwed ==
  ASSUME PInv, Owed, NEW r \in Rigs, Execute(r)
  PROVE  Owed'
<1>. DEFINE j == running[r]
            q == queue[r]
            D == done[r]
<1>1. /\ j \in Job /\ running' = [running EXCEPT ![r] = NoJob] /\ queue' = queue
      /\ queue \in [Rigs -> Seq(Job)] /\ running \in [Rigs -> Job \cup {NoJob}]
      /\ \E F : ResultsOf(F, r, j) /\ done' = [done EXCEPT ![r] = D \o F]
  BY ExecuteIs
<1>2. PICK F : ResultsOf(F, r, j) /\ done' = [done EXCEPT ![r] = D \o F]
  BY <1>1
<1>3. D \in Seq(Result) /\ done \in [Rigs -> Seq(Result)] /\ q \in Seq(Job)
  BY <1>1 DEF PInv, Ordered, Lines
<1>4. jobs' = jobs /\ outstanding' = outstanding
  BY DEF Execute
<1>5. Weight(q) \in Nat /\ Len(j.pends) \in Nat /\ Len(D) \in Nat /\ j # NoJob
  <2>1. j.pends \in Seq(Nat) /\ j # NoJob
    BY <1>1, JobType
  <2>. QED
    BY <1>3, <2>1, SlotsFinite
<1>. DEFINE DF == D \o F
<1>6. F \in Seq(Result) /\ Len(F) = Len(j.pends)
  BY <1>2 DEF ResultsOf
<1>7. DF \in Seq(Result) /\ Len(DF) = Len(D) + Len(j.pends)
  BY <1>3, <1>6, ResultsConcat
<1>8. /\ running'[r] = NoJob /\ done'[r] = DF /\ queue'[r] = q
      /\ \A s \in Rigs : s # r =>
           running'[s] = running[s] /\ done'[s] = done[s] /\ queue'[s] = queue[s]
  BY <1>1, <1>2, <1>3
<1>. HIDE DEF DF, j, q, D
<1>9. Load(<<>>, DF, NoJob, q) = Len(D) + Len(j.pends) + Weight(q)
  BY <1>5, <1>7 DEF Load
<1>10. Load(<<>>, D, j, q) = Len(D) + Len(j.pends) + Weight(q)
  BY <1>5 DEF Load
<1>11. Load(<<>>, DF, NoJob, q) <= Load(<<>>, D, j, q)
  BY <1>5, <1>9, <1>10
<1>12. done[r] = D /\ queue[r] = q /\ running[r] = j
  BY DEF D, q, j
<1>. QED
  BY <1>3, <1>4, <1>7, <1>8, <1>11, <1>12, MovedOwed

\* The first result is counted out.
LEMMA ReplayDebt ==
  ASSUME PInv, Owed, NEW j, Replay(j)
  PROVE  /\ j.rig \in Rigs /\ Tail(jobs) \in Seq(Result) /\ Debt(Tail(jobs), j.rig) <= outstanding[j.rig] - 1
         /\ \A s \in Rigs : s # j.rig => Debt(Tail(jobs), s) <= outstanding[s]
<1>. DEFINE t == j.rig
<1>1. /\ j = Head(jobs) /\ jobs # <<>> /\ jobs \in Seq(Result) /\ t \in Rigs
      /\ JobsOf(jobs, t) = jobs /\ JobsOf(Tail(jobs), t) = Tail(jobs)
      /\ \A s : s # t => JobsOf(jobs, s) = <<>> /\ JobsOf(Tail(jobs), s) = <<>>
  BY FirstResult
<1>. HIDE DEF t
<1>2. Tail(jobs) \in Seq(Result) /\ Len(jobs) \in Nat \ {0} /\ Len(Tail(jobs)) = Len(jobs) - 1
  BY <1>1, TailElems
<1>3. /\ done[t] \in Seq(Result) /\ running[t] \in Job \cup {NoJob} /\ queue[t] \in Seq(Job)
      /\ outstanding[t] \in Int /\ Debt(jobs, t) <= outstanding[t]
  BY <1>1, WorkerType DEF Owed
<1>. DEFINE X == IF running[t] = NoJob THEN 0 ELSE Len(running[t].pends)
<1>4. X \in Nat /\ Len(done[t]) \in Nat /\ Weight(queue[t]) \in Nat
  BY <1>2, <1>3, LoadType
<1>5. Debt(jobs, t) = Len(jobs) + Len(done[t]) + X + Weight(queue[t])
  BY <1>1 DEF Debt, Load
<1>6. Debt(Tail(jobs), t) = Len(Tail(jobs)) + Len(done[t]) + X + Weight(queue[t])
  BY <1>1 DEF Debt, Load
<1>. HIDE DEF X
<1>7. Debt(Tail(jobs), t) <= outstanding[t] - 1
  BY <1>2, <1>3, <1>4, <1>5, <1>6
<1>8. \A s \in Rigs : s # t => Debt(Tail(jobs), s) = Debt(jobs, s)
  BY <1>1 DEF Debt
<1>. QED
  BY <1>1, <1>2, <1>7, <1>8 DEF Owed, t

\* A result that nothing follows is counted out.
LEMMA CountedOwed ==
  ASSUME PInv, Owed, NEW j, Replay(j), CountOut(j)
  PROVE  Owed'
<1>1. /\ j.rig \in Rigs /\ Debt(Tail(jobs), j.rig) <= outstanding[j.rig] - 1
      /\ \A s \in Rigs : s # j.rig => Debt(Tail(jobs), s) <= outstanding[s]
  BY ReplayDebt
<1>2. /\ outstanding' = [outstanding EXCEPT ![j.rig] = outstanding[j.rig] - 1]
      /\ queue' = queue /\ running' = running /\ done' = done /\ jobs' = Tail(jobs)
  BY DEF CountOut, Replay
<1>3. outstanding \in [Rigs -> Int]
  BY DEF PInv, Typed
<1>4. \A s \in Rigs : Debt(jobs, s)' = Debt(Tail(jobs), s)
  BY <1>2 DEF Debt
<1>5. /\ outstanding'[j.rig] = outstanding[j.rig] - 1
      /\ \A s \in Rigs : s # j.rig => outstanding'[s] = outstanding[s]
  BY <1>1, <1>2, <1>3
<1>. QED
  BY <1>1, <1>4, <1>5 DEF Owed

\* A key-down that is taken back: its release is counted if it has room.
LEMMA UntrackedOwed ==
  ASSUME PInv, Owed, NEW j, Replay(j), j.vfo \in VFO,
         UntrackedRelease(j.rig, j.vfo, outstanding[j.rig] - 1)
  PROVE  Owed'
<1>. DEFINE n == outstanding[j.rig] - 1
<1>1. /\ j.rig \in Rigs /\ Tail(jobs) \in Seq(Result) /\ Debt(Tail(jobs), j.rig) <= n
      /\ \A s \in Rigs : s # j.rig => Debt(Tail(jobs), s) <= outstanding[s]
  BY ReplayDebt
<1>2. outstanding \in [Rigs -> Int] /\ n \in Int /\ jobs' = Tail(jobs)
  BY <1>1 DEF PInv, Typed, Replay
<1>. HIDE DEF n
<1>3. CASE SubmitRelease(j.rig, j.vfo, 0, n)
  BY <1>1, <1>2, <1>3, SubmitOwed
<1>4. CASE outstanding' = [outstanding EXCEPT ![j.rig] = n] /\ UNCHANGED <<queue, running, done>>
  <2>1. \A s \in Rigs : Debt(jobs, s)' = Debt(Tail(jobs), s)
    BY <1>2, <1>4 DEF Debt
  <2>2. /\ outstanding'[j.rig] = n
        /\ \A s \in Rigs : s # j.rig => outstanding'[s] = outstanding[s]
    BY <1>1, <1>2, <1>4
  <2>. QED
    BY <1>1, <2>1, <2>2 DEF Owed
<1>. QED
  BY <1>3, <1>4 DEF UntrackedRelease, n

\* The request that is completed, without what OneStop gives.
LEMMA CompletedPending ==
  ASSUME PInv, NEW j, NEW p, Completed(j, p)
  PROVE  /\ Replay(j) /\ p \in Elems(pending) /\ p.vfo \in VFO /\ j.vfo \in VFO
         /\ p.rig \in Rigs /\ p.owner \in Client
<1>1. p = PendingOf(j.pend) /\ j.pend # 0 /\ Replay(j) /\ j = Head(jobs) /\ jobs # <<>>
  BY DEF Completed, Replay
<1>2. p \in Elems(pending) /\ p.id = j.pend
  BY <1>1, PendingOfIs DEF PInv
<1>3. p.vfo = j.vfo /\ p.vfo \in VFO
  BY <1>1, <1>2, UnlinkFirst DEF PInv
<1>4. pending \in Seq(Pending)
  BY DEF PInv, Ordered, Lines
<1>5. p \in Pending
  BY <1>2, <1>4 DEF Elems
<1>6. p.rig \in Rigs /\ p.owner \in Client
  BY <1>5 DEF Pending
<1>. QED
  BY <1>1, <1>2, <1>3, <1>6

\* A result is replayed.
LEMMA CompleteOwed ==
  ASSUME PInv, Owed, Complete
  PROVE  Owed'
<1>1. PICK j \in Elems(jobs) :
        \/ DropResult(j)
        \/ \E p \in Elems(pending) :
             \/ CancelStale(j, p) \/ RejectKeyDown(j, p) \/ ConfirmKeyDown(j, p)
             \/ LockKeyDown(j, p) \/ FailRelease(j, p) \/ ConfirmRelease(j, p)
  BY DEF Complete
<1>2. CASE DropResult(j)
  BY <1>2, CountedOwed DEF DropResult
<1>3. ASSUME NEW p, ConfirmKeyDown(j, p) \/ FailRelease(j, p) \/ ConfirmRelease(j, p)
      PROVE  Owed'
  <2>1. Completed(j, p) /\ CountOut(j)
    BY <1>3 DEF ConfirmKeyDown, FailRelease, ConfirmRelease
  <2>. QED
    BY <2>1, CompletedPending, CountedOwed
<1>4. ASSUME NEW p, CancelStale(j, p) \/ RejectKeyDown(j, p) \/ LockKeyDown(j, p)
      PROVE  Owed'
  <2>1. Completed(j, p) /\ UntrackedRelease(j.rig, j.vfo, outstanding[j.rig] - 1)
    BY <1>4 DEF CancelStale, RejectKeyDown, LockKeyDown
  <2>. QED
    BY <2>1, CompletedPending, UntrackedOwed
<1>. QED
  BY <1>1, <1>2, <1>3, <1>4

\* Every action keeps the count.
LEMMA StepOwed ==
  ASSUME PInv, Owed, [Next]_vars
  PROVE  Owed'
<1>1. ASSUME UNCHANGED <<queue, running, done, outstanding, jobs>> PROVE Owed'
  BY <1>1 DEF Owed, Debt
<1>2. ASSUME NEW c \in Clients, NEW r \in Rigs, NEW v \in VFO, KeyDown(c, r, v) PROVE Owed'
  BY <1>2, KeyDownOwed
<1>3. CASE KeyUp
  <2>1. ptt_vfo \in VFO
    BY <1>3 DEF PInv, Typed, KeyUp
  <2>2. jobs' = jobs /\ \E rejected : RequestRelease(pending, ptt_vfo, NoClient, rejected)
    BY <1>3 DEF KeyUp
  <2>. QED
    BY <2>1, <2>2, RequestOwed
<1>4. ASSUME NEW c \in Clients, Disconnect(c) PROVE Owed'
  <2>1. CASE UNCHANGED <<talker, ptt_vfo, worker>>
    BY <1>1, <1>4, <2>1 DEF Disconnect, worker
  <2>2. CASE c = talker
    <3>1. ptt_vfo \in VFO
      BY <2>2, LogAssumption DEF PInv, Typed
    <3>2. jobs' = jobs
          /\ \E rejected : RequestRelease(Orphan(pending, c), ptt_vfo, NoClient, rejected)
      BY <1>4, <2>2 DEF Disconnect
    <3>. QED
      BY <3>1, <3>2, RequestOwed
  <2>. QED
    BY <1>4, <2>1, <2>2 DEF Disconnect
<1>5. CASE OffVfo
  <2>1. off.next \in VFO
    <3>1. off \in Loop /\ off.next < MaxVfos
      BY <1>5 DEF PInv, Typed, OffVfo
    <3>. QED
      BY <3>1, LogAssumption DEF Loop, VFO
  <2>2. jobs' = jobs /\ \E rejected : RequestRelease(pending, off.next, talker, rejected)
    BY <1>5 DEF OffVfo
  <2>. QED
    BY <2>1, <2>2, RequestOwed
<1>6. CASE \/ ForceOff \/ Fault \/ TalkTimeout \/ RetryStop \/ Shutdown
           \/ \E r \in Rigs : EstopTrip(r) \/ EstopReset(r)
  <2>1. PICK why, r : StartOff(why, r)
    BY <1>6, LoopStartIs
  <2>. QED
    BY <1>1, <2>1 DEF StartOff, worker
<1>7. CASE EndOff \/ AccountingFailed \/ UNCHANGED vars
  BY <1>1, <1>7 DEF EndOff, AccountingFailed, worker, vars
<1>8. ASSUME NEW r \in Rigs, Drain(r) \/ Take(r) \/ Execute(r) PROVE Owed'
  BY <1>8, DrainOwed, TakeOwed, ExecuteOwed
<1>9. CASE Complete
  BY <1>9, CompleteOwed
<1>. QED
  BY <1>2, <1>3, <1>4, <1>5, <1>6, <1>7, <1>8, <1>9 DEF Next, WorkerStep

\* Nothing is owed at the start.
LEMMA InitOwed ==
  ASSUME Init
  PROVE  Owed
<1>1. /\ jobs = <<>> /\ queue = [r \in Rigs |-> <<>>] /\ done = [r \in Rigs |-> <<>>]
      /\ running = [r \in Rigs |-> NoJob] /\ outstanding = [r \in Rigs |-> 0]
  BY DEF Init
<1>2. ASSUME NEW r \in Rigs PROVE Debt(jobs, r) <= outstanding[r]
  <2>1. /\ JobsOf(jobs, r) = <<>> /\ queue[r] = <<>> /\ done[r] = <<>> /\ running[r] = NoJob
        /\ outstanding[r] = 0
    BY <1>1 DEF JobsOf
  <2>2. Load(<<>>, <<>>, NoJob, <<>>) = Len(<<>>) + Len(<<>>) + 0 + 0
    BY WeightEmpty DEF Load
  <2>3. Load(<<>>, <<>>, NoJob, <<>>) = 0
    BY <2>2
  <2>. QED
    BY <2>1, <2>3 DEF Debt
<1>. QED
  BY <1>2 DEF Owed

----------------------------------------------------------------------------
(* Types *)

\* The parts of a log.
LEMMA LogParts ==
  ASSUME NEW S \in [VFO -> Rows \cup {0}], NEW O \in [VFO -> Client],
         NEW P \in [Clients -> Rows \cup {0}], NEW R \in [Rows -> Client]
  PROVE  [session |-> S, owner |-> O, ptt_session |-> P, row |-> R] \in LogType
  BY DEF LogType

\* A table with no more entries than that has no more numbers in it.
LEMMA RangeSize ==
  ASSUME NEW S, IsFiniteSet(S), NEW f
  PROVE  /\ IsFiniteSet({f[x] : x \in S}) /\ Cardinality({f[x] : x \in S}) <= Cardinality(S)
         /\ Cardinality({f[x] : x \in S}) \in Nat /\ Cardinality(S) \in Nat
<1>. DEFINE T == {f[x] : x \in S}
            g == [x \in S |-> f[x]]
<1>1. g \in Surjection(S, T)
  BY DEF Surjection
<1>. HIDE DEF T, g
<1>2. IsFiniteSet(T) /\ Cardinality(T) <= Cardinality(S)
  BY <1>1, FS_Surjection
<1>3. Cardinality(T) \in Nat /\ Cardinality(S) \in Nat
  BY <1>2, FS_CardinalityType
<1>. QED
  BY <1>2, <1>3 DEF T

\* ptt_log_start finds a row number that nothing refers to.
LEMMA NewRowIs ==
  ASSUME NEW L \in LogType, NEW v \in VFO, L.session[v] = 0
  PROVE  NewRow(L) \in Rows
<1>. DEFINE W == VFO \ {v}
            A == {L.session[w] : w \in W}
            B == {L.ptt_session[c] : c \in Clients}
            U == A \cup B
<1>1. MaxVfos \in Nat /\ IsFiniteSet(Clients)
  BY LogAssumption
<1>2. IsFiniteSet(VFO) /\ Cardinality(VFO) = MaxVfos
  <2>1. IsFiniteSet(VFO) /\ Cardinality(VFO) = IF 0 > MaxVfos - 1 THEN 0 ELSE (MaxVfos - 1) - 0 + 1
    <3>1. 0 \in Int /\ MaxVfos - 1 \in Int
      BY <1>1
    <3>. QED
      BY <3>1, FS_Interval DEF VFO
  <2>. QED
    BY <1>1, <2>1
<1>3. IsFiniteSet(W) /\ Cardinality(W) = MaxVfos - 1
  BY <1>2, FS_RemoveElement
<1>4. /\ IsFiniteSet(A) /\ Cardinality(A) <= MaxVfos - 1 /\ Cardinality(A) \in Nat
  <2>. DEFINE f == L.session
  <2>. HIDE DEF f, W
  <2>1. IsFiniteSet({f[w] : w \in W}) /\ Cardinality({f[w] : w \in W}) <= Cardinality(W)
        /\ Cardinality({f[w] : w \in W}) \in Nat
    BY <1>3, RangeSize
  <2>. QED
    BY <1>3, <2>1 DEF f
<1>5. /\ IsFiniteSet(B) /\ Cardinality(B) <= Cardinality(Clients) /\ Cardinality(B) \in Nat
      /\ Cardinality(Clients) \in Nat
  <2>. DEFINE f == L.ptt_session
  <2>. HIDE DEF f
  <2>1. IsFiniteSet({f[c] : c \in Clients}) /\ Cardinality({f[c] : c \in Clients}) <= Cardinality(Clients)
        /\ Cardinality({f[c] : c \in Clients}) \in Nat /\ Cardinality(Clients) \in Nat
    BY <1>1, RangeSize
  <2>. QED
    BY <2>1 DEF f
<1>6. IsFiniteSet(Rows) /\ Cardinality(Rows) = MaxVfos + Cardinality(Clients)
  BY <1>1, <1>5, IntervalSize DEF Rows
<1>. HIDE DEF A, B, W
<1>7. IsFiniteSet(U) /\ Cardinality(U) < Cardinality(Rows) /\ Cardinality(U) \in Nat
  <2>1. IsFiniteSet(U) /\ Cardinality(U) = Cardinality(A) + Cardinality(B) - Cardinality(A \cap B)
    BY <1>4, <1>5, FS_Union
  <2>2. IsFiniteSet(A \cap B) /\ Cardinality(A \cap B) \in Nat
    BY <1>4, FS_Subset, FS_CardinalityType
  <2>3. Cardinality(U) \in Nat
    BY <2>1, FS_CardinalityType
  <2>. QED
    BY <1>1, <1>4, <1>5, <1>6, <2>1, <2>2, <2>3
<1>8. PICK s \in Rows : s \notin U
  <2>1. SUFFICES ASSUME Rows \subseteq U PROVE FALSE
    OBVIOUS
  <2>. HIDE DEF U
  <2>2. Cardinality(Rows) <= Cardinality(U)
    BY <1>7, <2>1, FS_Subset
  <2>. QED
    BY <1>1, <1>5, <1>6, <1>7, <2>2
<1>9. s # 0
  BY DEF Rows
<1>10. /\ \A w \in VFO : L.session[w] # s
       /\ \A c \in Clients : L.ptt_session[c] # s
  BY <1>8, <1>9 DEF A, B, W
<1>. QED
  BY <1>10 DEF NewRow

\* Opening a row.
LEMMA LogStartType ==
  ASSUME NEW L \in LogType, NEW c \in Client, NEW v \in VFO, NEW ok
  PROVE  LogStart(L, c, v, ok) \in LogType
<1>1. CASE L.session[v] # 0 \/ ~ok
  BY <1>1 DEF LogStart
<1>2. CASE ~(L.session[v] # 0 \/ ~ok)
  <2>. DEFINE n == NewRow(L)
              S == [L.session EXCEPT ![v] = n]
              O == [L.owner EXCEPT ![v] = c]
              P == [L.ptt_session EXCEPT ![c] = n]
              R == [L.row EXCEPT ![n] = c]
  <2>1. n \in Rows
    BY <1>2, NewRowIs
  <2>2. LogStart(L, c, v, ok) = [session |-> S, owner |-> O, ptt_session |-> P, row |-> R]
    BY <1>2 DEF LogStart
  <2>. HIDE DEF n
  <2>3. /\ S \in [VFO -> Rows \cup {0}] /\ O \in [VFO -> Client]
        /\ P \in [Clients -> Rows \cup {0}] /\ R \in [Rows -> Client]
    BY <2>1 DEF LogType
  <2>. HIDE DEF S, O, P, R
  <2>. QED
    BY <2>2, <2>3, LogParts
<1>. QED
  BY <1>1, <1>2

\* Closing one.
LEMMA LogStopType ==
  ASSUME NEW L \in LogType, NEW c, NEW v, NEW ok
  PROVE  LogStop(L, c, v, ok) \in LogType
<1>. DEFINE who == Holder(L, c, v)
            s == RowOf(L, c, v)
            S == IF s = 0 THEN L.session ELSE [L.session EXCEPT ![v] = 0]
            O == [L.owner EXCEPT ![v] = NoClient]
            P == IF s = 0 \/ who = NoClient THEN L.ptt_session ELSE [L.ptt_session EXCEPT ![who] = 0]
            R == IF s = 0 \/ ~ok THEN L.row ELSE [L.row EXCEPT ![s] = NoClient]
<1>1. LogStop(L, c, v, ok) = [session |-> S, owner |-> O, ptt_session |-> P, row |-> R]
  BY DEF LogStop
<1>. HIDE DEF who, s
<1>2. /\ S \in [VFO -> Rows \cup {0}] /\ O \in [VFO -> Client]
      /\ P \in [Clients -> Rows \cup {0}] /\ R \in [Rows -> Client]
  <2>1. /\ L.session \in [VFO -> Rows \cup {0}] /\ L.owner \in [VFO -> Client]
        /\ L.ptt_session \in [Clients -> Rows \cup {0}] /\ L.row \in [Rows -> Client]
        /\ NoClient \in Client
    BY DEF LogType, Client
  <2>. QED
    BY <2>1
<1>. HIDE DEF S, O, P, R
<1>. QED
  BY <1>1, <1>2, LogParts

\* Closing several.
LEMMA LogStopAllType ==
  ASSUME NEW L \in LogType, NEW c, NEW V, NEW ok
  PROVE  LogStopAll(L, c, V, ok) \in LogType
<1>. DEFINE f == CHOOSE g : Steps(g, L, c, V, ok, MaxVfos)
<1>1. MaxVfos \in Nat
  BY LogAssumption
<1>2. LogStopAll(L, c, V, ok) = f[MaxVfos]
  BY DEF LogStopAll, Steps
<1>3. Steps(f, L, c, V, ok, MaxVfos)
  BY <1>1, StepsExist
<1>. HIDE DEF f
<1>4. \A n \in 0..MaxVfos : f[n] = IF n = 0 THEN L
                                   ELSE IF n - 1 \in V THEN LogStop(f[n - 1], c, n - 1, ok)
                                   ELSE f[n - 1]
  BY <1>3 DEF Steps
<1>. DEFINE S == {n \in 0..MaxVfos : f[n] \notin LogType}
<1>5. ASSUME S # {} PROVE FALSE
  <2>1. S \in SUBSET Nat
    OBVIOUS
  <2>2. PICK n \in S : \A k \in S : n <= k
    BY <1>5, <2>1, LeastNatural
  <2>3. n \in 0..MaxVfos /\ f[n] \notin LogType
    OBVIOUS
  <2>4. n # 0
    BY <1>4, <2>3
  <2>5. n - 1 \in 0..MaxVfos /\ n - 1 \notin S
    BY <1>1, <2>2, <2>3, <2>4
  <2>6. f[n - 1] \in LogType
    BY <2>5
  <2>7. LogStop(f[n - 1], c, n - 1, ok) \in LogType
    BY <2>6, LogStopType
  <2>8. f[n] = f[n - 1] \/ f[n] = LogStop(f[n - 1], c, n - 1, ok)
    BY <1>4, <2>3, <2>4
  <2>. QED
    BY <2>3, <2>6, <2>7, <2>8
<1>6. MaxVfos \in 0..MaxVfos /\ MaxVfos \notin S
  BY <1>1, <1>5
<1>. QED
  BY <1>2, <1>6

\* A closed connection forgets its row.
LEMMA ForgetType ==
  ASSUME NEW L \in LogType, NEW c
  PROVE  Forget(L, c) \in LogType
<1>. DEFINE P == [L.ptt_session EXCEPT ![c] = 0]
<1>1. /\ L.session \in [VFO -> Rows \cup {0}] /\ L.owner \in [VFO -> Client]
      /\ P \in [Clients -> Rows \cup {0}] /\ L.row \in [Rows -> Client]
  BY DEF LogType
<1>2. Forget(L, c) = [session |-> L.session, owner |-> L.owner, ptt_session |-> P, row |-> L.row]
  BY DEF Forget
<1>. HIDE DEF P
<1>. QED
  BY <1>1, <1>2, LogParts

\* The switches, the history and the log have their types.
Flagged ==
  /\ ptt_vfo \in VFO \cup {NoVfo}
  /\ tx_blocked \in BOOLEAN /\ accounting_locked \in BOOLEAN
  /\ stop_pending \in BOOLEAN /\ tot \in BOOLEAN /\ dying \in BOOLEAN
  /\ confirmed \in [Rigs -> [VFO -> BOOLEAN]]
  /\ unreleased \in [Rigs -> [VFO -> BOOLEAN]]
  /\ log \in LogType

\* With the invariant of transmit control that is its type.
LEMMA Types ==
  ASSUME PInv, Owed, Flagged
  PROVE  TypeOK
<1>1. outstanding \in [Rigs -> Nat]
  BY OwedCounts
<1>. QED
  BY <1>1 DEF PInv, Typed, Ordered, Lines, Flagged, TypeOK

\* Writes of the accounting only raise the lock.
LEMMA WritesTyped ==
  ASSUME NEW ok, AfterWrites(ok), accounting_locked \in BOOLEAN, stop_pending \in BOOLEAN
  PROVE  accounting_locked' \in BOOLEAN /\ stop_pending' \in BOOLEAN
<1>. DEFINE lock == Strict /\ ~ok /\ ~accounting_locked
<1>1. /\ accounting_locked' = (accounting_locked \/ lock)
      /\ stop_pending' = (stop_pending \/ lock)
  BY DEF AfterWrites
<1>. HIDE DEF lock
<1>. QED
  BY <1>1, Zenon

\* A result is replayed.
LEMMA CompleteFlagged ==
  ASSUME PInv, Flagged, Complete
  PROVE  Flagged'
<1>1. PICK j \in Elems(jobs) :
        \/ DropResult(j)
        \/ \E p \in Elems(pending) :
             \/ CancelStale(j, p) \/ RejectKeyDown(j, p) \/ ConfirmKeyDown(j, p)
             \/ LockKeyDown(j, p) \/ FailRelease(j, p) \/ ConfirmRelease(j, p)
  BY DEF Complete
<1>2. NoClient \in Client /\ NoVfo \in VFO \cup {NoVfo} /\ log \in LogType
  BY DEF Client, Flagged
<1>3. ASSUME Replay(j) PROVE dying' = dying /\ unreleased' = unreleased
  BY <1>3 DEF Replay
<1>4. CASE DropResult(j)
  BY <1>3, <1>4 DEF DropResult, Flagged
<1>5. ASSUME NEW p, Completed(j, p)
      PROVE  /\ dying' = dying /\ unreleased' = unreleased
             /\ p.vfo \in VFO /\ p.rig \in Rigs /\ p.owner \in Client
  BY <1>3, <1>5, CompletedPending
<1>6. ASSUME NEW p, CancelStale(j, p) PROVE Flagged'
  BY <1>5, <1>6 DEF CancelStale, Flagged
<1>7. ASSUME NEW ok, NEW c, NEW v, log' = LogStop(log, c, v, ok), AfterWrites(ok)
      PROVE  log' \in LogType /\ accounting_locked' \in BOOLEAN /\ stop_pending' \in BOOLEAN
  BY <1>2, <1>7, LogStopType, WritesTyped DEF Flagged
<1>8. ASSUME NEW p, RejectKeyDown(j, p) PROVE Flagged'
  <2>1. /\ dying' = dying /\ unreleased' = unreleased /\ ptt_vfo' = NoVfo
        /\ UNCHANGED <<tx_blocked, tot, confirmed>>
    BY <1>5, <1>8 DEF RejectKeyDown
  <2>2. \/ UNCHANGED <<log, accounting_locked, stop_pending>>
        \/ \E ok \in BOOLEAN : log' = LogStop(log, p.owner, p.vfo, ok) /\ AfterWrites(ok)
    BY <1>8 DEF RejectKeyDown
  <2>3. log' \in LogType /\ accounting_locked' \in BOOLEAN /\ stop_pending' \in BOOLEAN
    BY <1>7, <2>2 DEF Flagged
  <2>. QED
    BY <1>2, <2>1, <2>3 DEF Flagged
<1>9. ASSUME NEW p, ConfirmKeyDown(j, p) PROVE Flagged'
  <2>1. /\ dying' = dying /\ unreleased' = unreleased
        /\ p.vfo \in VFO /\ p.rig \in Rigs /\ p.owner \in Client
    BY <1>5, <1>9 DEF ConfirmKeyDown
  <2>2. /\ UNCHANGED <<ptt_vfo, tx_blocked, accounting_locked, stop_pending>> /\ tot' = TRUE
        /\ confirmed' = [confirmed EXCEPT ![p.rig][p.vfo] = TRUE]
        /\ \E ok \in BOOLEAN : log' = LogStart(log, p.owner, p.vfo, ok)
    BY <1>9 DEF ConfirmKeyDown
  <2>3. log' \in LogType
    BY <1>2, <2>1, <2>2, LogStartType
  <2>4. confirmed' \in [Rigs -> [VFO -> BOOLEAN]]
    BY <2>1, <2>2 DEF Flagged
  <2>. QED
    BY <2>1, <2>2, <2>3, <2>4 DEF Flagged
<1>10. ASSUME NEW p, LockKeyDown(j, p) PROVE Flagged'
  <2>1. /\ dying' = dying /\ unreleased' = unreleased /\ p.vfo \in VFO /\ p.owner \in Client
    BY <1>5, <1>10 DEF LockKeyDown
  <2>2. /\ ptt_vfo' = NoVfo /\ accounting_locked' = TRUE /\ stop_pending' = TRUE /\ tot' = FALSE
        /\ UNCHANGED <<tx_blocked, confirmed>>
    BY <1>10 DEF LockKeyDown
  <2>3. PICK opened \in BOOLEAN : \E ok \in BOOLEAN :
          log' = LogStopAll(LogStart(log, p.owner, p.vfo, opened), p.owner, VFO, ok)
    BY <1>10 DEF LockKeyDown
  <2>4. LogStart(log, p.owner, p.vfo, opened) \in LogType
    BY <1>2, <2>1, LogStartType
  <2>5. log' \in LogType
    BY <2>3, <2>4, LogStopAllType
  <2>. QED
    BY <1>2, <2>1, <2>2, <2>5 DEF Flagged
<1>11. ASSUME NEW p, FailRelease(j, p) PROVE Flagged'
  BY <1>5, <1>11 DEF FailRelease, Flagged
<1>12. ASSUME NEW p, ConfirmRelease(j, p) PROVE Flagged'
  <2>1. /\ dying' = dying /\ unreleased' = unreleased /\ tot' = FALSE
        /\ UNCHANGED <<ptt_vfo, tx_blocked, confirmed>>
    BY <1>5, <1>12 DEF ConfirmRelease
  <2>2. \E ok \in BOOLEAN : log' = LogStop(log, p.owner, p.vfo, ok) /\ AfterWrites(ok)
    BY <1>12 DEF ConfirmRelease
  <2>3. log' \in LogType /\ accounting_locked' \in BOOLEAN /\ stop_pending' \in BOOLEAN
    BY <1>7, <2>2
  <2>. QED
    BY <2>1, <2>3 DEF Flagged
<1>. QED
  BY <1>1, <1>4, <1>6, <1>8, <1>9, <1>10, <1>11, <1>12

\* Every action keeps these types.
LEMMA StepFlagged ==
  ASSUME PInv, Flagged, [Next]_vars
  PROVE  Flagged'
<1>1. /\ NoClient \in Client /\ \A w \in VFO : w \in VFO \cup {NoVfo}
      /\ NoVfo \in VFO \cup {NoVfo}
  BY DEF Client
<1>2. ASSUME UNCHANGED <<ptt_vfo, switches, confirmed, unreleased, log>> PROVE Flagged'
  BY <1>2 DEF Flagged, switches
<1>3. ASSUME NEW c \in Clients, NEW r \in Rigs, NEW v \in VFO, KeyDown(c, r, v) PROVE Flagged'
  <2>1. UNCHANGED <<switches, log, history>> /\ (ptt_vfo' = v \/ ptt_vfo' = ptt_vfo)
    BY <1>3 DEF KeyDown
  <2>. QED
    BY <1>1, <2>1 DEF Flagged, switches, history
<1>4. CASE KeyUp \/ OffVfo
  <2>1. UNCHANGED <<switches, log, history>> /\ (ptt_vfo' = NoVfo \/ ptt_vfo' = ptt_vfo)
    BY <1>4 DEF KeyUp, OffVfo
  <2>. QED
    BY <1>1, <2>1 DEF Flagged, switches, history
<1>5. ASSUME NEW c \in Clients, Disconnect(c) PROVE Flagged'
  <2>1. /\ UNCHANGED <<tx_blocked, tot, dying, history>>
        /\ ptt_vfo' = NoVfo \/ ptt_vfo' = ptt_vfo
    BY <1>5 DEF Disconnect
  <2>2. PICK ok \in BOOLEAN :
          /\ log' = Forget(LogStopAll(log, c, {v \in VFO : log.owner[v] = c}, ok), c)
          /\ AfterWrites(ok)
    BY <1>5 DEF Disconnect
  <2>3. log' \in LogType
    BY <2>2, LogStopAllType, ForgetType DEF Flagged
  <2>4. accounting_locked' \in BOOLEAN /\ stop_pending' \in BOOLEAN
    BY <2>2, WritesTyped DEF Flagged
  <2>. QED
    BY <1>1, <2>1, <2>3, <2>4 DEF Flagged, history
<1>6. CASE \/ ForceOff \/ Fault \/ TalkTimeout \/ RetryStop \/ Shutdown
           \/ \E r \in Rigs : EstopTrip(r) \/ EstopReset(r)
  <2>1. PICK why, r : StartOff(why, r)
    BY <1>6, LoopStartIs
  <2>2. UNCHANGED <<ptt_vfo, tx_blocked, accounting_locked, stop_pending, tot, log, history>>
    BY <2>1 DEF StartOff
  <2>3. dying' = dying \/ dying' = TRUE
    BY <1>6 DEF ForceOff, Fault, TalkTimeout, RetryStop, Shutdown, EstopTrip, EstopReset
  <2>. QED
    BY <2>2, <2>3 DEF Flagged, history
<1>7. CASE EndOff
  <2>1. off \in Loop
    BY <1>7 DEF EndOff, PInv, Typed
  <2>2. off.failed \in BOOLEAN
    BY <2>1 DEF Loop
  <2>3. /\ UNCHANGED <<accounting_locked, dying, log, history>>
        /\ ptt_vfo' = NoVfo \/ ptt_vfo' = ptt_vfo
        /\ tot' = (tot /\ off.failed /\ off.why # "tot")
        /\ tx_blocked' = (tx_blocked \/ off.why = "block")
        /\ stop_pending' = off.failed \/ stop_pending' = stop_pending
    BY <1>7 DEF EndOff
  <2>4. tot' \in BOOLEAN /\ tx_blocked' \in BOOLEAN
    BY <2>3, Zenon
  <2>5. stop_pending' \in BOOLEAN
    BY <2>2, <2>3 DEF Flagged
  <2>. QED
    BY <1>1, <2>3, <2>4, <2>5 DEF Flagged, history
<1>8. ASSUME NEW r \in Rigs, Drain(r) \/ Take(r) PROVE Flagged'
  BY <1>2, <1>8 DEF Drain, Take, history
<1>9. ASSUME NEW r \in Rigs, Execute(r) PROVE Flagged'
  <2>1. UNCHANGED <<ptt_vfo, switches, log>>
    BY <1>9 DEF Execute
  <2>2. PICK f \in BOOLEAN :
          /\ \/ confirmed' = [confirmed EXCEPT ![r][running[r].vfo] = FALSE]
             \/ confirmed' = confirmed
          /\ unreleased' = [unreleased EXCEPT ![r][running[r].vfo] =
               IF running[r].on THEN @ ELSE f /\ (@ \/ Tracked(running[r]))]
    BY <1>9 DEF Execute
  <2>3. running[r].vfo \in VFO
    BY <1>9, ExecuteIs, JobType
  <2>. DEFINE w == running[r].vfo
              b == IF running[r].on THEN unreleased[r][w]
                   ELSE f /\ (unreleased[r][w] \/ Tracked(running[r]))
  <2>4. b \in BOOLEAN
    <3>1. unreleased[r][w] \in BOOLEAN
      BY <2>3 DEF Flagged
    <3>2. (f /\ (unreleased[r][w] \/ Tracked(running[r]))) \in BOOLEAN
      BY Zenon
    <3>. QED
      BY <3>1, <3>2, Zenon
  <2>5. unreleased' = [unreleased EXCEPT ![r][w] = b]
    BY <2>2
  <2>. HIDE DEF b
  <2>6. unreleased' \in [Rigs -> [VFO -> BOOLEAN]]
    BY <2>3, <2>4, <2>5 DEF Flagged
  <2>7. confirmed' \in [Rigs -> [VFO -> BOOLEAN]]
    <3>1. confirmed' = [confirmed EXCEPT ![r][w] = FALSE] \/ confirmed' = confirmed
      BY <2>2
    <3>. DEFINE no == FALSE
    <3>2. w \in VFO /\ no \in BOOLEAN /\ confirmed \in [Rigs -> [VFO -> BOOLEAN]]
      BY <2>3 DEF Flagged
    <3>3. confirmed' = [confirmed EXCEPT ![r][w] = no] \/ confirmed' = confirmed
      BY <3>1
    <3>. HIDE DEF w, no
    <3>4. CASE confirmed' = [confirmed EXCEPT ![r][w] = no]
      BY <3>2, <3>4
    <3>. QED
      BY <3>2, <3>3, <3>4
  <2>. QED
    BY <2>1, <2>6, <2>7 DEF Flagged, switches
<1>10. CASE AccountingFailed
  BY <1>10 DEF AccountingFailed, Flagged, history
<1>11. CASE Complete
  BY <1>11, CompleteFlagged
<1>12. CASE UNCHANGED vars
  BY <1>2, <1>12 DEF vars, history
<1>. QED
  BY <1>3, <1>4, <1>5, <1>6, <1>7, <1>8, <1>9, <1>10, <1>11, <1>12 DEF Next, WorkerStep

\* They hold at the start.
LEMMA InitFlagged ==
  ASSUME Init
  PROVE  Flagged
<1>1. \A w \in VFO : FALSE \in BOOLEAN
  OBVIOUS
<1>2. EmptyLog \in LogType
  <2>. DEFINE S == [v \in VFO |-> 0]
              O == [v \in VFO |-> NoClient]
              P == [c \in Clients |-> 0]
              R == [s \in Rows |-> NoClient]
  <2>1. /\ S \in [VFO -> Rows \cup {0}] /\ O \in [VFO -> Client]
        /\ P \in [Clients -> Rows \cup {0}] /\ R \in [Rows -> Client]
    BY DEF Client
  <2>2. EmptyLog = [session |-> S, owner |-> O, ptt_session |-> P, row |-> R]
    BY DEF EmptyLog
  <2>. HIDE DEF S, O, P, R
  <2>. QED
    BY <2>1, <2>2, LogParts
<1>. QED
  BY <1>2 DEF Init, Flagged, All

\* The type invariant of transmit control.  What it takes is the count of the
\* jobs outstanding: that rr_backend_worker_drain never counts out more than
\* was counted in, whatever a release cancels or shares on its way.
THEOREM PttTypeOK == Spec => []TypeOK
<1>1. Init => PInv /\ Owed /\ Flagged
  BY InitPInv, InitOwed, InitFlagged
<1>2. PInv /\ Owed /\ Flagged /\ [Next]_vars => Owed' /\ Flagged'
  BY StepOwed, StepFlagged
<1>3. PInv /\ Owed /\ Flagged => TypeOK
  BY Types
<1>. QED
  BY <1>1, <1>2, <1>3, PttInvariant, PTL DEF Spec

\* How the audio of a session reaches the owner, and whether it was heard.
Tuned == way \in [Remote -> Way] /\ heard \in [Remote -> BOOLEAN]

\* Every step of a session keeps that.
LEMMA StepTuned ==
  ASSUME Tuned, [RelayNext]_<<vars, relay>>
  PROVE  Tuned'
<1>1. ASSUME KeepTime PROVE heard' \in [Remote -> BOOLEAN]
  <2>1. \A c \in Remote : (heard[c] /\ talker' = c) \in BOOLEAN
    BY Zenon
  <2>. QED
    BY <1>1, <2>1 DEF KeepTime
<1>2. "none" \in Way /\ "proxy" \in Way /\ "direct" \in Way
  BY DEF Way
<1>3. CASE UNCHANGED <<vars, relay>>
  BY <1>3 DEF Tuned, relay
<1>4. CASE Control /\ KeepTime /\ UNCHANGED <<way, kept>>
  BY <1>1, <1>4 DEF Tuned
<1>5. ASSUME NEW c \in Remote,
             \/ \E w \in {"proxy", "direct"} : Subscribe(c, w)
             \/ Unsubscribe(c)
      PROVE  Tuned'
  <2>1. heard' = heard /\ \E w \in Way : way' = [way EXCEPT ![c] = w]
    BY <1>2, <1>5 DEF Subscribe, Unsubscribe
  <2>. QED
    BY <2>1 DEF Tuned
<1>6. ASSUME NEW c \in Remote, Frame(c) \/ Silence(c) PROVE Tuned'
  BY <1>6 DEF Frame, Silence, Tuned
<1>7. ASSUME NEW c \in Remote, NEW w \in Way, NEW force \in BOOLEAN, Detach(c, w, force)
      PROVE  Tuned'
  <2>1. KeepTime /\ way' = [way EXCEPT ![c] = w]
    BY <1>7 DEF Detach
  <2>. QED
    BY <1>1, <2>1 DEF Tuned
<1>8. ASSUME NEW c \in Remote, NEW r \in Rigs, NEW v \in VFO, RemoteKeyDown(c, r, v)
      PROVE  Tuned'
  <2>. DEFINE b == talker' = c
  <2>1. heard' = [heard EXCEPT ![c] = b] /\ way' = way
    BY <1>8 DEF RemoteKeyDown
  <2>2. b \in BOOLEAN
    BY Zenon
  <2>. HIDE DEF b
  <2>. QED
    BY <2>1, <2>2 DEF Tuned
<1>9. ASSUME NEW c \in Remote, retry_remote_ptt(c) \/ RemoveRemote(c) PROVE Tuned'
  <2>1. KeepTime /\ (way' = way \/ way' = [way EXCEPT ![c] = "none"])
    BY <1>9 DEF retry_remote_ptt, RemoveRemote
  <2>. QED
    BY <1>1, <1>2, <2>1 DEF Tuned
<1>. QED
  BY <1>3, <1>4, <1>5, <1>6, <1>7, <1>8, <1>9 DEF RelayNext

\* Forgetting a row changes no type.
LEMMA ForgetTypes ==
  ASSUME Owed, Flagged, ForgetRow
  PROVE  Owed' /\ Flagged'
<1>1. UNCHANGED <<talker, ptt_vfo, ptt_rig, tx_blocked, tot, dying, pending, off, jobs,
                  worker, radio, history>>
  BY DEF ForgetRow
<1>2. PICK c \in Clients, ok \in BOOLEAN :
        log' = Forget(LogStopAll(log, c, {}, ok), c) /\ AfterWrites(ok)
  BY DEF ForgetRow
<1>3. log' \in LogType
  BY <1>2, LogStopAllType, ForgetType DEF Flagged
<1>4. accounting_locked' \in BOOLEAN /\ stop_pending' \in BOOLEAN
  BY <1>2, WritesTyped DEF Flagged
<1>5. Owed'
  BY <1>1 DEF Owed, Debt, worker
<1>6. Flagged'
  BY <1>1, <1>3, <1>4 DEF Flagged, history
<1>. QED
  BY <1>5, <1>6

\* The type invariant with remote operators, whose sessions are closed without
\* a connection that closes (rr_relay_remove_remote).
THEOREM RelayTypes == RelaySpec => []RelayTypeOK
<1>. DEFINE Inv == PInv /\ Owed /\ Flagged /\ KeptFree /\ Tuned
<1>1. RelayInit => Inv
  <2>1. Init => PInv /\ Owed /\ Flagged
    BY InitPInv, InitOwed, InitFlagged
  <2>2. RelayInit => Init /\ KeptFree /\ Tuned
    BY DEF RelayInit, KeptFree, Tuned, Way
  <2>. QED
    BY <2>1, <2>2
<1>2. Inv /\ [RelayNext]_<<vars, relay>> => Inv'
  <2>. SUFFICES ASSUME Inv, [RelayNext]_<<vars, relay>> PROVE Inv'
    OBVIOUS
  <2>1. KeptFree' /\ ([Next]_vars \/ ForgetRow)
    BY RelayStep
  <2>2. Tuned'
    BY StepTuned
  <2>3. CASE [Next]_vars
    <3>1. PInv' /\ Owed' /\ Flagged'
      BY <2>3, StepPInv, StepOwed, StepFlagged
    <3>. QED
      BY <2>1, <2>2, <3>1
  <2>4. CASE ForgetRow
    <3>1. Owed' /\ Flagged'
      BY <2>4, ForgetTypes
    <3>2. PInv'
      BY <2>4, QuietStep DEF ForgetRow, worker, radio, history
    <3>. QED
      BY <2>1, <2>2, <3>1, <3>2
  <2>. QED
    BY <2>1, <2>3, <2>4
<1>3. Inv => RelayTypeOK
  BY Types DEF RelayTypeOK, KeptFree, Tuned
<1>. QED
  BY <1>1, <1>2, <1>3, PTL DEF RelaySpec
=============================================================================
