---------------------------- MODULE BridgeProofs ----------------------------
(***************************************************************************)
(* Proofs about Bridge, for every number of frequencies, modes, attempts   *)
(* and faults: no callback is lost, and the last choice wins.              *)
(***************************************************************************)
EXTENDS Bridge, ListsProofs

----------------------------------------------------------------------------
(* The inductive invariant, of a record of the state *)

\* What the process writes, and what it reads.
UpRecord ==
  [type : {"HELLO", "CAPABILITIES", "LOG"}]
    \cup [type : {"STATE"}, available : {TRUE}, setting : Setting]
    \cup [type : {"STATE"}, available : {FALSE}, setting : {None}]
    \cup [type : {"RESULT"}, request : Id, success : BOOLEAN]

DownRecord ==
  [type : {"SHUTDOWN"}] \cup [type : {"SET"}, request : Id, setting : Setting]

States ==
  [b : Bridge, kid : Process, up : Seq(UpRecord), down : Seq(DownRecord),
   owed : Int, choice : ChoiceHistory]

\* The phases of the connection.
Phases(w) ==
  /\ w.b.ready => w.b.fd /\ w.b.hello
  /\ w.b.online => w.b.ready
  /\ w.b.online <=> w.b.seen # None
  /\ ~w.b.fd => w.up = <<>> /\ w.down = <<>>
  /\ w.kid.proc \in {"start", "up", "stuck"} => w.b.fd
  /\ w.b.fd => w.kid.proc # "none"

Owes(w) == w.owed = IF w.b.complete THEN 1 ELSE 0

\* What the supervisor keeps of a request.
Requests(w) ==
  /\ w.b.complete => w.b.pending # 0
  /\ Owes(w)
  /\ w.b.pending # 0 => w.b.online
  /\ w.b.pending # 0 <=> w.b.requested # None
  /\ w.b.queued # None => w.b.pending # 0
  /\ w.b.online => w.b.desired # None

\* The supervisor keeps the choice in force and the one that waits, and, unless
\* it has just lost the receiver, the one that was asked for.
Holds(w) == w.choice.granted = w.b.desired /\ w.choice.waiting = w.b.queued

Kept(w) == Holds(w) /\ w.choice.asked = w.b.requested

\* The driver waits for one setting, on the air.
Waits(k) ==
  /\ k.request # 0 => k.link = "online"
  /\ k.request = 0 /\ k.hz # None => k.wanted = k.hz
  /\ k.proc = "start" => k.link = "down"

\* The process is up and was not told to leave.
Serves(w) ==
  /\ w.kid.proc \in {"start", "up"}
  /\ \A i \in 1..Len(w.down) : w.down[i].type # "SHUTDOWN"

\* The tuning the process reported last is t.
Tuning(k) == IF k.link = "online" THEN k.hz ELSE None

NoState(q) == \A i \in 1..Len(q) : q[i].type # "STATE"

LastState(q, t) ==
  \E i \in 1..Len(q) : /\ q[i].type = "STATE" /\ q[i].setting = t
                       /\ \A k \in 1..Len(q) : q[k].type = "STATE" => k <= i

Reported(q, seen, t) == (NoState(q) /\ seen = t) \/ LastState(q, t)

NoResult(q) == \A i \in 1..Len(q) : q[i].type # "RESULT"

Unanswered(q, id) == \A i \in 1..Len(q) : q[i].type = "RESULT" => q[i].request # id

\* The setting s of request id is the last that was sent.
AtSocket(d, k, q, id, s) ==
  /\ Len(d) # 0
  /\ d[Len(d)].type = "SET" /\ d[Len(d)].request = id /\ d[Len(d)].setting = s
  /\ \A i \in 1..Len(d) : i < Len(d) => d[i].request # id
  /\ k.request # id /\ Unanswered(q, id)

\* The driver has it.
AtDriver(d, k, q, id, s) ==
  /\ d = <<>> /\ k.request = id /\ k.wanted = s /\ Unanswered(q, id)

\* Its result is the last that was sent.
Answered(d, k, q, id, s) ==
  /\ d = <<>> /\ k.request = 0
  /\ \E i \in 1..Len(q) :
       /\ q[i].type = "RESULT" /\ q[i].request = id
       /\ q[i].success => k.hz = s
       /\ \A n \in 1..Len(q) :
            q[n].type = "RESULT" /\ n # i => n < i /\ q[n].request # id

InFlightOnce(d, k, q, id, s) ==
  AtSocket(d, k, q, id, s) \/ AtDriver(d, k, q, id, s) \/ Answered(d, k, q, id, s)

\* No setting is anywhere on its way.
Unasked(w) == w.down = <<>> /\ w.kid.request = 0 /\ NoResult(w.up)

\* The only tuning reported is hz.
Reports(q, hz) ==
  \A i \in 1..Len(q) : q[i].type = "STATE" => q[i].setting \in {None, hz}

Succeeded(q) == \E i \in 1..Len(q) : q[i].type = "RESULT" /\ q[i].success

\* The pending setting is the only one: the receiver has the choice in force
\* until it grants that one.
Alone(w) ==
  /\ w.kid.request \in {0, w.b.pending}
  /\ \A i \in 1..Len(w.down) : w.down[i].request = w.b.pending
  /\ w.kid.hz = w.b.desired \/ Succeeded(w.up)

\* The receiver has the choice in force.  Of the setting that is sent to go back
\* to it only the answer can tell.
Tuned(w) ==
  IF w.b.pending = 0 THEN w.kid.hz = w.b.desired
  ELSE w.b.requested # w.b.desired => Alone(w)

Underway(w) ==
  /\ w.b.pending # 0 => InFlightOnce(w.down, w.kid, w.up, w.b.pending, w.b.requested)
  /\ w.b.pending = 0 /\ (w.b.online \/ w.b.desired = None) => Unasked(w)
  /\ w.b.desired = None => Reports(w.up, w.kid.hz)
  /\ w.b.online /\ ~w.choice.astray => Tuned(w)

\* A process that serves is being listened to.
Service(w) ==
  Serves(w) => /\ ~w.b.idling /\ Reported(w.up, w.b.seen, Tuning(w.kid))
               /\ Underway(w)

BInv(w) ==
  /\ w \in States
  /\ Phases(w) /\ Requests(w) /\ Kept(w) /\ Waits(w.kid) /\ Service(w)

Inv == BInv(Now) /\ demand \in BOOLEAN /\ faults \in 0..MaxFaults

----------------------------------------------------------------------------
(* Lists of records *)

\* Two records, one after the other.
LEMMA PairIs ==
  ASSUME NEW X, NEW x \in X, NEW y \in X
  PROVE  <<x>> \o <<y>> = <<x, y>>
<1>. DEFINE a == <<x>>
            c == <<y>>
            m == a \o c
            p == <<x, y>>
<1>1. /\ a \in Seq(X) /\ Len(a) = 1 /\ a[1] = x /\ c \in Seq(X) /\ Len(c) = 1 /\ c[1] = y
      /\ p \in Seq(X) /\ Len(p) = 2 /\ p[1] = x /\ p[2] = y
  OBVIOUS
<1>. HIDE DEF a, c, p
<1>2. /\ m \in Seq(X) /\ Len(m) = 2
      /\ \A i \in 1..2 : m[i] = IF i <= 1 THEN a[i] ELSE c[i - 1]
  BY <1>1, ConcatProperties
<1>3. m[1] = x /\ m[2] = y
  BY <1>1, <1>2
<1>. HIDE DEF m
<1>4. m = p
  BY <1>1, <1>2, <1>3, SeqEqual
<1>. QED
  BY <1>4 DEF m, a, c, p

\* Three records.
LEMMA TripleIs ==
  ASSUME NEW X, NEW x \in X, NEW y \in X, NEW z \in X
  PROVE  <<x, y>> \o <<z>> = <<x, y, z>>
<1>. DEFINE a == <<x, y>>
            c == <<z>>
            m == a \o c
            p == <<x, y, z>>
<1>1. /\ a \in Seq(X) /\ Len(a) = 2 /\ a[1] = x /\ a[2] = y /\ c \in Seq(X) /\ Len(c) = 1 /\ c[1] = z
      /\ p \in Seq(X) /\ Len(p) = 3 /\ p[1] = x /\ p[2] = y /\ p[3] = z
  OBVIOUS
<1>. HIDE DEF a, c, p
<1>2. /\ m \in Seq(X) /\ Len(m) = 3
      /\ \A i \in 1..3 : m[i] = IF i <= 2 THEN a[i] ELSE c[i - 2]
  <2>1. /\ m \in Seq(X) /\ Len(m) = Len(a) + Len(c)
        /\ \A i \in 1..Len(a) + Len(c) : m[i] = IF i <= Len(a) THEN a[i] ELSE c[i - Len(a)]
    BY <1>1, ConcatProperties
  <2>2. Len(a) + Len(c) = 3 /\ Len(a) = 2
    BY <1>1
  <2>. HIDE DEF m
  <2>. QED
    BY <2>1, <2>2
<1>3. m[1] = x /\ m[2] = y /\ m[3] = z
  <2>1. 1 \in 1..3 /\ 2 \in 1..3 /\ 3 \in 1..3 /\ 3 - 2 = 1 /\ ~(3 <= 2)
    OBVIOUS
  <2>2. m[1] = a[1] /\ m[2] = a[2]
    BY <1>2, <2>1
  <2>3. m[3] = c[1]
    BY <1>2, <2>1
  <2>. QED
    BY <1>1, <2>2, <2>3
<1>. HIDE DEF m
<1>5. \A i \in 1..3 : i = 1 \/ i = 2 \/ i = 3
  OBVIOUS
<1>4. m = p
  BY <1>1, <1>2, <1>3, <1>5, SeqEqual
<1>. QED
  BY <1>4 DEF m, a, c, p

\* Taking the first record.
LEMMA TailIs ==
  ASSUME NEW X, NEW q \in Seq(X), q # <<>>
  PROVE  /\ Head(q) = q[1] /\ Head(q) \in X /\ Len(q) \in Nat /\ Len(q) # 0
         /\ Tail(q) \in Seq(X) /\ Len(Tail(q)) = Len(q) - 1
         /\ \A i \in 1..Len(Tail(q)) : i + 1 \in 1..Len(q) /\ Tail(q)[i] = q[i + 1]
         /\ \A i \in 1..Len(q) : i # 1 => i - 1 \in 1..Len(Tail(q)) /\ q[i] = Tail(q)[i - 1]
OBVIOUS

\* Records behind others.
LEMMA ConcatIs ==
  ASSUME NEW X, NEW q \in Seq(X), NEW e \in Seq(X)
  PROVE  /\ Len(q) \in Nat /\ Len(e) \in Nat
         /\ q \o e \in Seq(X) /\ Len(q \o e) = Len(q) + Len(e)
         /\ \A i \in 1..Len(q) : i \in 1..Len(q \o e) /\ (q \o e)[i] = q[i]
         /\ \A i \in 1..Len(e) : i + Len(q) \in 1..Len(q \o e) /\ (q \o e)[i + Len(q)] = e[i]
         /\ \A i \in 1..Len(q \o e) : ~(i <= Len(q)) =>
              i - Len(q) \in 1..Len(e) /\ (q \o e)[i] = e[i - Len(q)]
OBVIOUS

\* A record that does not report the tuning is read.
LEMMA TailReported ==
  ASSUME NEW X, NEW q \in Seq(X), q # <<>>, NEW seen, NEW t, Reported(q, seen, t)
  PROVE  Reported(Tail(q), IF Head(q).type = "STATE" THEN Head(q).setting ELSE seen, t)
<1>. DEFINE T == Tail(q)
            x == Head(q)
<1>1. /\ x = q[1] /\ Len(q) \in Nat /\ Len(T) \in Nat /\ Len(q) # 0 /\ Len(T) = Len(q) - 1
      /\ \A i \in 1..Len(T) : i + 1 \in 1..Len(q) /\ T[i] = q[i + 1]
      /\ \A i \in 1..Len(q) : i # 1 => i - 1 \in 1..Len(T) /\ q[i] = T[i - 1]
  BY TailIs
<1>. HIDE DEF T, x
<1>2. CASE NoState(q) /\ seen = t
  <2>1. NoState(T) /\ x.type # "STATE"
    BY <1>1, <1>2 DEF NoState
  <2>. QED
    BY <1>2, <2>1 DEF Reported, T, x
<1>3. CASE LastState(q, t)
  <2>1. PICK i \in 1..Len(q) : /\ q[i].type = "STATE" /\ q[i].setting = t
                               /\ \A k \in 1..Len(q) : q[k].type = "STATE" => k <= i
    BY <1>3 DEF LastState
  <2>2. CASE i = 1
    <3>1. NoState(T)
      BY <1>1, <2>1, <2>2 DEF NoState
    <3>2. x.type = "STATE" /\ x.setting = t
      BY <1>1, <2>1, <2>2
    <3>. QED
      BY <3>1, <3>2 DEF Reported, T, x
  <2>3. CASE i # 1
    <3>1. /\ i - 1 \in 1..Len(T) /\ T[i - 1].type = "STATE" /\ T[i - 1].setting = t
      BY <1>1, <2>1, <2>3
    <3>2. \A k \in 1..Len(T) : T[k].type = "STATE" => k <= i - 1
      BY <1>1, <2>1
    <3>3. LastState(T, t)
      BY <3>1, <3>2 DEF LastState
    <3>. QED
      BY <3>3 DEF Reported, T
  <2>. QED
    BY <2>2, <2>3
<1>. QED
  BY <1>2, <1>3 DEF Reported

\* Records that do not report the tuning are sent.
LEMMA ReportedBehind ==
  ASSUME NEW X, NEW q \in Seq(X), NEW e \in Seq(X), NEW seen, NEW t,
         Reported(q, seen, t), NoState(e)
  PROVE  Reported(q \o e, seen, t)
<1>. DEFINE m == q \o e
<1>1. /\ Len(q) \in Nat /\ Len(e) \in Nat /\ Len(m) = Len(q) + Len(e)
      /\ \A i \in 1..Len(q) : i \in 1..Len(m) /\ m[i] = q[i]
      /\ \A i \in 1..Len(m) : ~(i <= Len(q)) => i - Len(q) \in 1..Len(e) /\ m[i] = e[i - Len(q)]
  BY ConcatIs
<1>. HIDE DEF m
<1>2. \A i \in 1..Len(m) : m[i].type = "STATE" => i \in 1..Len(q)
  BY <1>1 DEF NoState
<1>3. CASE NoState(q) /\ seen = t
  <2>1. NoState(m)
    BY <1>1, <1>2, <1>3 DEF NoState
  <2>. QED
    BY <1>3, <2>1 DEF Reported, m
<1>4. CASE LastState(q, t)
  <2>1. LastState(m, t)
    BY <1>1, <1>2, <1>4 DEF LastState
  <2>. QED
    BY <2>1 DEF Reported, m
<1>. QED
  BY <1>3, <1>4 DEF Reported

\* The tuning is reported.
LEMMA StateBehind ==
  ASSUME NEW X, NEW q \in Seq(X), NEW e \in Seq(X), NEW seen, NEW t, LastState(e, t)
  PROVE  Reported(q \o e, seen, t)
<1>. DEFINE m == q \o e
<1>1. /\ Len(q) \in Nat /\ Len(e) \in Nat /\ Len(m) = Len(q) + Len(e)
      /\ \A i \in 1..Len(e) : i + Len(q) \in 1..Len(m) /\ m[i + Len(q)] = e[i]
      /\ \A i \in 1..Len(m) : ~(i <= Len(q)) => i - Len(q) \in 1..Len(e) /\ m[i] = e[i - Len(q)]
  BY ConcatIs
<1>. HIDE DEF m
<1>2. PICK i \in 1..Len(e) : /\ e[i].type = "STATE" /\ e[i].setting = t
                             /\ \A k \in 1..Len(e) : e[k].type = "STATE" => k <= i
  BY DEF LastState
<1>3. /\ i + Len(q) \in 1..Len(m) /\ m[i + Len(q)].type = "STATE" /\ m[i + Len(q)].setting = t
  BY <1>1, <1>2
<1>4. ASSUME NEW k \in 1..Len(m), m[k].type = "STATE" PROVE k <= i + Len(q)
  <2>1. CASE k <= Len(q)
    BY <1>1, <2>1
  <2>2. CASE ~(k <= Len(q))
    <3>1. k - Len(q) \in 1..Len(e) /\ m[k] = e[k - Len(q)]
      BY <1>1, <2>2
    <3>2. k - Len(q) <= i
      BY <1>2, <1>4, <3>1
    <3>. QED
      BY <1>1, <3>2
  <2>. QED
    BY <2>1, <2>2
<1>5. LastState(m, t)
  BY <1>3, <1>4 DEF LastState
<1>. QED
  BY <1>5 DEF Reported, m

\* A record is read: what the others were not, they are not.
LEMMA TailKeeps ==
  ASSUME NEW X, NEW q \in Seq(X), q # <<>>, NEW hz
  PROVE  /\ NoResult(q) => NoResult(Tail(q))
         /\ Reports(q, hz) =>
              /\ Reports(Tail(q), hz)
              /\ Head(q).type = "STATE" => Head(q).setting \in {None, hz}
<1>. DEFINE T == Tail(q)
<1>1. /\ Head(q) = q[1] /\ 1 \in 1..Len(q)
      /\ \A i \in 1..Len(T) : i + 1 \in 1..Len(q) /\ T[i] = q[i + 1]
  BY TailIs
<1>. HIDE DEF T
<1>2. NoResult(q) => NoResult(T)
  BY <1>1 DEF NoResult
<1>3. Reports(q, hz) => Reports(T, hz)
  BY <1>1 DEF Reports
<1>. QED
  BY <1>1, <1>2, <1>3 DEF Reports, T

\* Records are sent: what all are not, none is; what one is, one is.
LEMMA ConcatKeeps ==
  ASSUME NEW X, NEW q \in Seq(X), NEW e \in Seq(X), NEW hz
  PROVE  /\ NoResult(q) /\ NoResult(e) => NoResult(q \o e)
         /\ Reports(q, hz) /\ Reports(e, hz) => Reports(q \o e, hz)
         /\ Succeeded(q) \/ Succeeded(e) => Succeeded(q \o e)
<1>. DEFINE m == q \o e
<1>1. /\ Len(q) \in Nat /\ Len(e) \in Nat
      /\ \A i \in 1..Len(q) : i \in 1..Len(m) /\ m[i] = q[i]
      /\ \A i \in 1..Len(e) : i + Len(q) \in 1..Len(m) /\ m[i + Len(q)] = e[i]
      /\ \A i \in 1..Len(m) : ~(i <= Len(q)) => i - Len(q) \in 1..Len(e) /\ m[i] = e[i - Len(q)]
  BY ConcatIs
<1>2. \A i \in 1..Len(m) : i <= Len(q) => i \in 1..Len(q)
  BY <1>1
<1>. HIDE DEF m
<1>3. NoResult(q) /\ NoResult(e) => NoResult(m)
  BY <1>1, <1>2 DEF NoResult
<1>4. Reports(q, hz) /\ Reports(e, hz) => Reports(m, hz)
  BY <1>1, <1>2 DEF Reports
<1>5. Succeeded(q) \/ Succeeded(e) => Succeeded(m)
  BY <1>1 DEF Succeeded
<1>. QED
  BY <1>3, <1>4, <1>5 DEF m

\* A record that is no result is read.
LEMMA TailInFlight ==
  ASSUME NEW X, NEW q \in Seq(X), q # <<>>, Head(q).type # "RESULT", NEW d, NEW k, NEW id, NEW s
  PROVE  /\ Succeeded(q) => Succeeded(Tail(q))
         /\ InFlightOnce(d, k, q, id, s) => InFlightOnce(d, k, Tail(q), id, s)
<1>. DEFINE T == Tail(q)
<1>1. /\ q[1].type # "RESULT" /\ Len(q) \in Nat /\ Len(T) \in Nat /\ Len(T) = Len(q) - 1
      /\ \A i \in 1..Len(T) : i + 1 \in 1..Len(q) /\ T[i] = q[i + 1]
      /\ \A i \in 1..Len(q) : i # 1 => i - 1 \in 1..Len(T) /\ q[i] = T[i - 1]
  BY TailIs
<1>. HIDE DEF T
<1>2. ASSUME Succeeded(q) PROVE Succeeded(T)
  <2>1. PICK i \in 1..Len(q) : q[i].type = "RESULT" /\ q[i].success
    BY <1>2 DEF Succeeded
  <2>2. i # 1 /\ i - 1 \in 1..Len(T) /\ T[i - 1] = q[i]
    BY <1>1, <2>1
  <2>. QED
    BY <2>1, <2>2 DEF Succeeded
<1>3. Unanswered(q, id) => Unanswered(T, id)
  BY <1>1 DEF Unanswered
<1>4. ASSUME Answered(d, k, q, id, s) PROVE Answered(d, k, T, id, s)
  <2>1. PICK i \in 1..Len(q) :
          /\ q[i].type = "RESULT" /\ q[i].request = id
          /\ q[i].success => k.hz = s
          /\ \A n \in 1..Len(q) : q[n].type = "RESULT" /\ n # i => n < i /\ q[n].request # id
    BY <1>4 DEF Answered
  <2>2. i # 1 /\ i - 1 \in 1..Len(T) /\ T[i - 1] = q[i]
    BY <1>1, <2>1
  <2>3. ASSUME NEW n \in 1..Len(T), T[n].type = "RESULT", n # i - 1
        PROVE  n < i - 1 /\ T[n].request # id
    <3>1. n + 1 \in 1..Len(q) /\ T[n] = q[n + 1] /\ n + 1 # i
      BY <1>1, <2>3
    <3>2. n + 1 < i /\ q[n + 1].request # id
      BY <2>1, <2>3, <3>1
    <3>. QED
      BY <3>1, <3>2
  <2>. QED
    BY <1>4, <2>1, <2>2, <2>3 DEF Answered
<1>. QED
  BY <1>2, <1>3, <1>4 DEF InFlightOnce, AtSocket, AtDriver, T

\* The result of the pending request is read: nothing else is underway.
LEMMA TailAnswered ==
  ASSUME NEW X, NEW q \in Seq(X), q # <<>>, Head(q).type = "RESULT", NEW d, NEW k, NEW s,
         InFlightOnce(d, k, q, Head(q).request, s)
  PROVE  /\ d = <<>> /\ k.request = 0 /\ NoResult(Tail(q))
         /\ Head(q).success => k.hz = s
         /\ Succeeded(q) => Head(q).success
<1>. DEFINE T == Tail(q)
            x == Head(q)
            id == x.request
<1>1. /\ x = q[1] /\ 1 \in 1..Len(q) /\ Len(q) \in Nat /\ Len(T) \in Nat
      /\ \A i \in 1..Len(T) : i + 1 \in 1..Len(q) /\ T[i] = q[i + 1]
  BY TailIs
<1>2. x.type = "RESULT" /\ InFlightOnce(d, k, q, id, s) /\ x.request = id
  OBVIOUS
<1>. HIDE DEF T, x, id
<1>3. ~Unanswered(q, id)
  BY <1>1, <1>2 DEF Unanswered
<1>4. Answered(d, k, q, id, s)
  BY <1>2, <1>3 DEF InFlightOnce, AtSocket, AtDriver
<1>5. PICK i \in 1..Len(q) :
        /\ q[i].success => k.hz = s
        /\ \A n \in 1..Len(q) : q[n].type = "RESULT" /\ n # i => n < i /\ q[n].request # id
  BY <1>4 DEF Answered
<1>6. i = 1
  BY <1>1, <1>2, <1>5
<1>7. NoResult(T)
  <2>. SUFFICES ASSUME NEW n \in 1..Len(T), T[n].type = "RESULT" PROVE FALSE
    BY DEF NoResult
  <2>1. n + 1 \in 1..Len(q) /\ q[n + 1].type = "RESULT" /\ n + 1 # 1
    BY <1>1
  <2>2. n + 1 < 1
    BY <1>5, <1>6, <2>1
  <2>. QED
    BY <2>2
<1>8. ASSUME Succeeded(q) PROVE x.success
  <2>1. PICK n \in 1..Len(q) : q[n].type = "RESULT" /\ q[n].success
    BY <1>8 DEF Succeeded
  <2>2. n = 1
    BY <1>5, <1>6, <2>1
  <2>. QED
    BY <1>1, <2>1, <2>2
<1>. QED
  BY <1>1, <1>4, <1>5, <1>6, <1>7, <1>8 DEF Answered, T, x

\* Records that are no results are sent; the driver waits as before.
LEMMA InFlightBehind ==
  ASSUME NEW X, NEW q \in Seq(X), NEW e \in Seq(X), NoResult(e), NEW d, NEW k, NEW l, NEW id, NEW s,
         l.request = k.request, k.request = id => l.wanted = k.wanted,
         k.request = 0 /\ k.hz = s => l.hz = s
  PROVE  InFlightOnce(d, k, q, id, s) => InFlightOnce(d, l, q \o e, id, s)
<1>. DEFINE m == q \o e
<1>1. /\ Len(q) \in Nat /\ Len(e) \in Nat /\ Len(m) = Len(q) + Len(e)
      /\ \A i \in 1..Len(q) : i \in 1..Len(m) /\ m[i] = q[i]
      /\ \A i \in 1..Len(m) : ~(i <= Len(q)) => i - Len(q) \in 1..Len(e) /\ m[i] = e[i - Len(q)]
  BY ConcatIs
<1>. HIDE DEF m
<1>2. \A i \in 1..Len(m) : m[i].type = "RESULT" => i \in 1..Len(q)
  BY <1>1 DEF NoResult
<1>4. Unanswered(q, id) => Unanswered(m, id)
  BY <1>1, <1>2 DEF Unanswered
<1>5. ASSUME Answered(d, k, q, id, s) PROVE Answered(d, l, m, id, s)
  <2>1. PICK i \in 1..Len(q) :
          /\ q[i].type = "RESULT" /\ q[i].request = id
          /\ q[i].success => k.hz = s
          /\ \A n \in 1..Len(q) : q[n].type = "RESULT" /\ n # i => n < i /\ q[n].request # id
    BY <1>5 DEF Answered
  <2>2. d = <<>> /\ k.request = 0
    BY <1>5 DEF Answered
  <2>3. i \in 1..Len(m) /\ m[i] = q[i]
    BY <1>1
  <2>4. \A n \in 1..Len(m) : m[n].type = "RESULT" /\ n # i => n < i /\ m[n].request # id
    BY <1>1, <1>2, <2>1
  <2>. QED
    BY <2>1, <2>2, <2>3, <2>4 DEF Answered
<1>. QED
  BY <1>4, <1>5 DEF InFlightOnce, AtSocket, AtDriver, m

\* The result of request r is sent while others wait in the socket.
LEMMA OtherResult ==
  ASSUME NEW X, NEW q \in Seq(X), NEW e \in Seq(X), NEW d, NEW k, NEW l, NEW id, NEW s,
         AtSocket(d, k, q, id, s), l.request # id,
         \A i \in 1..Len(e) : e[i].type = "RESULT" => e[i].request # id
  PROVE  AtSocket(d, l, q \o e, id, s)
<1>. DEFINE m == q \o e
<1>1. /\ Len(q) \in Nat /\ Len(e) \in Nat /\ Len(m) = Len(q) + Len(e)
      /\ \A i \in 1..Len(q) : i \in 1..Len(m) /\ m[i] = q[i]
      /\ \A i \in 1..Len(m) : ~(i <= Len(q)) => i - Len(q) \in 1..Len(e) /\ m[i] = e[i - Len(q)]
  BY ConcatIs
<1>. HIDE DEF m
<1>2. Unanswered(m, id)
  <2>. SUFFICES ASSUME NEW i \in 1..Len(m), m[i].type = "RESULT" PROVE m[i].request # id
    BY DEF Unanswered
  <2>1. CASE i <= Len(q)
    BY <1>1, <2>1 DEF AtSocket, Unanswered
  <2>2. CASE ~(i <= Len(q))
    BY <1>1, <2>2
  <2>. QED
    BY <2>1, <2>2
<1>. QED
  BY <1>2 DEF AtSocket, m

\* The result of the pending request is sent, as the only one of e.
LEMMA NowAnswered ==
  ASSUME NEW X, NEW q \in Seq(X), NEW e \in Seq(X), NEW l, NEW id, NEW s,
         Unanswered(q, id), l.request = 0, NEW j \in 1..Len(e), e[j].type = "RESULT", e[j].request = id,
         e[j].success => l.hz = s,
         \A i \in 1..Len(e) : e[i].type = "RESULT" => i = j
  PROVE  Answered(<<>>, l, q \o e, id, s)
<1>. DEFINE m == q \o e
<1>1. /\ Len(q) \in Nat /\ Len(e) \in Nat /\ Len(m) = Len(q) + Len(e)
      /\ \A i \in 1..Len(q) : i \in 1..Len(m) /\ m[i] = q[i]
      /\ \A i \in 1..Len(e) : i + Len(q) \in 1..Len(m) /\ m[i + Len(q)] = e[i]
      /\ \A i \in 1..Len(m) : ~(i <= Len(q)) => i - Len(q) \in 1..Len(e) /\ m[i] = e[i - Len(q)]
  BY ConcatIs
<1>. HIDE DEF m
<1>2. j + Len(q) \in 1..Len(m) /\ m[j + Len(q)] = e[j]
  BY <1>1
<1>3. ASSUME NEW n \in 1..Len(m), m[n].type = "RESULT", n # j + Len(q)
      PROVE  n < j + Len(q) /\ m[n].request # id
  <2>1. CASE n <= Len(q)
    BY <1>1, <1>3, <2>1 DEF Unanswered
  <2>2. CASE ~(n <= Len(q))
    <3>1. n - Len(q) \in 1..Len(e) /\ e[n - Len(q)].type = "RESULT"
      BY <1>1, <1>3, <2>2
    <3>2. n - Len(q) = j
      BY <3>1
    <3>. QED
      BY <1>1, <1>3, <3>2
  <2>. QED
    BY <2>1, <2>2
<1>. QED
  BY <1>2, <1>3 DEF Answered, m

----------------------------------------------------------------------------
(* The supervisor's functions, field by field *)

\* What an outage leaves of the choices.
LEMMA SurvivesIs ==
  ASSUME NEW c \in ChoiceHistory
  PROVE  LET v == Survives(c)
         IN  /\ v \in ChoiceHistory /\ v.asked = None /\ v.waiting = None
             /\ v.granted = IF c.waiting # None THEN c.waiting ELSE c.granted
BY DEF ChoiceHistory, Survives, NoChoice

\* What an answer makes of them.
LEMMA SettledIs ==
  ASSUME NEW c \in ChoiceHistory, NEW ok \in BOOLEAN
  PROVE  LET v == Settled(c, ok)
         IN  /\ v \in ChoiceHistory /\ v.asked = None /\ v.waiting = c.waiting
             /\ v.granted = IF ok THEN c.asked ELSE c.granted
             /\ ~v.astray => ok \/ (~c.astray /\ c.asked # c.granted)
<1>. DEFINE g == IF ok THEN c.asked ELSE c.granted
            a == ~ok /\ (c.astray \/ c.asked = c.granted)
            v == [c EXCEPT !.granted = g, !.asked = None, !.astray = a]
<1>1. Settled(c, ok) = v
  BY DEF Settled
<1>2. g \in Setting \cup {None} /\ a \in BOOLEAN
  BY DEF ChoiceHistory
<1>3. ~a => ok \/ (~c.astray /\ c.asked # c.granted)
  OBVIOUS
<1>4. g = IF ok THEN c.asked ELSE c.granted
  OBVIOUS
<1>. HIDE DEF g, a
<1>5. /\ v \in ChoiceHistory /\ v.asked = None /\ v.waiting = c.waiting
      /\ v.granted = g /\ v.astray = a
  BY <1>2, ZenonT(30) DEF ChoiceHistory
<1>. HIDE DEF v
<1>. QED
  BY <1>1, <1>3, <1>4, <1>5

\* finish ends the request.
LEMMA FinishIs ==
  ASSUME NEW w \in States
  PROVE  LET v == finish(w)
         IN  /\ v \in States
             /\ v.b.pending = 0 /\ ~v.b.complete /\ v.b.requested = None
             /\ v.owed = IF w.b.complete THEN w.owed - 1 ELSE w.owed
             /\ v.kid = w.kid /\ v.up = w.up /\ v.down = w.down /\ v.choice = w.choice
             /\ v.b.fd = w.b.fd /\ v.b.hello = w.b.hello /\ v.b.ready = w.b.ready
             /\ v.b.online = w.b.online /\ v.b.idling = w.b.idling /\ v.b.seen = w.b.seen
             /\ v.b.desired = w.b.desired /\ v.b.queued = w.b.queued
<1>. DEFINE c == [w.b EXCEPT !.pending = 0, !.complete = FALSE, !.requested = None]
<1>1. w.b \in Bridge
  BY DEF States
<1>2. /\ c \in Bridge
      /\ c.pending = 0 /\ ~c.complete /\ c.requested = None
      /\ c.fd = w.b.fd /\ c.hello = w.b.hello /\ c.ready = w.b.ready
      /\ c.online = w.b.online /\ c.idling = w.b.idling /\ c.seen = w.b.seen
      /\ c.desired = w.b.desired /\ c.queued = w.b.queued
  BY <1>1, ZenonT(30) DEF Bridge
<1>3. w.b.complete \in BOOLEAN
  BY <1>1, SMTT(20) DEF Bridge
<1>. DEFINE o == IF w.b.complete THEN w.owed - 1 ELSE w.owed
<1>4. finish(w) = [w EXCEPT !.b = c, !.owed = o]
  BY DEF finish
<1>5. o \in Int
  BY <1>3 DEF States
<1>6. o = IF w.b.complete THEN w.owed - 1 ELSE w.owed
  OBVIOUS
<1>. HIDE DEF c, o
<1>. QED
  BY <1>2, <1>4, <1>5, <1>6 DEF States

\* offline ends it too, and remembers what to go back to.
LEMMA OfflineIs ==
  ASSUME NEW w \in States
  PROVE  LET v == offline(w)
         IN  /\ v \in States
             /\ v.b.pending = 0 /\ ~v.b.complete /\ v.b.queued = None /\ v.b.requested = None
             /\ v.owed = IF w.b.complete THEN w.owed - 1 ELSE w.owed
             /\ v.kid = w.kid /\ v.up = w.up /\ v.down = w.down /\ v.choice = Survives(w.choice)
             /\ v.b.fd = w.b.fd /\ v.b.hello = w.b.hello /\ v.b.ready = w.b.ready
             /\ ~v.b.online /\ v.b.idling = w.b.idling /\ v.b.seen = None
             /\ v.b.desired = ReturnTo(w)
<1>. DEFINE d == ReturnTo(w)
            h == Survives(w.choice)
            c == [w.b EXCEPT !.online = FALSE, !.seen = None, !.queued = None, !.desired = d]
            u == [w EXCEPT !.b = c, !.choice = h]
<1>1. w.b \in Bridge
  BY DEF States
<1>3. offline(w) = finish(u)
  BY DEF offline
<1>5. d \in Setting \cup {None}
  BY <1>1, SMTT(20) DEF Bridge, ReturnTo
<1>6. h \in ChoiceHistory
  BY SurvivesIs DEF States
<1>. HIDE DEF d, h
<1>2. /\ c \in Bridge /\ c.complete = w.b.complete /\ c.queued = None
      /\ c.fd = w.b.fd /\ c.hello = w.b.hello /\ c.ready = w.b.ready
      /\ ~c.online /\ c.idling = w.b.idling /\ c.seen = None /\ c.desired = d
  BY <1>1, <1>5, ZenonT(30) DEF Bridge
<1>. HIDE DEF c
<1>4. /\ u \in States /\ u.b = c
      /\ u.owed = w.owed /\ u.kid = w.kid /\ u.up = w.up /\ u.down = w.down /\ u.choice = h
  BY <1>2, <1>6 DEF States
<1>. HIDE DEF u
<1>. QED
  BY <1>2, <1>3, <1>4, FinishIs DEF d, h

\* disconnect closes the socket as well, and stops the process.
LEMMA DisconnectIs ==
  ASSUME NEW w \in States
  PROVE  LET v == disconnect(w)
         IN  /\ v \in States
             /\ v.b.pending = 0 /\ ~v.b.complete /\ v.b.queued = None /\ v.b.requested = None
             /\ v.owed = IF w.b.complete THEN w.owed - 1 ELSE w.owed
             /\ v.kid = IF w.kid.proc \in {"start", "up", "stuck"} THEN Husk("doomed") ELSE w.kid
             /\ v.up = <<>> /\ v.down = <<>> /\ v.choice = Survives(w.choice)
             /\ ~v.b.fd /\ ~v.b.hello /\ ~v.b.ready /\ ~v.b.online /\ v.b.idling = w.b.idling
             /\ v.b.seen = None
             /\ v.b.desired = ReturnTo(w)
<1>. DEFINE u == offline(w)
            c == [u.b EXCEPT !.fd = FALSE, !.hello = FALSE, !.ready = FALSE]
            k == IF u.kid.proc \in {"start", "up", "stuck"} THEN Husk("doomed") ELSE u.kid
<1>1. /\ u \in States
      /\ u.b.pending = 0 /\ ~u.b.complete /\ u.b.queued = None /\ u.b.requested = None
      /\ u.owed = IF w.b.complete THEN w.owed - 1 ELSE w.owed
      /\ u.kid = w.kid /\ u.choice = Survives(w.choice)
      /\ ~u.b.online /\ u.b.idling = w.b.idling /\ u.b.seen = None
      /\ u.b.desired = ReturnTo(w)
  BY OfflineIs
<1>2. disconnect(w) = [u EXCEPT !.b = c, !.up = <<>>, !.down = <<>>, !.kid = k]
  BY DEF disconnect
<1>. HIDE DEF u
<1>3. u.b \in Bridge /\ u.kid \in Process
  BY <1>1 DEF States
<1>4. /\ c \in Bridge
      /\ c.pending = 0 /\ ~c.complete /\ c.queued = None /\ c.requested = None
      /\ ~c.fd /\ ~c.hello /\ ~c.ready /\ ~c.online /\ c.idling = u.b.idling /\ c.seen = None
      /\ c.desired = u.b.desired
  BY <1>1, <1>3, ZenonT(30) DEF Bridge
<1>5. Husk("doomed") \in Process
  BY BridgeAssumption DEF Husk, Fresh, Process
<1>6. k \in Process
  BY <1>3, <1>5
<1>7. k = IF w.kid.proc \in {"start", "up", "stuck"} THEN Husk("doomed") ELSE w.kid
  BY <1>1
<1>8. <<>> \in Seq(UpRecord) /\ <<>> \in Seq(DownRecord)
  OBVIOUS
<1>. DEFINE v == [u EXCEPT !.b = c, !.up = <<>>, !.down = <<>>, !.kid = k]
<1>. HIDE DEF c, k
<1>9. /\ v \in States /\ v.b = c /\ v.kid = k /\ v.up = <<>> /\ v.down = <<>>
      /\ v.owed = u.owed /\ v.choice = u.choice
  BY <1>1, <1>4, <1>6, <1>8 DEF States
<1>. HIDE DEF v
<1>10. /\ v.owed = IF w.b.complete THEN w.owed - 1 ELSE w.owed
       /\ v.b.idling = w.b.idling /\ v.choice = Survives(w.choice)
       /\ v.b.desired = ReturnTo(w)
  BY <1>1, <1>4, <1>9
<1>11. disconnect(w) = v
  BY <1>2 DEF v
<1>. QED
  BY <1>4, <1>7, <1>9, <1>10, <1>11

\* The connection is down and nothing is pending.
Cut(w) ==
  /\ w \in States /\ Waits(w.kid)
  /\ ~w.b.fd /\ ~w.b.ready /\ ~w.b.online /\ w.b.seen = None
  /\ w.b.pending = 0 /\ ~w.b.complete /\ w.b.queued = None /\ w.owed = 0
  /\ w.up = <<>> /\ w.down = <<>>
  /\ w.kid.proc \notin {"start", "up", "stuck"}
  /\ w.b.requested = None /\ Kept(w)

\* Then the invariant holds.
LEMMA CutInv ==
  ASSUME NEW w, Cut(w)
  PROVE  BInv(w)
BY DEF Cut, BInv, Phases, Requests, Owes, Kept, Service, Serves

\* So it does after disconnect, which ends whatever was pending.
LEMMA DisconnectCut ==
  ASSUME NEW w \in States, Owes(w), Waits(w.kid), Holds(w)
  PROVE  LET v == disconnect(w)
         IN  /\ Cut(v) /\ v.b.idling = w.b.idling
             /\ w.b.desired # None => v.b.desired # None
             /\ w.kid.proc = "zombie" => v.kid = w.kid
<1>. DEFINE v == disconnect(w)
<1>1. /\ v \in States
      /\ v.b.pending = 0 /\ ~v.b.complete /\ v.b.queued = None /\ v.b.requested = None
      /\ v.owed = IF w.b.complete THEN w.owed - 1 ELSE w.owed
      /\ v.kid = IF w.kid.proc \in {"start", "up", "stuck"} THEN Husk("doomed") ELSE w.kid
      /\ v.up = <<>> /\ v.down = <<>> /\ v.choice = Survives(w.choice)
      /\ ~v.b.fd /\ ~v.b.ready /\ ~v.b.online /\ v.b.idling = w.b.idling /\ v.b.seen = None
      /\ v.b.desired = ReturnTo(w)
  BY DisconnectIs
<1>2. v.owed = 0
  BY <1>1 DEF Owes
<1>3. Husk("doomed").request = 0 /\ Husk("doomed").hz = None /\ Husk("doomed").proc = "doomed"
  BY DEF Husk, Fresh
<1>. HIDE DEF v
<1>4. Waits(v.kid) /\ v.kid.proc \notin {"start", "up", "stuck"}
  <2>1. CASE w.kid.proc \in {"start", "up", "stuck"}
    <3>1. v.kid = Husk("doomed")
      BY <1>1, <2>1
    <3>. QED
      BY <1>3, <3>1 DEF Waits
  <2>2. CASE w.kid.proc \notin {"start", "up", "stuck"}
    BY <1>1, <2>2
  <2>. QED
    BY <2>1, <2>2
<1>5. Kept(v)
  BY <1>1, SurvivesIs DEF Kept, Holds, ReturnTo, States
<1>6. w.b.desired # None => v.b.desired # None
  BY <1>1 DEF ReturnTo
<1>. QED
  BY <1>1, <1>2, <1>4, <1>5, <1>6 DEF Cut, v

\* What the invariant does not read may change.
Alike(x, w) ==
  /\ x.b.fd = w.b.fd /\ x.b.hello = w.b.hello /\ x.b.ready = w.b.ready
  /\ x.b.online = w.b.online /\ x.b.desired = w.b.desired /\ x.b.requested = w.b.requested
  /\ x.b.queued = w.b.queued /\ x.b.pending = w.b.pending /\ x.b.complete = w.b.complete
  /\ x.b.seen = w.b.seen
  /\ x.kid = w.kid /\ x.up = w.up /\ x.down = w.down
  /\ x.owed = w.owed /\ x.choice = w.choice

\* A process that serves is still listened to.
LEMMA AlikeInv ==
  ASSUME NEW w, BInv(w), NEW x \in States, Alike(x, w), Serves(w) => ~x.b.idling
  PROVE  BInv(x)
<1>1. Serves(x) <=> Serves(w)
  BY DEF Alike, Serves
<1>2. Phases(x)
  BY DEF Alike, BInv, Phases
<1>3. Requests(x)
  BY DEF Alike, BInv, Requests, Owes
<1>4. Kept(x)
  BY DEF Alike, BInv, Kept, Holds
<1>5. Waits(x.kid)
  BY DEF Alike, BInv
<1>6. Service(x)
  BY <1>1 DEF Alike, BInv, Service, Underway, Unasked, Tuned, Alone
<1>. QED
  BY <1>2, <1>3, <1>4, <1>5, <1>6 DEF BInv

----------------------------------------------------------------------------
(* Sending a setting *)

\* Request identifiers do not run out: the counter has 64 bits.
EndlessId == ~IsFiniteSet(Id)

\* A list has finitely many elements.
LEMMA SetFinite ==
  ASSUME NEW X, NEW q \in Seq(X)
  PROVE  IsFiniteSet(ToSet(q))
<1>1. q \in [1..Len(q) -> ToSet(q)] /\ Len(q) \in Nat
  BY DEF ToSet
<1>2. q \in Surjection(1..Len(q), ToSet(q))
  BY <1>1 DEF Surjection, ToSet
<1>3. IsFiniteSet(1..Len(q))
  BY <1>1, FS_Interval
<1>. QED
  BY <1>2, <1>3, FS_Surjection

\* A new request is not in flight.
LEMMA NewRequestIs ==
  ASSUME EndlessId, NEW w \in States
  PROVE  LET id == NewRequest(w)
         IN  /\ id \in Id /\ w.kid.request # id
             /\ \A i \in 1..Len(w.up) : w.up[i].type = "RESULT" => w.up[i].request # id
             /\ \A i \in 1..Len(w.down) : w.down[i].type = "SET" => w.down[i].request # id
<1>. DEFINE U == {x \in ToSet(w.up) \cup ToSet(w.down) : x.type \in {"SET", "RESULT"}}
            R == {m.request : m \in U}
            f == [m \in U |-> m.request]
            id == NewRequest(w)
<1>1. w.up \in Seq(UpRecord) /\ w.down \in Seq(DownRecord)
  BY DEF States
<1>2. IsFiniteSet(ToSet(w.up)) /\ IsFiniteSet(ToSet(w.down))
  BY <1>1, SetFinite
<1>3. IsFiniteSet(U)
  BY <1>2, FS_Union, FS_Subset
<1>4. f \in Surjection(U, R)
  <2>. HIDE DEF U
  <2>. QED
    BY DEF Surjection
<1>5. IsFiniteSet(R)
  BY <1>3, <1>4, FS_Surjection
<1>6. InFlight(w) = R \cup {w.kid.request}
  BY DEF InFlight
<1>7. IsFiniteSet(InFlight(w))
  BY <1>5, <1>6, FS_AddElement
<1>8. \E n \in Id : n \notin InFlight(w)
  <2>1. SUFFICES ASSUME Id \subseteq InFlight(w) PROVE FALSE
    OBVIOUS
  <2>. QED
    BY <1>7, <2>1, FS_Subset DEF EndlessId
<1>9. id \in Id /\ id \notin InFlight(w)
  BY <1>8 DEF NewRequest
<1>10. \A i \in 1..Len(w.up) : w.up[i] \in ToSet(w.up)
  BY <1>1 DEF ToSet
<1>11. \A i \in 1..Len(w.down) : w.down[i] \in ToSet(w.down)
  BY <1>1 DEF ToSet
<1>. HIDE DEF id
<1>12. \A m \in ToSet(w.up) \cup ToSet(w.down) : m.type \in {"SET", "RESULT"} => m.request # id
  BY <1>6, <1>9
<1>. QED
  BY <1>6, <1>9, <1>10, <1>11, <1>12 DEF id

\* The last of a list and those before.
LEMMA AppendIs ==
  ASSUME NEW X, NEW q \in Seq(X), NEW m \in X
  PROVE  LET a == Append(q, m)
         IN  /\ a \in Seq(X) /\ Len(q) \in Nat /\ Len(a) = Len(q) + 1 /\ Len(a) # 0
             /\ a[Len(a)] = m
             /\ \A i \in 1..Len(q) : i \in 1..Len(a) /\ a[i] = q[i]
             /\ \A i \in 1..Len(a) : i < Len(a) => i \in 1..Len(q) /\ a[i] = q[i]
OBVIOUS

\* What is sent to a process that was told to leave is dropped.
LEMMA SentIs ==
  ASSUME NEW w \in States, NEW m \in DownRecord
  PROVE  /\ Sent(w, m) \in Seq(DownRecord)
         /\ \/ \E i \in 1..Len(w.down) : w.down[i].type = "SHUTDOWN" /\ Sent(w, m) = w.down
            \/ (\A i \in 1..Len(w.down) : w.down[i].type # "SHUTDOWN")
                 /\ Sent(w, m) = Append(w.down, m)
<1>1. w.down \in Seq(DownRecord)
  BY DEF States
<1>2. ToSet(w.down) = {w.down[i] : i \in 1..Len(w.down)}
  BY <1>1 DEF ToSet
<1>3. ASSUME NEW i \in 1..Len(w.down), w.down[i].type = "SHUTDOWN"
      PROVE  w.down[i] = [type |-> "SHUTDOWN"]
  <2>1. w.down[i] \in DownRecord
    BY <1>1
  <2>. QED
    BY <1>3, <2>1 DEF DownRecord
<1>4. [type |-> "SHUTDOWN"].type = "SHUTDOWN"
  OBVIOUS
<1>. DEFINE sd == [type |-> "SHUTDOWN"]
<1>5. sd \in ToSet(w.down) <=> \E i \in 1..Len(w.down) : w.down[i].type = "SHUTDOWN"
  BY <1>2, <1>3, <1>4
<1>6. Sent(w, m) = IF sd \in ToSet(w.down) THEN w.down ELSE Append(w.down, m)
  BY DEF Sent
<1>. HIDE DEF sd
<1>. QED
  BY <1>1, <1>5, <1>6, AppendIs

\* The receiver is on the air and nothing is pending.
CanTune(w) ==
  /\ w \in States /\ Phases(w) /\ Waits(w.kid) /\ Holds(w)
  /\ w.b.fd /\ w.b.ready /\ w.b.online
  /\ w.b.pending = 0 /\ ~w.b.complete /\ w.b.queued = None /\ w.owed = 0
  /\ w.b.desired # None
  /\ Serves(w) => ~w.b.idling /\ Reported(w.up, w.b.seen, Tuning(w.kid))

\* A setting is sent to a process that did not exit.
LEMMA SendIs ==
  ASSUME EndlessId, NEW w \in States, w.kid.proc # "zombie",
         NEW s \in Setting, NEW callback \in BOOLEAN
  PROVE  LET v == send_setting(w, s, callback)
         IN  /\ v \in States
             /\ v.b.fd = w.b.fd /\ v.b.hello = w.b.hello /\ v.b.ready = w.b.ready
             /\ v.b.online = w.b.online /\ v.b.idling = w.b.idling /\ v.b.seen = w.b.seen
             /\ v.b.desired = w.b.desired /\ v.b.queued = w.b.queued
             /\ v.b.pending \in Id /\ v.b.requested = s /\ v.b.complete = callback
             /\ v.kid = w.kid /\ v.up = w.up /\ v.owed = w.owed /\ v.choice = w.choice
             /\ Serves(v) => /\ Serves(w)
                             /\ AtSocket(v.down, v.kid, v.up, v.b.pending, s)
                             /\ w.down = <<>> =>
                                  \A i \in 1..Len(v.down) : v.down[i].request = v.b.pending
<1>. DEFINE id == NewRequest(w)
            m == [type |-> "SET", request |-> id, setting |-> s]
            c == [w.b EXCEPT !.pending = id, !.requested = s, !.complete = callback]
            d == Sent(w, m)
            v == [w EXCEPT !.down = d, !.b = c]
<1>1. /\ id \in Id /\ w.kid.request # id
      /\ \A i \in 1..Len(w.up) : w.up[i].type = "RESULT" => w.up[i].request # id
      /\ \A i \in 1..Len(w.down) : w.down[i].type = "SET" => w.down[i].request # id
  BY NewRequestIs
<1>2. send_setting(w, s, callback) = v
  BY DEF send_setting
<1>. HIDE DEF id
<1>3. m \in DownRecord /\ m.type = "SET" /\ m.request = id /\ m.setting = s
  BY <1>1 DEF DownRecord
<1>. HIDE DEF m
<1>4. w.b \in Bridge /\ w.down \in Seq(DownRecord)
  BY DEF States
<1>5. /\ c \in Bridge /\ c.pending = id /\ c.requested = s /\ c.complete = callback
      /\ c.fd = w.b.fd /\ c.hello = w.b.hello /\ c.ready = w.b.ready
      /\ c.online = w.b.online /\ c.idling = w.b.idling /\ c.seen = w.b.seen
      /\ c.desired = w.b.desired /\ c.queued = w.b.queued
  BY <1>1, <1>4, ZenonT(30) DEF Bridge
<1>6. d \in Seq(DownRecord)
  BY <1>3, SentIs
<1>7. \/ \E i \in 1..Len(w.down) : w.down[i].type = "SHUTDOWN" /\ d = w.down
      \/ (\A i \in 1..Len(w.down) : w.down[i].type # "SHUTDOWN") /\ d = Append(w.down, m)
  BY <1>3, SentIs
<1>. HIDE DEF c, d
<1>8. /\ v \in States /\ v.b = c /\ v.down = d
      /\ v.kid = w.kid /\ v.up = w.up /\ v.owed = w.owed /\ v.choice = w.choice
  BY <1>5, <1>6 DEF States
<1>. HIDE DEF v
<1>9. ASSUME Serves(v)
      PROVE  /\ Serves(w) /\ AtSocket(v.down, v.kid, v.up, v.b.pending, s)
             /\ w.down = <<>> =>
                  \A i \in 1..Len(v.down) : v.down[i].request = v.b.pending
  <2>1. /\ \A i \in 1..Len(w.down) : w.down[i].type # "SHUTDOWN"
        /\ d = Append(w.down, m)
    BY <1>7, <1>8, <1>9 DEF Serves
  <2>2. Serves(w)
    BY <1>8, <1>9, <2>1 DEF Serves
  <2>3. /\ Len(d) # 0 /\ d[Len(d)] = m
        /\ \A i \in 1..Len(d) : i < Len(d) => i \in 1..Len(w.down) /\ d[i] = w.down[i]
    BY <1>3, <1>4, <2>1, AppendIs
  <2>4. \A i \in 1..Len(w.down) : w.down[i].type = "SET"
    <3>1. \A i \in 1..Len(w.down) : w.down[i] \in DownRecord
      BY <1>4
    <3>. QED
      BY <2>1, <3>1 DEF DownRecord
  <2>5. \A i \in 1..Len(d) : i < Len(d) => d[i].request # id
    BY <1>1, <2>3, <2>4
  <2>6. Unanswered(w.up, id)
    BY <1>1 DEF Unanswered
  <2>7. AtSocket(d, w.kid, w.up, id, s)
    BY <1>1, <1>3, <2>3, <2>5, <2>6 DEF AtSocket
  <2>8. w.down = <<>> => \A i \in 1..Len(d) : d[i].request = id
    <3>1. Len(d) \in Nat
      BY <1>6
    <3>2. w.down = <<>> => \A i \in 1..Len(d) : ~(i < Len(d))
      BY <2>3
    <3>3. w.down = <<>> => \A i \in 1..Len(d) : i = Len(d)
      BY <3>1, <3>2
    <3>. QED
      BY <1>3, <2>3, <3>3
  <2>. QED
    BY <1>5, <1>8, <2>2, <2>7, <2>8
<1>. QED
  BY <1>1, <1>2, <1>5, <1>8, <1>9

\* A choice is sent when nothing else is on its way to a receiver that has the
\* choice in force; what goes back to that is sent at any time.
LEMMA SendInv ==
  ASSUME EndlessId, NEW w, CanTune(w), w.kid.proc # "zombie",
         NEW s \in Setting, NEW callback \in BOOLEAN,
         NEW x \in States,
         LET v == send_setting(w, s, callback)
         IN  /\ x.b = v.b /\ x.kid = v.kid /\ x.up = v.up /\ x.down = v.down
             /\ x.owed = (IF callback THEN 1 ELSE 0),
         x.choice.granted = w.choice.granted, x.choice.waiting = None, x.choice.asked = s,
         x.choice.astray = w.choice.astray,
         Serves(w) /\ s # w.b.desired =>
           Unasked(w) /\ (~w.choice.astray => w.kid.hz = w.b.desired)
  PROVE  BInv(x)
<1>. DEFINE v == send_setting(w, s, callback)
<1>0. w \in States /\ (\A n \in Id : n # 0) /\ s # None
  BY BridgeAssumption DEF CanTune
<1>1. /\ v \in States
      /\ v.b.fd = w.b.fd /\ v.b.hello = w.b.hello /\ v.b.ready = w.b.ready
      /\ v.b.online = w.b.online /\ v.b.idling = w.b.idling /\ v.b.seen = w.b.seen
      /\ v.b.desired = w.b.desired /\ v.b.queued = w.b.queued
      /\ v.b.pending \in Id /\ v.b.requested = s /\ v.b.complete = callback
      /\ v.kid = w.kid /\ v.up = w.up /\ v.owed = w.owed /\ v.choice = w.choice
      /\ Serves(v) => /\ Serves(w)
                      /\ AtSocket(v.down, v.kid, v.up, v.b.pending, s)
                      /\ w.down = <<>> =>
                           \A i \in 1..Len(v.down) : v.down[i].request = v.b.pending
  BY <1>0, SendIs
<1>2. /\ x.b = v.b /\ x.kid = v.kid /\ x.up = v.up /\ x.down = v.down
      /\ x.owed = (IF callback THEN 1 ELSE 0)
  OBVIOUS
<1>. HIDE DEF v
<1>3. Phases(x)
  BY <1>1, <1>2 DEF CanTune, Phases
<1>4. Requests(x)
  BY <1>0, <1>1, <1>2 DEF CanTune, Requests, Owes
<1>5. Kept(x)
  BY <1>0, <1>1, <1>2 DEF CanTune, Kept, Holds
<1>6. Waits(x.kid)
  BY <1>1, <1>2 DEF CanTune
<1>7. Service(x)
  <2>. SUFFICES ASSUME Serves(x)
                PROVE  /\ ~x.b.idling /\ Reported(x.up, x.b.seen, Tuning(x.kid))
                       /\ Underway(x)
    BY DEF Service
  <2>1. Serves(v)
    BY <1>2 DEF Serves
  <2>3. ASSUME ~x.choice.astray PROVE Tuned(x)
    <3>. SUFFICES ASSUME s # w.b.desired PROVE Alone(x)
      BY <1>0, <1>1, <1>2 DEF Tuned
    <3>1. Unasked(w) /\ w.kid.hz = w.b.desired
      BY <1>1, <2>1, <2>3
    <3>. QED
      BY <1>1, <1>2, <2>1, <3>1 DEF Alone, Unasked
  <2>2. Underway(x)
    BY <1>0, <1>1, <1>2, <2>1, <2>3 DEF Underway, InFlightOnce, CanTune
  <2>. QED
    BY <1>1, <1>2, <2>1, <2>2 DEF CanTune
<1>. QED
  BY <1>3, <1>4, <1>5, <1>6, <1>7 DEF BInv

----------------------------------------------------------------------------
(* Reading a record *)

\* A record is taken out of the socket.
Rest(w) == [w EXCEPT !.up = Tail(@)]

\* What remains then.
LEMMA RestIs ==
  ASSUME NEW w \in States, w.up # <<>>
  PROVE  /\ Rest(w) \in States /\ Rest(w).up = Tail(w.up)
         /\ Rest(w).b = w.b /\ Rest(w).kid = w.kid /\ Rest(w).down = w.down
         /\ Rest(w).owed = w.owed /\ Rest(w).choice = w.choice
         /\ Head(w.up) \in UpRecord
         /\ w.up \in Seq(UpRecord)
<1>1. w.up \in Seq(UpRecord)
  BY DEF States
<1>2. Tail(w.up) \in Seq(UpRecord) /\ Head(w.up) \in UpRecord
  BY <1>1
<1>. DEFINE t == Tail(w.up)
<1>3. Rest(w) = [w EXCEPT !.up = t]
  BY DEF Rest
<1>. HIDE DEF t
<1>4. /\ Rest(w) \in States /\ Rest(w).up = t
      /\ Rest(w).b = w.b /\ Rest(w).kid = w.kid /\ Rest(w).down = w.down
      /\ Rest(w).owed = w.owed /\ Rest(w).choice = w.choice
  BY <1>2, <1>3 DEF States, t
<1>. QED
  BY <1>1, <1>2, <1>4 DEF t

\* What is on its way when a record that is no result was read.
LEMMA UnderwayTail ==
  ASSUME NEW w, Underway(w), w.up \in Seq(UpRecord), w.up # <<>>,
         Head(w.up).type # "RESULT",
         NEW x, x.up = Tail(w.up), x.down = w.down, x.kid = w.kid,
         x.b.online = w.b.online, x.b.desired = w.b.desired,
         x.b.requested = w.b.requested, x.b.pending = w.b.pending,
         x.choice.astray = w.choice.astray
  PROVE  Underway(x)
<1>1. /\ NoResult(w.up) => NoResult(x.up)
      /\ Reports(w.up, w.kid.hz) => Reports(x.up, w.kid.hz)
  BY TailKeeps
<1>2. /\ Succeeded(w.up) => Succeeded(x.up)
      /\ InFlightOnce(w.down, w.kid, w.up, w.b.pending, w.b.requested) =>
           InFlightOnce(w.down, w.kid, x.up, w.b.pending, w.b.requested)
  BY TailInFlight
<1>3. Unasked(w) => Unasked(x)
  BY <1>1 DEF Unasked
<1>4. Tuned(w) => Tuned(x)
  BY <1>2 DEF Tuned, Alone
<1>. QED
  BY <1>1, <1>2, <1>3, <1>4 DEF Underway

\* A record that is about the connection only.
LEMMA PlainInv ==
  ASSUME NEW w, BInv(w), w.up # <<>>, w.b.fd, Head(w.up).type \notin {"STATE", "RESULT"},
         NEW x \in States,
         x.up = Tail(w.up), x.b.fd, x.b.hello, w.b.ready => x.b.ready,
         x.b.online = w.b.online, x.b.desired = w.b.desired,
         x.b.requested = w.b.requested, x.b.queued = w.b.queued,
         x.b.pending = w.b.pending, x.b.complete = w.b.complete,
         x.b.seen = w.b.seen, x.b.idling = w.b.idling,
         x.kid = w.kid, x.down = w.down, x.owed = w.owed, x.choice = w.choice
  PROVE  BInv(x)
<1>0. w \in States
  BY DEF BInv
<1>1. w.up \in Seq(UpRecord)
  BY <1>0, RestIs
<1>2. Phases(x)
  BY DEF BInv, Phases
<1>3. Requests(x)
  BY DEF BInv, Requests, Owes
<1>4. Kept(x)
  BY DEF BInv, Kept, Holds
<1>5. Waits(x.kid)
  BY DEF BInv
<1>6. Service(x)
  <2>. SUFFICES ASSUME Serves(x)
                PROVE  /\ ~x.b.idling /\ Reported(x.up, x.b.seen, Tuning(x.kid))
                       /\ Underway(x)
    BY DEF Service
  <2>1. /\ Serves(w) /\ ~w.b.idling /\ Reported(w.up, w.b.seen, Tuning(w.kid))
        /\ Underway(w)
    BY DEF Serves, BInv, Service
  <2>2. Reported(Tail(w.up), w.b.seen, Tuning(w.kid))
    BY <1>1, <2>1, TailReported
  <2>5. Underway(x)
    BY <1>1, <2>1, UnderwayTail
  <2>. QED
    BY <2>1, <2>2, <2>5
<1>. QED
  BY <1>2, <1>3, <1>4, <1>5, <1>6 DEF BInv

\* The receiver is reported off the air.
LEMMA OfflineInv ==
  ASSUME NEW w, BInv(w), w.b.fd, w.up # <<>>,
         Head(w.up).type = "STATE", Head(w.up).setting = None
  PROVE  LET v == offline(Rest(w)) IN BInv(v) /\ v.up = Tail(w.up)
<1>. DEFINE r == Rest(w)
            v == offline(r)
<1>0. w \in States
  BY DEF BInv
<1>1. /\ r \in States /\ r.up = Tail(w.up) /\ w.up \in Seq(UpRecord)
      /\ r.b = w.b /\ r.kid = w.kid /\ r.down = w.down /\ r.owed = w.owed /\ r.choice = w.choice
  BY <1>0, RestIs
<1>. HIDE DEF r
<1>2. /\ v \in States
      /\ v.b.pending = 0 /\ ~v.b.complete /\ v.b.queued = None /\ v.b.requested = None
      /\ v.owed = IF r.b.complete THEN r.owed - 1 ELSE r.owed
      /\ v.kid = r.kid /\ v.up = r.up /\ v.down = r.down /\ v.choice = Survives(r.choice)
      /\ v.b.fd = r.b.fd /\ v.b.hello = r.b.hello /\ v.b.ready = r.b.ready
      /\ ~v.b.online /\ v.b.idling = r.b.idling /\ v.b.seen = None
      /\ v.b.desired = ReturnTo(r)
  BY <1>1, OfflineIs
<1>. HIDE DEF v
<1>3. Phases(v)
  BY <1>1, <1>2 DEF BInv, Phases
<1>4. Requests(v)
  BY <1>1, <1>2 DEF BInv, Requests, Owes
<1>5. Kept(v)
  <2>1. r.choice \in ChoiceHistory /\ Holds(r)
    BY <1>1 DEF BInv, Kept, Holds, States
  <2>. QED
    BY <1>2, <2>1, SurvivesIs DEF Kept, Holds, ReturnTo
<1>6. Waits(v.kid)
  BY <1>1, <1>2 DEF BInv
<1>7. Service(v)
  <2>. SUFFICES ASSUME Serves(v)
                PROVE  /\ ~v.b.idling /\ Reported(v.up, v.b.seen, Tuning(v.kid))
                       /\ Underway(v)
    BY DEF Service
  <2>1. /\ Serves(w) /\ ~w.b.idling /\ Reported(w.up, w.b.seen, Tuning(w.kid))
        /\ Underway(w)
    BY <1>1, <1>2 DEF Serves, BInv, Service
  <2>2. Reported(Tail(w.up), None, Tuning(w.kid))
    BY <1>1, <2>1, TailReported
  <2>3. ASSUME v.b.desired = None PROVE Unasked(v) /\ Reports(v.up, v.kid.hz)
    <3>1. w.b.desired = None
      BY <1>1, <1>2, <2>3 DEF ReturnTo
    <3>2. w.b.pending = 0
      BY <3>1 DEF BInv, Requests
    <3>3. Unasked(w) /\ Reports(w.up, w.kid.hz)
      BY <2>1, <3>1, <3>2 DEF Underway
    <3>4. NoResult(Tail(w.up)) /\ Reports(Tail(w.up), w.kid.hz)
      BY <1>1, <3>3, TailKeeps DEF Unasked
    <3>. QED
      BY <1>1, <1>2, <3>3, <3>4 DEF Unasked
  <2>4. Underway(v)
    BY <1>2, <2>3 DEF Underway
  <2>. QED
    BY <1>1, <1>2, <2>1, <2>2, <2>4
<1>. QED
  BY <1>1, <1>2, <1>3, <1>4, <1>5, <1>6, <1>7 DEF BInv, v, r

\* The tuning is reported while the receiver is on the air or a request is
\* pending, or for the first time.
LEMMA ShownInv ==
  ASSUME NEW w, BInv(w), w.b.fd, w.b.ready, w.up # <<>>,
         Head(w.up).type = "STATE", Head(w.up).setting \in Setting,
         NEW x \in States, x.up = Tail(w.up), x.b.fd, x.b.hello, x.b.ready, x.b.online,
         x.b.desired = IF w.b.desired = None THEN Head(w.up).setting ELSE w.b.desired,
         x.b.requested = w.b.requested, x.b.queued = w.b.queued,
         x.b.pending = w.b.pending, x.b.complete = w.b.complete,
         x.b.seen = Head(w.up).setting, x.b.idling = w.b.idling,
         x.kid = w.kid, x.down = w.down, x.owed = w.owed,
         x.choice.granted = IF w.choice.granted = None THEN Head(w.up).setting
                            ELSE w.choice.granted,
         x.choice.asked = w.choice.asked, x.choice.waiting = w.choice.waiting,
         x.choice.astray = w.choice.astray,
         w.b.online \/ w.b.desired = None
  PROVE  BInv(x)
<1>0. w \in States
  BY DEF BInv
<1>1. w.up \in Seq(UpRecord) /\ None \notin Setting
  BY <1>0, RestIs, BridgeAssumption
<1>2. Phases(x)
  BY <1>1 DEF BInv, Phases
<1>3. Requests(x)
  BY <1>1 DEF BInv, Requests, Owes
<1>4. Kept(x)
  BY DEF BInv, Kept, Holds
<1>5. Waits(x.kid)
  BY DEF BInv
<1>6. Service(x)
  <2>. SUFFICES ASSUME Serves(x)
                PROVE  /\ ~x.b.idling /\ Reported(x.up, x.b.seen, Tuning(x.kid))
                       /\ Underway(x)
    BY DEF Service
  <2>1. /\ Serves(w) /\ ~w.b.idling /\ Reported(w.up, w.b.seen, Tuning(w.kid))
        /\ Underway(w)
    BY DEF Serves, BInv, Service
  <2>2. Reported(Tail(w.up), Head(w.up).setting, Tuning(w.kid))
    BY <1>1, <2>1, TailReported
  <2>3. ASSUME w.b.desired # None PROVE Underway(x)
    <3>1. w.b.online
      BY <2>3
    <3>. QED
      BY <1>1, <2>1, <2>3, <3>1, UnderwayTail
  <2>4. ASSUME w.b.desired = None PROVE Underway(x)
    <3>1. w.b.pending = 0
      BY <2>4 DEF BInv, Requests
    <3>2. Unasked(w) /\ Reports(w.up, w.kid.hz)
      BY <2>1, <2>4, <3>1 DEF Underway
    <3>3. NoResult(Tail(w.up)) /\ Head(w.up).setting = w.kid.hz
      BY <1>1, <3>2, TailKeeps DEF Unasked
    <3>. QED
      BY <1>1, <2>4, <3>1, <3>2, <3>3 DEF Underway, Unasked, Tuned
  <2>7. Underway(x)
    BY <2>3, <2>4
  <2>. QED
    BY <2>1, <2>2, <2>7
<1>. QED
  BY <1>2, <1>3, <1>4, <1>5, <1>6 DEF BInv

\* HandleOnline: the receiver is reported on the air.
LEMMA OnlineInv ==
  ASSUME EndlessId, NEW w, BInv(w), w.b.fd, w.b.ready, w.up # <<>>,
         Head(w.up).type = "STATE", Head(w.up).setting \in Setting
  PROVE  LET v == HandleOnline(Rest(w), Head(w.up))
         IN  BInv(v) /\ (v.b.fd => v.up = Tail(w.up))
<1>. DEFINE r == Rest(w)
            m == Head(w.up)
            g == IF r.choice.granted = None THEN m.setting ELSE r.choice.granted
            h == [r.choice EXCEPT !.granted = g]
            c == [r.b EXCEPT !.online = TRUE, !.seen = m.setting]
            shown == [r EXCEPT !.b = c, !.choice = h]
            v == HandleOnline(r, m)
<1>0. w \in States /\ w.b.hello /\ None \notin Setting
  BY BridgeAssumption DEF BInv, Phases
<1>1. /\ r \in States /\ r.up = Tail(w.up) /\ w.up \in Seq(UpRecord)
      /\ r.b = w.b /\ r.kid = w.kid /\ r.down = w.down /\ r.owed = w.owed /\ r.choice = w.choice
  BY <1>0, RestIs
<1>2. m.type = "STATE" /\ m.setting \in Setting
  OBVIOUS
<1>. HIDE DEF r, m
<1>3. v = IF r.b.desired = None THEN [shown EXCEPT !.b.desired = m.setting]
          ELSE IF r.b.online \/ r.b.pending # 0 THEN shown
          ELSE send_setting([shown EXCEPT !.choice.asked = r.choice.granted], r.b.desired, FALSE)
  BY DEF HandleOnline
<1>8. r.choice \in ChoiceHistory /\ r.b \in Bridge
  BY <1>1 DEF States
<1>9. g \in Setting \cup {None}
  BY <1>2, <1>8 DEF ChoiceHistory
<1>10. g = IF w.choice.granted = None THEN m.setting ELSE w.choice.granted
  BY <1>1
<1>. HIDE DEF g
<1>11. /\ h \in ChoiceHistory /\ h.granted = g /\ h.asked = r.choice.asked
       /\ h.waiting = r.choice.waiting /\ h.astray = r.choice.astray
  BY <1>8, <1>9, ZenonT(30) DEF ChoiceHistory
<1>12. /\ c \in Bridge /\ c.online /\ c.seen = m.setting
       /\ c.fd = r.b.fd /\ c.hello = r.b.hello /\ c.ready = r.b.ready
       /\ c.desired = r.b.desired /\ c.requested = r.b.requested
       /\ c.queued = r.b.queued /\ c.pending = r.b.pending
       /\ c.complete = r.b.complete /\ c.idling = r.b.idling
  BY <1>2, <1>8, ZenonT(30) DEF Bridge
<1>. HIDE DEF c, h
<1>4. /\ shown \in States /\ shown.up = r.up /\ shown.kid = r.kid /\ shown.down = r.down
      /\ shown.owed = r.owed /\ shown.b = c /\ shown.choice = h
  BY <1>1, <1>11, <1>12 DEF States
<1>. HIDE DEF shown
<1>5. CASE w.b.desired = None
  <2>. DEFINE a == [c EXCEPT !.desired = m.setting]
              y == [shown EXCEPT !.b = a]
  <2>1. /\ a \in Bridge /\ a.online /\ a.seen = m.setting /\ a.desired = m.setting
        /\ a.fd = r.b.fd /\ a.hello = r.b.hello /\ a.ready = r.b.ready
        /\ a.requested = r.b.requested /\ a.queued = r.b.queued /\ a.pending = r.b.pending
        /\ a.complete = r.b.complete /\ a.idling = r.b.idling
    BY <1>2, <1>12, ZenonT(30) DEF Bridge
  <2>2. v = y
    BY <1>1, <1>3, <1>4, <1>5
  <2>. HIDE DEF a
  <2>3. /\ y \in States /\ y.up = r.up /\ y.kid = r.kid /\ y.down = r.down
        /\ y.owed = r.owed /\ y.b = a /\ y.choice = h
    BY <1>4, <2>1 DEF States
  <2>. HIDE DEF y
  <2>4. BInv(y)
    BY <1>0, <1>1, <1>2, <1>5, <1>10, <1>11, <2>1, <2>3, ShownInv DEF m
  <2>. QED
    BY <1>1, <2>2, <2>3, <2>4 DEF v, r, m
<1>6. CASE w.b.desired # None /\ (w.b.online \/ w.b.pending # 0)
  <2>1. w.b.online
    BY <1>6 DEF BInv, Requests
  <2>2. v = shown
    BY <1>1, <1>3, <1>6
  <2>3. BInv(shown)
    BY <1>0, <1>1, <1>2, <1>4, <1>6, <1>10, <1>11, <1>12, <2>1, ShownInv DEF m
  <2>. QED
    BY <1>1, <1>4, <2>2, <2>3 DEF v, r, m
<1>7. CASE w.b.desired # None /\ ~w.b.online /\ w.b.pending = 0
  <2>. DEFINE s == w.b.desired
              a == [h EXCEPT !.asked = w.choice.granted]
              y == [shown EXCEPT !.choice = a]
              u == send_setting(y, s, FALSE)
  <2>1. v = u
    BY <1>1, <1>3, <1>4, <1>7
  <2>2. s \in Setting /\ w.choice.granted = s /\ w.choice.waiting = w.b.queued
    BY <1>0, <1>7, SMTT(20) DEF BInv, States, Bridge, Kept, Holds
  <2>3. w.owed = 0 /\ ~w.b.complete /\ w.b.queued = None
    BY <1>7 DEF BInv, Requests, Owes
  <2>4. /\ a \in ChoiceHistory /\ a.granted = s /\ a.asked = s /\ a.waiting = None
        /\ a.astray = h.astray
    <3>1. w.choice.granted \in Setting \cup {None} /\ g = s
      BY <1>0, <1>10, <2>2
    <3>2. h \in ChoiceHistory /\ h.granted = s /\ h.waiting = None
      BY <1>1, <1>11, <2>2, <2>3, <3>1
    <3>. HIDE DEF s
    <3>3. /\ a \in ChoiceHistory /\ a.granted = h.granted /\ a.asked = w.choice.granted
          /\ a.waiting = h.waiting /\ a.astray = h.astray
      BY <3>1, <3>2, ZenonT(30) DEF ChoiceHistory
    <3>. QED
      BY <2>2, <3>2, <3>3
  <2>. HIDE DEF a
  <2>5. /\ y \in States /\ y.up = r.up /\ y.kid = r.kid /\ y.down = r.down
        /\ y.owed = r.owed /\ y.b = c /\ y.choice = a
    BY <1>4, <2>4 DEF States
  <2>. HIDE DEF y, s
  <2>6. Phases(y) /\ Waits(y.kid) /\ Owes(y) /\ Holds(y)
    BY <1>0, <1>1, <1>2, <1>12, <2>3, <2>4, <2>5 DEF BInv, Phases, Owes, Holds, s
  <2>7. CASE y.kid.proc = "zombie"
    <3>1. u = disconnect(y)
      BY <2>7 DEF send_setting
    <3>2. Cut(u)
      BY <2>5, <2>6, <3>1, DisconnectCut
    <3>. QED
      BY <2>1, <3>2, CutInv DEF v, r, m, Cut
  <2>8. CASE y.kid.proc # "zombie"
    <3>1. ASSUME Serves(y)
          PROVE  ~y.b.idling /\ Reported(y.up, y.b.seen, Tuning(y.kid))
      <4>1. Serves(w) /\ ~w.b.idling /\ Reported(w.up, w.b.seen, Tuning(w.kid))
        BY <1>1, <2>5, <3>1 DEF Serves, BInv, Service
      <4>2. Reported(Tail(w.up), m.setting, Tuning(w.kid))
        BY <1>1, <1>2, <4>1, TailReported DEF m
      <4>. QED
        BY <1>1, <1>12, <2>5, <4>1, <4>2
    <3>2. CanTune(y) /\ y.b.desired = s
      BY <1>1, <1>7, <1>12, <2>3, <2>5, <2>6, <3>1 DEF CanTune, s
    <3>3. /\ u \in States /\ u.up = y.up /\ u.owed = y.owed /\ u.choice = y.choice
      BY <2>2, <2>5, <2>8, SendIs
    <3>4. u.owed = IF FALSE THEN 1 ELSE 0
      BY <1>1, <2>3, <2>5, <3>3
    <3>5. u.choice.granted = y.choice.granted /\ u.choice.waiting = None /\ u.choice.asked = s
      BY <2>4, <2>5, <3>3
    <3>6. BInv(u)
      BY <2>2, <2>8, <3>2, <3>3, <3>4, <3>5, SendInv
    <3>. QED
      BY <1>1, <2>1, <2>5, <3>3, <3>6 DEF v, r, m
  <2>. QED
    BY <2>7, <2>8
<1>. QED
  BY <1>5, <1>6, <1>7

\* The result of the pending request, and what is to be done behind it.
LEMMA FlushInv ==
  ASSUME EndlessId, NEW f \in States, Phases(f), Waits(f.kid), Holds(f),
         f.b.fd, f.b.ready, f.b.online,
         f.b.pending = 0, ~f.b.complete, f.owed = 0, f.b.desired # None,
         f.b.requested = None, f.choice.asked = None,
         Serves(f) => /\ ~f.b.idling /\ Reported(f.up, f.b.seen, Tuning(f.kid))
                      /\ Unasked(f) /\ (~f.choice.astray => f.kid.hz = f.b.desired)
  PROVE  LET v == Flush(f) IN BInv(v) /\ (v.b.fd => v.up = f.up)
<1>. DEFINE s == f.b.queued
            c == [f.b EXCEPT !.queued = None]
            h == [f.choice EXCEPT !.waiting = None]
            idle == [f EXCEPT !.b = c, !.choice = h]
            v == Flush(f)
<1>0. /\ f.b \in Bridge /\ f.choice \in ChoiceHistory /\ f.choice.waiting = s
      /\ s \in Setting \cup {None}
  BY SMTT(20) DEF States, Bridge, Holds
<1>1. v = IF s = None THEN f ELSE IF s = f.b.desired THEN idle
          ELSE send_setting([idle EXCEPT !.choice.asked = s], s, FALSE)
  <2>. DEFINE rid == [f EXCEPT !.b.queued = None, !.choice.waiting = None]
  <2>1. f.choice.waiting = s /\ CanSend(f)
    BY <1>0 DEF CanSend
  <2>2. rid = idle
    BY DEF States
  <2>3. v = IF s = None \/ ~CanSend(f) THEN f ELSE IF s = f.b.desired THEN rid
            ELSE send_setting([rid EXCEPT !.choice.asked = f.choice.waiting], s, FALSE)
    BY DEF Flush
  <2>. HIDE DEF idle, rid, v
  <2>. QED
    BY <2>1, <2>2, <2>3
<1>2. /\ c \in Bridge /\ c.queued = None /\ c.online = f.b.online /\ c.seen = f.b.seen
      /\ c.fd = f.b.fd /\ c.hello = f.b.hello /\ c.ready = f.b.ready
      /\ c.desired = f.b.desired /\ c.pending = f.b.pending /\ c.requested = f.b.requested
      /\ c.complete = f.b.complete /\ c.idling = f.b.idling
  BY <1>0, ZenonT(30) DEF Bridge
<1>3. /\ h \in ChoiceHistory /\ h.granted = f.choice.granted /\ h.asked = None
      /\ h.waiting = None /\ h.astray = f.choice.astray
  BY <1>0, ZenonT(30) DEF ChoiceHistory
<1>. HIDE DEF c, h
<1>4. /\ idle \in States /\ idle.up = f.up /\ idle.kid = f.kid /\ idle.down = f.down
      /\ idle.owed = f.owed /\ idle.b = c /\ idle.choice = h
  BY <1>2, <1>3 DEF States
<1>. HIDE DEF idle
<1>5. ASSUME NEW x \in States, x.up = f.up, x.kid = f.kid, x.down = f.down,
             x.owed = f.owed, x.b.queued = None, x.b.online = f.b.online, x.b.seen = f.b.seen,
             x.b.fd = f.b.fd, x.b.hello = f.b.hello, x.b.ready = f.b.ready,
             x.b.desired = f.b.desired, x.b.pending = f.b.pending,
             x.b.requested = f.b.requested,
             x.b.complete = f.b.complete, x.b.idling = f.b.idling,
             x.choice.granted = f.choice.granted, x.choice.asked = None,
             x.choice.waiting = None, x.choice.astray = f.choice.astray
      PROVE  BInv(x)
  <2>1. Phases(x)
    BY <1>5 DEF Phases
  <2>2. Requests(x)
    BY <1>5 DEF Requests, Owes
  <2>3. Kept(x)
    BY <1>5 DEF Kept, Holds
  <2>4. Waits(x.kid)
    BY <1>5
  <2>5. Service(x)
    <3>1. Serves(x) => Serves(f)
      BY <1>5 DEF Serves
    <3>2. Serves(x) => Underway(x)
      BY <1>5, <3>1 DEF Underway, Unasked, Tuned
    <3>. QED
      BY <1>5, <3>1, <3>2 DEF Service
  <2>. QED
    BY <1>5, <2>1, <2>2, <2>3, <2>4, <2>5 DEF BInv
<1>6. CASE s = None
  <2>1. v = f
    BY <1>1, <1>6
  <2>2. BInv(f)
    BY <1>0, <1>5, <1>6
  <2>. QED
    BY <2>1, <2>2
<1>7. CASE s # None /\ s = f.b.desired
  <2>1. v = idle
    BY <1>1, <1>7
  <2>2. BInv(idle)
    BY <1>2, <1>3, <1>4, <1>5
  <2>. QED
    BY <1>4, <2>1, <2>2
<1>8. CASE s # None /\ s # f.b.desired
  <2>. DEFINE a == [h EXCEPT !.asked = s]
              y == [idle EXCEPT !.choice = a]
              u == send_setting(y, s, FALSE)
  <2>1. v = u
    BY <1>1, <1>4, <1>8
  <2>2. s \in Setting
    BY <1>0, <1>8
  <2>. HIDE DEF s
  <2>3. /\ a \in ChoiceHistory /\ a.granted = h.granted /\ a.asked = s
        /\ a.waiting = h.waiting /\ a.astray = h.astray
    BY <1>3, <2>2, ZenonT(30) DEF ChoiceHistory
  <2>. HIDE DEF a
  <2>4. /\ y \in States /\ y.up = f.up /\ y.kid = f.kid /\ y.down = f.down
        /\ y.owed = f.owed /\ y.b = c /\ y.choice = a
    BY <1>4, <2>3 DEF States
  <2>. HIDE DEF y
  <2>5. Phases(y) /\ Waits(y.kid) /\ Owes(y) /\ Holds(y)
    BY <1>2, <1>3, <2>3, <2>4 DEF Phases, Owes, Holds
  <2>6. CASE y.kid.proc = "zombie"
    <3>1. u = disconnect(y)
      BY <2>6 DEF send_setting
    <3>2. Cut(u)
      BY <2>4, <2>5, <3>1, DisconnectCut
    <3>. QED
      BY <2>1, <3>2, CutInv DEF Cut
  <2>7. CASE y.kid.proc # "zombie"
    <3>1. Serves(y) => Serves(f)
      BY <2>4 DEF Serves
    <3>2. CanTune(y)
      BY <1>2, <2>4, <2>5, <3>1 DEF CanTune
    <3>3. Serves(y) => Unasked(y) /\ (~y.choice.astray => y.kid.hz = y.b.desired)
      BY <1>2, <1>3, <2>3, <2>4, <3>1 DEF Unasked
    <3>4. u \in States /\ u.up = y.up /\ u.owed = y.owed /\ u.choice = y.choice
      BY <2>2, <2>4, <2>7, SendIs
    <3>5. u.owed = IF FALSE THEN 1 ELSE 0
      BY <2>4, <3>4
    <3>6. u.choice.granted = y.choice.granted /\ u.choice.waiting = None /\ u.choice.asked = s
      BY <1>3, <2>3, <2>4, <3>4
    <3>7. BInv(u)
      BY <2>2, <2>7, <3>2, <3>3, <3>4, <3>5, <3>6, SendInv
    <3>. QED
      BY <2>1, <2>4, <3>4, <3>7
  <2>. QED
    BY <2>6, <2>7
<1>. QED
  BY <1>6, <1>7, <1>8

\* HandleResult: a request is answered, or the process answers another one.
LEMMA ResultInv ==
  ASSUME EndlessId, NEW w, BInv(w), w.b.fd, w.up # <<>>, Head(w.up).type = "RESULT"
  PROVE  LET v == HandleResult(Rest(w), Head(w.up))
         IN  BInv(v) /\ (v.b.fd => v.up = Tail(w.up))
<1>. DEFINE r == Rest(w)
            m == Head(w.up)
            v == HandleResult(r, m)
            d == IF m.success THEN r.b.requested ELSE r.b.desired
            c == [r.b EXCEPT !.desired = d]
            h == Settled(r.choice, m.success)
            done == [r EXCEPT !.b = c, !.choice = h]
            f == finish(done)
<1>0. w \in States /\ Phases(w) /\ Requests(w) /\ Kept(w) /\ Waits(w.kid) /\ Service(w)
  BY DEF BInv
<1>1. /\ r \in States /\ r.up = Tail(w.up) /\ w.up \in Seq(UpRecord) /\ m \in UpRecord
      /\ r.b = w.b /\ r.kid = w.kid /\ r.down = w.down /\ r.owed = w.owed /\ r.choice = w.choice
  BY <1>0, RestIs
<1>2. m.type = "RESULT"
  OBVIOUS
<1>3. m.request # 0 /\ m.success \in BOOLEAN
  BY <1>1, <1>2, BridgeAssumption DEF UpRecord
<1>. HIDE DEF r, m
<1>4. v = IF m.request # r.b.pending THEN disconnect(r) ELSE Flush(f)
  <2>1. [r EXCEPT !.b.desired = IF m.success THEN r.b.requested ELSE @,
                  !.choice = Settled(@, m.success)] = done
    BY <1>1 DEF States
  <2>. HIDE DEF done
  <2>. QED
    BY <2>1 DEF HandleResult
<1>5. CASE m.request # w.b.pending
  <2>1. v = disconnect(r)
    BY <1>1, <1>4, <1>5
  <2>2. Owes(r) /\ Waits(r.kid) /\ Holds(r)
    BY <1>0, <1>1 DEF Requests, Owes, Kept, Holds
  <2>3. Cut(v)
    BY <1>1, <2>1, <2>2, DisconnectCut
  <2>. QED
    BY <2>3, CutInv DEF v, r, m, Cut
<1>6. CASE m.request = w.b.pending
  <2>1. v = Flush(f)
    BY <1>1, <1>4, <1>6
  <2>2. r.b \in Bridge /\ r.choice \in ChoiceHistory
    BY <1>1 DEF States
  <2>3. d \in Setting \cup {None}
    BY <2>2, SMTT(20) DEF Bridge
  <2>4. d = IF m.success THEN w.b.requested ELSE w.b.desired
    BY <1>1
  <2>. HIDE DEF d
  <2>5. /\ c \in Bridge /\ c.desired = d /\ c.complete = r.b.complete
        /\ c.fd = r.b.fd /\ c.hello = r.b.hello /\ c.ready = r.b.ready
        /\ c.online = r.b.online /\ c.seen = r.b.seen
        /\ c.queued = r.b.queued /\ c.idling = r.b.idling
    BY <2>2, <2>3, ZenonT(30) DEF Bridge
  <2>6. /\ h \in ChoiceHistory /\ h.asked = None /\ h.waiting = w.choice.waiting
        /\ h.granted = IF m.success THEN w.choice.asked ELSE w.choice.granted
        /\ ~h.astray => m.success \/ (~w.choice.astray /\ w.choice.asked # w.choice.granted)
    BY <1>1, <1>3, <2>2, SettledIs
  <2>. HIDE DEF c, h
  <2>7. /\ done \in States /\ done.up = r.up /\ done.kid = r.kid /\ done.down = r.down
        /\ done.owed = r.owed /\ done.b = c /\ done.choice = h
    BY <1>1, <2>5, <2>6 DEF States
  <2>. HIDE DEF done
  <2>8. /\ f \in States
        /\ f.b.pending = 0 /\ ~f.b.complete /\ f.b.requested = None
        /\ f.owed = IF done.b.complete THEN done.owed - 1 ELSE done.owed
        /\ f.kid = done.kid /\ f.up = done.up /\ f.down = done.down /\ f.choice = done.choice
        /\ f.b.fd = done.b.fd /\ f.b.hello = done.b.hello /\ f.b.ready = done.b.ready
        /\ f.b.online = done.b.online /\ f.b.idling = done.b.idling /\ f.b.seen = done.b.seen
        /\ f.b.desired = done.b.desired /\ f.b.queued = done.b.queued
    BY <2>7, FinishIs
  <2>. HIDE DEF f
  <2>9. /\ w.b.pending # 0 /\ w.b.online /\ w.b.ready
        /\ w.b.requested # None /\ w.b.desired # None
    BY <1>0, <1>3, <1>6 DEF Requests, Phases
  <2>10. f.owed = 0
    BY <1>0, <1>1, <2>5, <2>7, <2>8 DEF Requests, Owes
  <2>11. f.b.desired = d /\ d # None
    BY <2>4, <2>5, <2>7, <2>8, <2>9
  <2>12. Holds(f) /\ f.choice.asked = None
    BY <1>0, <1>1, <2>4, <2>5, <2>6, <2>7, <2>8 DEF Kept, Holds
  <2>13. Phases(f) /\ Waits(f.kid)
    BY <1>0, <1>1, <2>5, <2>7, <2>8 DEF Phases
  <2>14. ASSUME Serves(f)
         PROVE  /\ ~f.b.idling /\ Reported(f.up, f.b.seen, Tuning(f.kid))
                /\ Unasked(f) /\ (~f.choice.astray => f.kid.hz = f.b.desired)
    <3>1. Serves(w)
      BY <1>1, <2>7, <2>8, <2>14 DEF Serves
    <3>2. ~w.b.idling /\ Reported(w.up, w.b.seen, Tuning(w.kid)) /\ Underway(w)
      BY <1>0, <3>1 DEF Service
    <3>3. Reported(Tail(w.up), w.b.seen, Tuning(w.kid))
      BY <1>1, <1>2, <3>2, TailReported DEF m
    <3>4. InFlightOnce(w.down, w.kid, w.up, m.request, w.b.requested)
      BY <1>6, <2>9, <3>2 DEF Underway
    <3>5. /\ w.down = <<>> /\ w.kid.request = 0 /\ NoResult(Tail(w.up))
          /\ m.success => w.kid.hz = w.b.requested
          /\ Succeeded(w.up) => m.success
      <4>. DEFINE d0 == w.down
                  k0 == w.kid
                  q0 == w.up
                  s0 == w.b.requested
      <4>1. q0 \in Seq(UpRecord) /\ q0 # <<>> /\ m = Head(q0) /\ InFlightOnce(d0, k0, q0, m.request, s0)
        BY <1>1, <3>4 DEF m
      <4>. HIDE DEF d0, k0, q0, s0
      <4>2. /\ d0 = <<>> /\ k0.request = 0 /\ NoResult(Tail(q0))
            /\ m.success => k0.hz = s0
            /\ Succeeded(q0) => m.success
        BY <1>2, <4>1, TailAnswered
      <4>. QED
        BY <4>2 DEF d0, k0, q0, s0
    <3>6. /\ f.kid = w.kid /\ f.up = Tail(w.up) /\ f.down = w.down
          /\ f.b.seen = w.b.seen /\ f.b.idling = w.b.idling /\ f.choice = h
      BY <1>1, <2>5, <2>7, <2>8
    <3>7. ASSUME ~h.astray PROVE w.kid.hz = d
      <4>1. CASE m.success
        BY <2>4, <3>5, <4>1
      <4>2. CASE ~m.success
        <5>1. ~w.choice.astray /\ w.b.requested # w.b.desired
          BY <1>0, <2>6, <3>7, <4>2 DEF Kept, Holds
        <5>2. Alone(w)
          BY <2>9, <3>2, <5>1 DEF Underway, Tuned
        <5>. QED
          BY <2>4, <3>5, <4>2, <5>2 DEF Alone
      <4>. QED
        BY <4>1, <4>2
    <3>. QED
      BY <2>11, <3>2, <3>3, <3>5, <3>6, <3>7 DEF Unasked
  <2>16. f.b.fd /\ f.b.ready /\ f.b.online
    BY <1>1, <2>5, <2>7, <2>8, <2>9
  <2>15. LET x == Flush(f) IN BInv(x) /\ (x.b.fd => x.up = f.up)
    BY <2>8, <2>10, <2>11, <2>12, <2>13, <2>14, <2>16, FlushInv
  <2>. QED
    BY <1>1, <2>1, <2>7, <2>8, <2>15 DEF v, r, m
<1>. QED
  BY <1>5, <1>6

\* HandleTerminal: the driver used up its attempts.
LEMMA LogInv ==
  ASSUME NEW w, BInv(w), w.b.fd, w.b.hello, w.up # <<>>, Head(w.up).type = "LOG"
  PROVE  LET v == HandleTerminal(Rest(w)) IN BInv(v) /\ (v.b.fd => v.up = Tail(w.up))
<1>. DEFINE r == Rest(w)
            u == [r EXCEPT !.b.terminal_failure = TRUE]
<1>0. w \in States
  BY DEF BInv
<1>1. /\ r \in States /\ r.up = Tail(w.up)
      /\ r.b = w.b /\ r.kid = w.kid /\ r.down = w.down /\ r.owed = w.owed /\ r.choice = w.choice
  BY <1>0, RestIs
<1>. HIDE DEF r
<1>2. u \in States /\ u.kid = r.kid /\ u.owed = r.owed /\ u.choice = r.choice
      /\ u.b.complete = r.b.complete /\ u.b.desired = r.b.desired
      /\ u.b.queued = r.b.queued
  BY <1>1, ZenonT(30) DEF States, Bridge
<1>3. HandleTerminal(r) = IF r.b.temporary THEN disconnect(u) ELSE r
  BY DEF HandleTerminal
<1>. HIDE DEF u
<1>4. CASE r.b.temporary
  <2>1. Owes(u) /\ Waits(u.kid) /\ Holds(u)
    BY <1>1, <1>2 DEF BInv, Requests, Owes, Kept, Holds
  <2>2. Cut(disconnect(u))
    BY <1>2, <2>1, DisconnectCut
  <2>. QED
    BY <1>3, <1>4, <2>2, CutInv DEF r, Cut
<1>5. CASE ~r.b.temporary
  <2>1. BInv(r)
    BY <1>0, <1>1, PlainInv
  <2>. QED
    BY <1>1, <1>3, <1>5, <2>1 DEF r
<1>. QED
  BY <1>4, <1>5

\* Any record that is read.
LEMMA ReadInv ==
  ASSUME EndlessId, NEW w, BInv(w), w.b.fd, w.up # <<>>
  PROVE  LET v == Read(w, Head(w.up)) IN BInv(v) /\ (v.b.fd => v.up = Tail(w.up))
<1>. DEFINE m == Head(w.up)
            r == Rest(w)
            v == Read(w, m)
<1>0. w \in States /\ Phases(w) /\ Requests(w) /\ Kept(w) /\ Waits(w.kid) /\ Service(w)
  BY DEF BInv
<1>1. /\ r \in States /\ r.up = Tail(w.up) /\ m \in UpRecord
      /\ r.b = w.b /\ r.kid = w.kid /\ r.down = w.down /\ r.owed = w.owed /\ r.choice = w.choice
  BY <1>0, RestIs
<1>2. m.type \in {"HELLO", "CAPABILITIES", "LOG", "STATE", "RESULT"}
  BY <1>1 DEF UpRecord
<1>3. m.type = "STATE" => /\ m.available => m.setting \in Setting
                          /\ ~m.available => m.setting = None
  BY <1>1 DEF UpRecord
<1>4. w.b.ready => w.b.hello
  BY <1>0 DEF Phases
<1>5. v = IF w.b.idling /\ m.type # "LOG" THEN r ELSE handle(r, m)
  BY DEF Read, Rest
<1>6. Cut(disconnect(r))
  <2>1. Owes(r) /\ Holds(r)
    BY <1>0, <1>1 DEF Requests, Owes, Kept, Holds
  <2>. QED
    BY <1>0, <1>1, <2>1, DisconnectCut
<1>. HIDE DEF r, m
<1>7. ASSUME v = disconnect(r) PROVE BInv(v) /\ (v.b.fd => v.up = Tail(w.up))
  <2>. HIDE DEF v
  <2>. QED
    BY <1>6, <1>7, CutInv DEF Cut
<1>8. CASE w.b.idling /\ m.type # "LOG"
  <2>1. ~Serves(w)
    BY <1>0, <1>8 DEF Service
  <2>2. Phases(r) /\ Requests(r) /\ Kept(r) /\ Waits(r.kid)
    BY <1>0, <1>1 DEF BInv, Phases, Requests, Owes, Kept, Holds
  <2>3. ~Serves(r)
    BY <1>1, <2>1 DEF Serves
  <2>4. BInv(r)
    BY <1>1, <2>2, <2>3 DEF BInv, Service
  <2>. QED
    BY <1>1, <1>5, <1>8, <2>4 DEF m
<1>9. CASE ~(w.b.idling /\ m.type # "LOG")
  <2>1. v = handle(r, m)
    BY <1>5, <1>9
  <2>2. CASE ~w.b.hello
    <3>1. v = IF m.type = "HELLO" THEN [r EXCEPT !.b.hello = TRUE] ELSE disconnect(r)
      BY <1>1, <1>4, <2>1, <2>2 DEF handle
    <3>2. CASE m.type = "HELLO"
      <4>. DEFINE y == [r EXCEPT !.b.hello = TRUE]
      <4>1. /\ y \in States /\ y.up = r.up /\ y.kid = r.kid /\ y.down = r.down
            /\ y.owed = r.owed /\ y.choice = r.choice /\ y.b.hello /\ y.b.fd = r.b.fd
            /\ y.b.ready = r.b.ready /\ y.b.online = r.b.online /\ y.b.seen = r.b.seen
            /\ y.b.desired = r.b.desired /\ y.b.requested = r.b.requested
            /\ y.b.queued = r.b.queued /\ y.b.pending = r.b.pending
            /\ y.b.complete = r.b.complete /\ y.b.idling = r.b.idling
        BY <1>1, ZenonT(30) DEF States, Bridge
      <4>. HIDE DEF y
      <4>2. BInv(y)
        BY <1>1, <3>2, <4>1, PlainInv DEF m
      <4>. QED
        BY <1>1, <3>1, <3>2, <4>1, <4>2 DEF y, m
    <3>. QED
      BY <1>7, <3>1, <3>2 DEF m
  <2>3. CASE w.b.hello /\ m.type = "LOG"
    <3>1. v = HandleTerminal(r)
      BY <1>1, <2>1, <2>3 DEF handle
    <3>. QED
      BY <2>3, <3>1, LogInv DEF r, m
  <2>4. CASE w.b.hello /\ m.type # "LOG" /\ ~w.b.ready
    <3>1. v = IF m.type = "CAPABILITIES" THEN [r EXCEPT !.b.ready = TRUE] ELSE disconnect(r)
      BY <1>1, <2>1, <2>4 DEF handle
    <3>2. CASE m.type = "CAPABILITIES"
      <4>. DEFINE y == [r EXCEPT !.b.ready = TRUE]
      <4>1. /\ y \in States /\ y.up = r.up /\ y.kid = r.kid /\ y.down = r.down
            /\ y.owed = r.owed /\ y.choice = r.choice /\ y.b.hello = r.b.hello /\ y.b.fd = r.b.fd
            /\ y.b.ready /\ y.b.online = r.b.online /\ y.b.seen = r.b.seen
            /\ y.b.desired = r.b.desired /\ y.b.requested = r.b.requested
            /\ y.b.queued = r.b.queued /\ y.b.pending = r.b.pending
            /\ y.b.complete = r.b.complete /\ y.b.idling = r.b.idling
        BY <1>1, ZenonT(30) DEF States, Bridge
      <4>. HIDE DEF y
      <4>3. /\ m.type \notin {"STATE", "RESULT"}
            /\ y.b.fd /\ y.b.hello /\ y.b.ready /\ (w.b.ready => y.b.ready)
            /\ y.up = Tail(w.up) /\ y.kid = w.kid /\ y.down = w.down
            /\ y.owed = w.owed /\ y.choice = w.choice
            /\ y.b.online = w.b.online /\ y.b.seen = w.b.seen
            /\ y.b.desired = w.b.desired /\ y.b.requested = w.b.requested
            /\ y.b.queued = w.b.queued /\ y.b.pending = w.b.pending
            /\ y.b.complete = w.b.complete /\ y.b.idling = w.b.idling
        BY <1>1, <2>4, <3>2, <4>1
      <4>2. BInv(y)
        BY <4>1, <4>3, PlainInv DEF m
      <4>. QED
        BY <1>1, <3>1, <3>2, <4>1, <4>2 DEF y, m
    <3>. QED
      BY <1>7, <3>1, <3>2 DEF m
  <2>5. CASE w.b.hello /\ w.b.ready /\ m.type = "CAPABILITIES"
    <3>1. v = r
      BY <1>1, <2>1, <2>5 DEF handle
    <3>2. BInv(r)
      BY <1>1, <2>5, PlainInv DEF m
    <3>. QED
      BY <1>1, <3>1, <3>2 DEF m
  <2>6. CASE w.b.hello /\ w.b.ready /\ m.type = "STATE"
    <3>1. v = IF m.available THEN HandleOnline(r, m) ELSE offline(r)
      BY <1>1, <2>1, <2>6 DEF handle
    <3>2. CASE m.available
      BY <1>3, <2>6, <3>1, <3>2, OnlineInv DEF r, m
    <3>3. CASE ~m.available
      BY <1>3, <2>6, <3>1, <3>3, OfflineInv DEF r, m
    <3>. QED
      BY <3>2, <3>3
  <2>7. CASE w.b.hello /\ w.b.ready /\ m.type = "RESULT"
    <3>1. v = HandleResult(r, m)
      BY <1>1, <2>1, <2>7 DEF handle
    <3>. QED
      BY <2>7, <3>1, ResultInv DEF r, m
  <2>8. CASE w.b.hello /\ w.b.ready /\ m.type = "HELLO"
    <3>1. v = disconnect(r)
      BY <1>1, <2>1, <2>8 DEF handle
    <3>. QED
      BY <1>7, <3>1 DEF m
  <2>. QED
    BY <1>2, <2>2, <2>3, <2>4, <2>5, <2>6, <2>7, <2>8
<1>. QED
  BY <1>8, <1>9

----------------------------------------------------------------------------
(* Reading all records *)

\* f[n] is the state after n records of w, of which there are m at least.
Reads(f, w, m) == f = [n \in 0..m |-> IF n = 0 THEN w ELSE Read(f[n - 1], w.up[n])]

\* There are such states.
LEMMA ReadsExist ==
  ASSUME NEW w, NEW m \in Nat
  PROVE  \E f : Reads(f, w, m)
<1>. DEFINE S == {n \in Nat : ~(\E f : Reads(f, w, n))}
<1>1. SUFFICES ASSUME S # {} PROVE FALSE
  OBVIOUS
<1>2. PICK n \in S : \A k \in S : n <= k
  BY <1>1, LeastNatural
<1>3. n \in Nat /\ ~(\E f : Reads(f, w, n))
  OBVIOUS
<1>4. CASE n = 0
  <2>. DEFINE f == [k \in 0..0 |-> w]
  <2>1. Reads(f, w, 0)
    BY DEF Reads
  <2>. QED
    BY <1>3, <1>4, <2>1
<1>5. CASE n # 0
  <2>1. n - 1 \in Nat /\ n - 1 \notin S
    BY <1>2, <1>3, <1>5
  <2>2. PICK g : Reads(g, w, n - 1)
    BY <2>1
  <2>. DEFINE last == Read(g[n - 1], w.up[n])
              f == [k \in 0..n |-> IF k <= n - 1 THEN g[k] ELSE last]
  <2>3. \A k \in 0..(n - 1) : g[k] = IF k = 0 THEN w ELSE Read(g[k - 1], w.up[k])
    BY <2>2 DEF Reads
  <2>4. /\ \A k \in 0..(n - 1) : k \in 0..n /\ f[k] = g[k] /\ (k # 0 => k - 1 \in 0..(n - 1))
        /\ f[n] = last /\ n - 1 \in 0..(n - 1)
    BY <1>3, <1>5
  <2>5. f = [k \in 0..n |-> f[k]]
    OBVIOUS
  <2>. HIDE DEF f
  <2>6. ASSUME NEW k \in 0..n
        PROVE  f[k] = IF k = 0 THEN w ELSE Read(f[k - 1], w.up[k])
    <3>1. CASE k = n
      BY <1>5, <2>4, <3>1
    <3>2. CASE k # n
      <4>1. k \in 0..(n - 1)
        BY <1>3, <3>2
      <4>. QED
        BY <2>3, <2>4, <4>1
    <3>. QED
      BY <3>1, <3>2
  <2>7. Reads(f, w, n)
    BY <2>5, <2>6 DEF Reads
  <2>. QED
    BY <1>3, <2>7
<1>. QED
  BY <1>4, <1>5

\* What is left of the records q after n of them, unless the socket was closed.
Left(x, q, n) ==
  x.b.fd => /\ Len(x.up) = Len(q) - n
            /\ \A i \in 1..Len(x.up) : i + n \in 1..Len(q) /\ x.up[i] = q[i + n]

\* One record more.
LEMMA LeftInv ==
  ASSUME EndlessId, NEW q \in Seq(UpRecord), NEW n \in 1..Len(q),
         NEW x, BInv(x), Left(x, q, n - 1)
  PROVE  LET v == Read(x, q[n]) IN BInv(v) /\ Left(v, q, n)
<1>. DEFINE v == Read(x, q[n])
<1>1. CASE ~x.b.fd
  <2>1. v = x
    BY <1>1 DEF Read
  <2>. QED
    BY <1>1, <2>1 DEF Left
<1>2. CASE x.b.fd
  <2>1. /\ Len(x.up) = Len(q) - (n - 1)
        /\ \A i \in 1..Len(x.up) : i + (n - 1) \in 1..Len(q) /\ x.up[i] = q[i + (n - 1)]
    BY <1>2 DEF Left
  <2>2. x.up \in Seq(UpRecord)
    BY DEF BInv, States
  <2>3. Len(q) \in Nat /\ n \in Int /\ 1 \in 1..Len(x.up) /\ x.up # <<>>
    BY <2>1
  <2>4. x.up[1] = q[n]
    <3>1. 1 + (n - 1) = n
      BY <2>3
    <3>. QED
      BY <2>1, <2>3, <3>1
  <2>5. /\ Head(x.up) = x.up[1] /\ Len(Tail(x.up)) = Len(x.up) - 1
        /\ \A i \in 1..Len(Tail(x.up)) : i + 1 \in 1..Len(x.up) /\ Tail(x.up)[i] = x.up[i + 1]
    BY <2>2, <2>3, TailIs
  <2>6. v = Read(x, Head(x.up))
    BY <2>4, <2>5
  <2>7. BInv(v) /\ (v.b.fd => v.up = Tail(x.up))
    BY <1>2, <2>3, <2>6, ReadInv
  <2>. HIDE DEF v
  <2>. DEFINE t == Tail(x.up)
  <2>8. ASSUME NEW i \in 1..Len(t) PROVE i + n \in 1..Len(q) /\ t[i] = q[i + n]
    <3>1. i + 1 \in 1..Len(x.up) /\ t[i] = x.up[i + 1]
      BY <2>5
    <3>2. (i + 1) + (n - 1) = i + n
      BY <2>3
    <3>3. (i + 1) + (n - 1) \in 1..Len(q) /\ x.up[i + 1] = q[(i + 1) + (n - 1)]
      BY <2>1, <3>1
    <3>. QED
      BY <3>1, <3>2, <3>3
  <2>9. Len(t) = Len(q) - n
    BY <2>1, <2>3, <2>5
  <2>10. Left(v, q, n)
    <3>. HIDE DEF t
    <3>1. v.b.fd => v.up = t
      BY <2>7 DEF t
    <3>. QED
      BY <2>8, <2>9, <3>1 DEF Left
  <2>. QED
    BY <2>7, <2>10 DEF v
<1>. QED
  BY <1>1, <1>2

\* Receive: all of them, and the end of file.
LEMMA ReceiveInv ==
  ASSUME EndlessId, NEW w, BInv(w)
  PROVE  BInv(Receive(w))
<1>. DEFINE q == w.up
            N == Len(w.up)
            f == CHOOSE g : Reads(g, w, N)
            r == f[N]
<1>1. q \in Seq(UpRecord) /\ N \in Nat
  BY DEF BInv, States
<1>2. Receive(w) = IF r.b.fd /\ r.kid.proc = "zombie" THEN disconnect(r) ELSE r
  BY DEF Receive, Reads
<1>3. Reads(f, w, N)
  BY <1>1, ReadsExist
<1>. HIDE DEF f
<1>4. \A n \in 0..N : f[n] = IF n = 0 THEN w ELSE Read(f[n - 1], q[n])
  BY <1>3 DEF Reads
<1>. DEFINE S == {n \in 0..N : ~(BInv(f[n]) /\ Left(f[n], q, n))}
<1>5. ASSUME S # {} PROVE FALSE
  <2>1. S \in SUBSET Nat
    OBVIOUS
  <2>2. PICK n \in S : \A k \in S : n <= k
    BY <1>5, <2>1, LeastNatural
  <2>3. n \in 0..N /\ ~(BInv(f[n]) /\ Left(f[n], q, n))
    OBVIOUS
  <2>4. CASE n = 0
    <3>1. f[n] = w
      BY <1>1, <1>4, <2>4
    <3>2. Left(w, q, 0)
      BY <1>1 DEF Left
    <3>. QED
      BY <2>3, <2>4, <3>1, <3>2
  <2>5. CASE n # 0
    <3>1. n - 1 \in 0..N /\ n \in 1..N /\ n - 1 \notin S
      BY <1>1, <2>2, <2>3, <2>5
    <3>2. BInv(f[n - 1]) /\ Left(f[n - 1], q, n - 1)
      BY <3>1
    <3>3. f[n] = Read(f[n - 1], q[n])
      BY <1>4, <2>3, <2>5
    <3>. HIDE DEF q
    <3>4. n \in 1..Len(q)
      BY <3>1 DEF q
    <3>5. BInv(f[n]) /\ Left(f[n], q, n)
      BY <1>1, <3>2, <3>3, <3>4, LeftInv
    <3>. QED
      BY <2>3, <3>5
  <2>. QED
    BY <2>4, <2>5
<1>6. BInv(r)
  BY <1>1, <1>5
<1>. HIDE DEF r
<1>7. CASE r.b.fd /\ r.kid.proc = "zombie"
  <2>1. r \in States /\ Owes(r) /\ Waits(r.kid) /\ Holds(r)
    BY <1>6 DEF BInv, Requests, Kept
  <2>2. BInv(disconnect(r))
    BY <2>1, DisconnectCut, CutInv
  <2>. QED
    BY <1>2, <1>7, <2>2
<1>8. CASE ~(r.b.fd /\ r.kid.proc = "zombie")
  BY <1>2, <1>6, <1>8
<1>. QED
  BY <1>7, <1>8

----------------------------------------------------------------------------
(* The steps of a poll *)

\* The state of the next step.
LEMMA BecomeIs ==
  ASSUME NEW w \in States, Become(w)
  PROVE  Now' = w
<1>1. w = [b |-> w.b, kid |-> w.kid, up |-> w.up, down |-> w.down,
           owed |-> w.owed, choice |-> w.choice]
  BY DEF States
<1>. QED
  BY <1>1 DEF Become, Now

\* A flag of the supervisor that the invariant does not read.
LEMMA FlagInv ==
  ASSUME NEW w, BInv(w), NEW v \in BOOLEAN
  PROVE  /\ BInv([w EXCEPT !.b.backoff = v])
         /\ BInv([w EXCEPT !.b.idling = FALSE])
<1>0. w \in States
  BY DEF BInv
<1>1. w.b \in Bridge
  BY <1>0 DEF States
<1>2. ASSUME NEW c \in Bridge, NEW x, x = [w EXCEPT !.b = c],
             c.fd = w.b.fd, c.hello = w.b.hello, c.ready = w.b.ready,
             c.online = w.b.online, c.desired = w.b.desired, c.requested = w.b.requested,
             c.queued = w.b.queued, c.pending = w.b.pending, c.complete = w.b.complete,
             c.seen = w.b.seen, c.idling \in {FALSE, w.b.idling}
      PROVE  BInv(x)
  <2>1. x \in States /\ x.b = c /\ x.kid = w.kid /\ x.up = w.up /\ x.down = w.down
        /\ x.owed = w.owed /\ x.choice = w.choice
    BY <1>0, <1>2 DEF States
  <2>2. Alike(x, w)
    BY <1>2, <2>1 DEF Alike
  <2>3. Serves(w) => ~x.b.idling
    BY <1>2, <2>1 DEF BInv, Service
  <2>. QED
    BY <2>1, <2>2, <2>3, AlikeInv
<1>. DEFINE f == [w.b EXCEPT !.backoff = v]
            g == [w.b EXCEPT !.idling = FALSE]
<1>3. /\ f \in Bridge /\ f.fd = w.b.fd /\ f.hello = w.b.hello /\ f.ready = w.b.ready
      /\ f.online = w.b.online /\ f.desired = w.b.desired /\ f.requested = w.b.requested
      /\ f.queued = w.b.queued /\ f.pending = w.b.pending /\ f.complete = w.b.complete
      /\ f.seen = w.b.seen /\ f.idling = w.b.idling
  BY <1>1, SMTT(20) DEF Bridge
<1>4. /\ g \in Bridge /\ g.fd = w.b.fd /\ g.hello = w.b.hello /\ g.ready = w.b.ready
      /\ g.online = w.b.online /\ g.desired = w.b.desired /\ g.requested = w.b.requested
      /\ g.queued = w.b.queued /\ g.pending = w.b.pending /\ g.complete = w.b.complete
      /\ g.seen = w.b.seen /\ g.idling = FALSE
  BY <1>1, ZenonT(30) DEF Bridge
<1>5. [w EXCEPT !.b.backoff = v] = [w EXCEPT !.b = f]
  OBVIOUS
<1>6. [w EXCEPT !.b.idling = FALSE] = [w EXCEPT !.b = g]
  OBVIOUS
<1>. HIDE DEF f, g
<1>7. BInv([w EXCEPT !.b.backoff = v])
  BY <1>2, <1>3, <1>5
<1>8. BInv([w EXCEPT !.b.idling = FALSE])
  BY <1>2, <1>4, <1>6
<1>. QED
  BY <1>7, <1>8

\* Idle: the process is told to leave and not listened to any more.
LEMMA IdleInv ==
  ASSUME NEW w, BInv(w)
  PROVE  BInv(Idle(w))
<1>. DEFINE c == [w.b EXCEPT !.idling = TRUE, !.backoff = FALSE]
            i == [w EXCEPT !.b = c]
            d == Sent(w, [type |-> "SHUTDOWN"])
            j == [i EXCEPT !.down = d]
            v == Idle(w)
<1>0. w \in States /\ Phases(w) /\ Requests(w) /\ Kept(w) /\ Waits(w.kid)
  BY DEF BInv
<1>1. w.b \in Bridge
  BY <1>0 DEF States
<1>2. /\ c \in Bridge /\ c.idling
      /\ c.fd = w.b.fd /\ c.hello = w.b.hello /\ c.ready = w.b.ready
      /\ c.online = w.b.online /\ c.desired = w.b.desired /\ c.requested = w.b.requested
      /\ c.queued = w.b.queued /\ c.pending = w.b.pending /\ c.complete = w.b.complete
      /\ c.seen = w.b.seen
  BY <1>1, ZenonT(30) DEF Bridge
<1>3. v = IF w.b.fd THEN offline(j) ELSE i
  BY DEF Idle
<1>4. [type |-> "SHUTDOWN"] \in DownRecord
  BY DEF DownRecord
<1>5. d \in Seq(DownRecord)
  BY <1>0, <1>4, SentIs
<1>6. \E k \in 1..Len(d) : d[k].type = "SHUTDOWN"
  <2>. DEFINE m == [type |-> "SHUTDOWN"]
  <2>1. m.type = "SHUTDOWN" /\ m \in DownRecord
    BY <1>4
  <2>2. w.down \in Seq(DownRecord)
    BY <1>0 DEF States
  <2>. HIDE DEF m
  <2>3. /\ \A k \in 1..Len(w.down) : w.down[k].type # "SHUTDOWN"
        /\ Sent(w, m) = Append(w.down, m)
        => \E k \in 1..Len(Sent(w, m)) : Sent(w, m)[k].type = "SHUTDOWN"
    <3>1. LET a == Append(w.down, m)
          IN  Len(a) = Len(w.down) + 1 /\ a[Len(a)] = m /\ Len(w.down) \in Nat
      BY <2>1, <2>2, AppendIs
    <3>. DEFINE a == Append(w.down, m)
    <3>2. Len(a) \in 1..Len(a) /\ a[Len(a)].type = "SHUTDOWN"
      BY <2>1, <3>1
    <3>. HIDE DEF a
    <3>. QED
      BY <3>2 DEF a
  <2>4. \/ \E k \in 1..Len(w.down) : w.down[k].type = "SHUTDOWN" /\ Sent(w, m) = w.down
        \/ (\A k \in 1..Len(w.down) : w.down[k].type # "SHUTDOWN")
             /\ Sent(w, m) = Append(w.down, m)
    BY <1>0, <2>1, SentIs
  <2>5. \E k \in 1..Len(Sent(w, m)) : Sent(w, m)[k].type = "SHUTDOWN"
    BY <2>3, <2>4
  <2>. QED
    BY <2>5 DEF m
<1>. HIDE DEF c, d
<1>7. /\ i \in States /\ i.b = c /\ i.kid = w.kid /\ i.up = w.up /\ i.down = w.down
      /\ i.owed = w.owed /\ i.choice = w.choice
  BY <1>0, <1>2 DEF States
<1>8. /\ j \in States /\ j.b = c /\ j.kid = w.kid /\ j.up = w.up /\ j.down = d
      /\ j.owed = w.owed /\ j.choice = w.choice
  BY <1>0, <1>2, <1>5 DEF States
<1>. HIDE DEF i, j
<1>9. CASE w.b.fd
  <2>. DEFINE o == offline(j)
  <2>1. /\ o \in States
        /\ o.b.pending = 0 /\ ~o.b.complete /\ o.b.queued = None /\ o.b.requested = None
        /\ o.owed = IF j.b.complete THEN j.owed - 1 ELSE j.owed
        /\ o.kid = j.kid /\ o.up = j.up /\ o.down = j.down /\ o.choice = Survives(j.choice)
        /\ o.b.fd = j.b.fd /\ o.b.hello = j.b.hello /\ o.b.ready = j.b.ready
        /\ ~o.b.online /\ o.b.idling = j.b.idling /\ o.b.seen = None
        /\ o.b.desired = ReturnTo(j)
    BY <1>8, OfflineIs
  <2>2. v = o
    BY <1>3, <1>9
  <2>. HIDE DEF o
  <2>3. Phases(o)
    BY <1>0, <1>2, <1>8, <1>9, <2>1 DEF Phases
  <2>4. Requests(o)
    BY <1>0, <1>2, <1>8, <2>1 DEF Requests, Owes
  <2>5. Kept(o) /\ Waits(o.kid)
    <3>1. /\ w.choice \in ChoiceHistory /\ j.choice = w.choice
          /\ w.choice.granted = w.b.desired /\ w.choice.waiting = w.b.queued
      BY <1>0, <1>8 DEF Kept, Holds, States
    <3>. QED
      BY <1>0, <1>2, <1>8, <2>1, <3>1, SurvivesIs DEF Kept, Holds, ReturnTo
  <2>6. ~Serves(o)
    BY <1>6, <1>8, <2>1 DEF Serves
  <2>7. BInv(o)
    BY <2>1, <2>3, <2>4, <2>5, <2>6 DEF BInv, Service
  <2>. QED
    BY <2>2, <2>7 DEF v
<1>10. CASE ~w.b.fd
  <2>1. ~Serves(w)
    BY <1>0, <1>10 DEF Serves, Phases
  <2>2. Alike(i, w)
    BY <1>2, <1>7 DEF Alike
  <2>3. BInv(i)
    BY <1>7, <2>1, <2>2, AlikeInv
  <2>. QED
    BY <1>3, <1>10, <2>3 DEF v
<1>. QED
  BY <1>9, <1>10

\* Demand: somebody receives, or nobody does any more.
LEMMA DemandInv ==
  ASSUME NEW w, BInv(w), NEW wanted
  PROVE  BInv(Demand(w, wanted))
<1>1. BInv([w EXCEPT !.b.idling = FALSE])
  BY FlagInv
<1>2. BInv(Idle(w))
  BY IdleInv
<1>. QED
  BY <1>1, <1>2 DEF Demand

\* Expire: a deadline of the process passes.
LEMMA ExpireInv ==
  ASSUME NEW w, BInv(w), NEW expired
  PROVE  BInv(Expire(w, expired))
<1>1. BInv(disconnect(w))
  BY DisconnectCut, CutInv DEF BInv, Requests, Kept
<1>. QED
  BY <1>1 DEF Expire

\* A cut connection whose process is gone.
LEMMA GoneInv ==
  ASSUME NEW v, Cut(v), NEW c \in Bridge,
         c.fd = v.b.fd, c.ready = v.b.ready, c.online = v.b.online,
         c.seen = v.b.seen, c.pending = v.b.pending, c.complete = v.b.complete,
         c.queued = v.b.queued, c.desired = v.b.desired, c.requested = v.b.requested,
         NEW x, x = [v EXCEPT !.kid = Husk("none"), !.b = c]
                \/ x = [v EXCEPT !.b = c, !.kid = Husk("none")]
  PROVE  BInv(x) /\ x.b = c /\ x.kid = Husk("none")
<1>. DEFINE k == Husk("none")
<1>1. k \in Process /\ k.request = 0 /\ k.hz = None /\ k.proc = "none"
  BY BridgeAssumption DEF Husk, Fresh, Process
<1>2. x = [v EXCEPT !.kid = k, !.b = c] \/ x = [v EXCEPT !.b = c, !.kid = k]
  OBVIOUS
<1>. HIDE DEF k
<1>3. v \in States
  BY DEF Cut
<1>4. /\ x \in States /\ x.b = c /\ x.kid = k /\ x.up = v.up /\ x.down = v.down
      /\ x.owed = v.owed /\ x.choice = v.choice
  BY <1>1, <1>2, <1>3 DEF States
<1>5. Waits(x.kid) /\ x.kid.proc = "none"
  BY <1>1, <1>4 DEF Waits
<1>6. Cut(x)
  BY <1>4, <1>5 DEF Cut, Kept, Holds
<1>. QED
  BY <1>4, <1>6, CutInv DEF k

\* Reap: the process exited.
LEMMA ReapInv ==
  ASSUME NEW w, BInv(w), NEW wanted \in BOOLEAN
  PROVE  BInv(Reap(w, wanted))
<1>. DEFINE v == disconnect(w)
            f == wanted /\ ~w.b.idling
            c == [v.b EXCEPT !.backoff = f]
            x == [v EXCEPT !.kid = Husk("none"), !.b = c]
<1>1. w \in States /\ Owes(w) /\ Waits(w.kid) /\ Holds(w)
  BY DEF BInv, Requests, Kept
<1>2. Cut(v) /\ f \in BOOLEAN
  BY <1>1, DisconnectCut, SMTT(20) DEF States, Bridge
<1>3. Reap(w, wanted) = IF w.kid.proc # "zombie" THEN w
                        ELSE [v EXCEPT !.kid = Husk("none"), !.b.backoff = f]
  BY DEF Reap
<1>. HIDE DEF v, f
<1>4. v.b \in Bridge
  BY <1>2 DEF Cut, States
<1>5. /\ c \in Bridge
      /\ c.fd = v.b.fd /\ c.ready = v.b.ready /\ c.online = v.b.online
      /\ c.seen = v.b.seen /\ c.pending = v.b.pending /\ c.complete = v.b.complete
      /\ c.queued = v.b.queued /\ c.desired = v.b.desired
      /\ c.requested = v.b.requested
  BY <1>2, <1>4, SMTT(20) DEF Bridge
<1>6. [v EXCEPT !.kid = Husk("none"), !.b.backoff = f] = x
  <2>. DEFINE k == Husk("none")
              u == [v EXCEPT !.kid = k]
  <2>1. u.b = v.b
    <3>. HIDE DEF k
    <3>. QED
      BY <1>2 DEF Cut, States
  <2>. QED
    BY <2>1
<1>. HIDE DEF c
<1>7. BInv(x)
  BY <1>2, <1>5, GoneInv
<1>. QED
  BY <1>3, <1>6, <1>7

\* Sweep: a temporary receiver is removed.
LEMMA SweepInv ==
  ASSUME NEW w, BInv(w), NEW wanted, NEW unused
  PROVE  BInv(Sweep(w, wanted, unused))
<1>. DEFINE v == disconnect(w)
            c == [v.b EXCEPT !.removed = TRUE]
            x == [v EXCEPT !.b = c, !.kid = Husk("none")]
<1>1. w \in States /\ Owes(w) /\ Waits(w.kid) /\ Holds(w)
  BY DEF BInv, Requests, Kept
<1>2. Cut(v)
  BY <1>1, DisconnectCut
<1>3. websdr_remove(w) = x
  BY DEF websdr_remove
<1>. HIDE DEF v
<1>4. v.b \in Bridge
  BY <1>2 DEF Cut, States
<1>5. /\ c \in Bridge
      /\ c.fd = v.b.fd /\ c.ready = v.b.ready /\ c.online = v.b.online
      /\ c.seen = v.b.seen /\ c.pending = v.b.pending /\ c.complete = v.b.complete
      /\ c.queued = v.b.queued /\ c.desired = v.b.desired
      /\ c.requested = v.b.requested
  BY <1>4, ZenonT(30) DEF Bridge
<1>. HIDE DEF c
<1>6. BInv(x)
  BY <1>2, <1>5, GoneInv
<1>. QED
  BY <1>3, <1>6 DEF Sweep

\* Spawn: a process is started on a new socket.
LEMMA SpawnInv ==
  ASSUME NEW w, BInv(w), NEW wanted, NEW fails
  PROVE  BInv(Spawn(w, wanted, fails))
<1>. DEFINE c == [w.b EXCEPT !.fd = TRUE, !.hello = FALSE, !.ready = FALSE, !.idling = FALSE]
            k == Fresh
            x == [w EXCEPT !.b = c, !.kid = k]
<1>0. w \in States /\ Phases(w) /\ Requests(w) /\ Kept(w)
  BY DEF BInv
<1>1. w.b \in Bridge
  BY <1>0 DEF States
<1>2. BInv([w EXCEPT !.b.backoff = TRUE])
  BY FlagInv
<1>3. ASSUME w.kid.proc = "none"
      PROVE  BInv(spawn_child(w))
  <2>1. ~w.b.fd /\ ~w.b.ready /\ ~w.b.online /\ w.b.seen = None /\ w.up = <<>> /\ w.down = <<>>
    BY <1>0, <1>3 DEF Phases
  <2>2. w.b.pending = 0 /\ ~w.b.complete /\ w.owed = 0 /\ w.b.queued = None
        /\ w.b.requested = None
    BY <1>0, <2>1 DEF Requests, Owes
  <2>3. /\ c \in Bridge /\ c.fd /\ ~c.hello /\ ~c.ready /\ ~c.idling
        /\ c.online = w.b.online /\ c.seen = w.b.seen /\ c.pending = w.b.pending
        /\ c.complete = w.b.complete /\ c.queued = w.b.queued /\ c.desired = w.b.desired
        /\ c.requested = w.b.requested
    <3>1. c \in Bridge
      BY <1>1, ZenonT(30) DEF Bridge
    <3>2. c.fd /\ ~c.hello /\ ~c.ready /\ ~c.idling
      BY <1>1, SMTT(20) DEF Bridge
    <3>3. /\ c.online = w.b.online /\ c.seen = w.b.seen /\ c.pending = w.b.pending
          /\ c.complete = w.b.complete /\ c.queued = w.b.queued /\ c.desired = w.b.desired
          /\ c.requested = w.b.requested
      BY <1>1, SMTT(20) DEF Bridge
    <3>. QED
      BY <3>1, <3>2, <3>3
  <2>4. k \in Process /\ k.proc = "start" /\ k.link = "down" /\ k.request = 0 /\ k.hz = None
    BY BridgeAssumption DEF Fresh, Process
  <2>5. spawn_child(w) = x
    BY DEF spawn_child
  <2>. HIDE DEF c, k
  <2>6. /\ x \in States /\ x.b = c /\ x.kid = k /\ x.up = w.up /\ x.down = w.down
        /\ x.owed = w.owed /\ x.choice = w.choice
    BY <1>0, <2>3, <2>4 DEF States
  <2>. HIDE DEF x
  <2>7. Phases(x)
    BY <2>1, <2>3, <2>4, <2>6 DEF Phases
  <2>8. Requests(x)
    BY <2>1, <2>2, <2>3, <2>6 DEF Requests, Owes
  <2>9. Kept(x)
    BY <1>0, <2>3, <2>6 DEF Kept, Holds
  <2>10. Waits(x.kid)
    BY <2>4, <2>6 DEF Waits
  <2>11. Service(x)
    <3>1. NoState(x.up)
      BY <2>1, <2>6 DEF NoState
    <3>2. Tuning(x.kid) = None
      BY <2>4, <2>6 DEF Tuning
    <3>3. Underway(x)
      BY <2>1, <2>2, <2>3, <2>4, <2>6 DEF Underway, Unasked, NoResult, Reports
    <3>. QED
      BY <2>1, <2>3, <2>6, <3>1, <3>2, <3>3 DEF Service, Reported
  <2>. QED
    BY <2>5, <2>6, <2>7, <2>8, <2>9, <2>10, <2>11 DEF BInv
<1>. QED
  BY <1>2, <1>3 DEF Spawn

\* A whole poll.
LEMMA PolledInv ==
  ASSUME EndlessId, BInv(Now), demand \in BOOLEAN,
         NEW due \in BOOLEAN, NEW grace \in BOOLEAN, NEW late \in BOOLEAN,
         NEW fails \in BOOLEAN, NEW unused \in BOOLEAN
  PROVE  BInv(Polled(due, grace, late, fails, unused))
<1>. DEFINE wanted == demand /\ ~b.terminal_failure
            back == b.backoff /\ ~due
            n0 == [Now EXCEPT !.b.backoff = back]
            w0 == Demand(n0, wanted)
            w1 == Expire(w0, grace /\ w0.b.idling)
            w2 == Expire(Receive(w1), late)
            w3 == Spawn(Reap(w2, wanted), wanted, fails)
<1>1. wanted \in BOOLEAN /\ back \in BOOLEAN
  BY DEF BInv, States, Bridge, Now
<1>2. Polled(due, grace, late, fails, unused) = Sweep(w3, wanted, unused)
  BY DEF Polled, Now
<1>. HIDE DEF wanted, back
<1>3. BInv(n0)
  BY <1>1, FlagInv
<1>. HIDE DEF n0
<1>4. BInv(w0)
  BY <1>3, DemandInv
<1>. HIDE DEF w0
<1>5. BInv(w1)
  BY <1>4, ExpireInv
<1>. HIDE DEF w1
<1>6. BInv(Receive(w1))
  BY <1>5, ReceiveInv
<1>7. BInv(w2)
  BY <1>6, ExpireInv
<1>. HIDE DEF w2
<1>8. BInv(Reap(w2, wanted))
  BY <1>1, <1>7, ReapInv
<1>9. BInv(w3)
  BY <1>8, SpawnInv
<1>. HIDE DEF w3
<1>10. BInv(Sweep(w3, wanted, unused))
  BY <1>9, SweepInv
<1>. QED
  BY <1>2, <1>10

\* The server stops.
LEMMA StopInv ==
  ASSUME BInv(Now)
  PROVE  BInv([disconnect(Now) EXCEPT !.b.stopping = TRUE, !.kid = Husk("none")])
<1>. DEFINE v == disconnect(Now)
            c == [v.b EXCEPT !.stopping = TRUE]
            x == [v EXCEPT !.b = c, !.kid = Husk("none")]
<1>1. Cut(v)
  BY DisconnectCut DEF BInv, Requests, Kept
<1>2. [disconnect(Now) EXCEPT !.b.stopping = TRUE, !.kid = Husk("none")] = x
  OBVIOUS
<1>. HIDE DEF v
<1>3. v.b \in Bridge
  BY <1>1 DEF Cut, States
<1>4. /\ c \in Bridge
      /\ c.fd = v.b.fd /\ c.ready = v.b.ready /\ c.online = v.b.online
      /\ c.seen = v.b.seen /\ c.pending = v.b.pending /\ c.complete = v.b.complete
      /\ c.queued = v.b.queued /\ c.desired = v.b.desired
      /\ c.requested = v.b.requested
  BY <1>3, ZenonT(30) DEF Bridge
<1>. HIDE DEF c
<1>5. BInv(x)
  BY <1>1, <1>4, GoneInv
<1>. QED
  BY <1>2, <1>5

----------------------------------------------------------------------------
(* An operator's change *)

\* A change of a setting is a setting.
LEMMA ChangeIs ==
  ASSUME NEW s \in Setting, NEW property, NEW value,
         (property = "hz" /\ value \in Hz) \/ (property = "mode" /\ value \in Mode)
  PROVE  Change(s, property, value) \in Setting
BY DEF Change, Setting

\* It is made behind a pending request.
LEMMA CoalesceInv ==
  ASSUME NEW w, BInv(w), w.b.pending # 0, ~w.b.complete, NEW s \in Setting,
         NEW x \in States, x.b.queued = s,
         x.choice.granted = w.choice.granted, x.choice.asked = w.choice.asked,
         x.choice.waiting = s, x.choice.astray = w.choice.astray,
         x.b.fd = w.b.fd, x.b.hello = w.b.hello, x.b.ready = w.b.ready,
         x.b.online = w.b.online, x.b.desired = w.b.desired, x.b.requested = w.b.requested,
         x.b.pending = w.b.pending, x.b.complete = w.b.complete,
         x.b.seen = w.b.seen, x.b.idling = w.b.idling,
         x.kid = w.kid, x.up = w.up, x.down = w.down, x.owed = w.owed
  PROVE  BInv(x)
<1>0. s # None
  BY BridgeAssumption
<1>1. Phases(x)
  BY DEF BInv, Phases
<1>2. Requests(x)
  BY DEF BInv, Requests, Owes
<1>4. Kept(x)
  BY DEF BInv, Kept, Holds
<1>5. Waits(x.kid)
  BY DEF BInv
<1>6. Service(x)
  BY DEF BInv, Service, Serves, Underway, Unasked, Tuned, Alone
<1>. QED
  BY <1>1, <1>2, <1>4, <1>5, <1>6 DEF BInv

\* What the operator means is what the supervisor builds on.
LEMMA BaseIs ==
  ASSUME NEW w \in States, Requests(w), Kept(w), w.b.online
  PROVE  Base(w) = Latest(w.choice) /\ Base(w) \in Setting
<1>1. /\ w.b.desired \in Setting \cup {None} /\ w.b.requested \in Setting \cup {None}
      /\ w.b.queued \in Setting \cup {None}
  BY SMTT(20) DEF States, Bridge
<1>. QED
  BY <1>1 DEF Base, Latest, Kept, Holds, Requests

\* control.
LEMMA ControlInv ==
  ASSUME EndlessId, BInv(Now), NEW property, NEW value, NEW callback \in BOOLEAN,
         (property = "hz" /\ value \in Hz) \/ (property = "mode" /\ value \in Mode),
         control(property, value, callback)
  PROVE  BInv(Now')
<1>. DEFINE w == Now
            s == Change(Base(w), property, value)
            i == Intended(property, value)
            tuned == send_setting(w, s, callback)
            o == IF callback THEN tuned.owed + 1 ELSE tuned.owed
            z == [Accepted(tuned, callback) EXCEPT !.choice.asked = i]
            y == [Accepted(w, callback) EXCEPT !.b.queued = s, !.choice.waiting = i]
<1>1. /\ w \in States /\ Phases(w) /\ Requests(w) /\ Kept(w) /\ Waits(w.kid) /\ Service(w)
      /\ w.b = b /\ w.choice = choice
  BY DEF BInv, Now
<1>2. b.desired # None /\ b.online
  BY DEF control
<1>3. Base(w) = Latest(choice) /\ Base(w) \in Setting
  BY <1>1, <1>2, BaseIs
<1>4. s \in Setting
  BY <1>3, ChangeIs
<1>5. i = s
  BY <1>3 DEF Intended
<1>6. \/ Coalesces(w, callback) /\ Become(y)
      \/ CanSend(w) /\ Become(IF tuned.b.fd THEN z ELSE tuned)
  BY DEF control
<1>7. Accepted(tuned, callback) = [tuned EXCEPT !.owed = o]
  BY DEF Accepted
<1>8. w.b \in Bridge /\ w.choice \in ChoiceHistory
  BY <1>1 DEF States
<1>. HIDE DEF w, i
<1>9. CASE Coalesces(w, callback) /\ Become(y)
  <2>1. w.b.pending # 0 /\ ~w.b.complete /\ ~callback
    BY <1>9 DEF Coalesces
  <2>. DEFINE c == [w.b EXCEPT !.queued = s]
              h == [w.choice EXCEPT !.waiting = s]
              x == [w EXCEPT !.b = c, !.choice = h]
  <2>2. y = x
    <3>1. Accepted(w, callback) = w
      BY <1>1, <2>1 DEF Accepted, States
    <3>2. y = [w EXCEPT !.b.queued = s, !.choice.waiting = i]
      BY <3>1
    <3>. HIDE DEF s, y
    <3>. QED
      BY <1>1, <1>5, <3>2 DEF States
  <2>. HIDE DEF s, y
  <2>3. /\ c \in Bridge /\ c.queued = s
        /\ c.fd = w.b.fd /\ c.hello = w.b.hello /\ c.ready = w.b.ready
        /\ c.online = w.b.online /\ c.desired = w.b.desired /\ c.requested = w.b.requested
        /\ c.pending = w.b.pending /\ c.complete = w.b.complete
        /\ c.seen = w.b.seen /\ c.idling = w.b.idling
    BY <1>4, <1>8, SMTT(20) DEF Bridge
  <2>4. /\ h \in ChoiceHistory /\ h.granted = w.choice.granted /\ h.asked = w.choice.asked
        /\ h.waiting = s /\ h.astray = w.choice.astray
    BY <1>4, <1>8, ZenonT(30) DEF ChoiceHistory
  <2>. HIDE DEF c, h
  <2>5. /\ x \in States /\ x.b = c /\ x.kid = w.kid /\ x.up = w.up /\ x.down = w.down
        /\ x.owed = w.owed /\ x.choice = h
    BY <1>1, <2>3, <2>4 DEF States
  <2>. HIDE DEF x
  <2>6. BInv(x)
    BY <1>4, <2>1, <2>3, <2>4, <2>5, CoalesceInv DEF w
  <2>7. Now' = x
    BY <1>9, <2>2, <2>5, BecomeIs
  <2>. QED
    BY <2>6, <2>7
<1>10. CASE CanSend(w) /\ Become(IF tuned.b.fd THEN z ELSE tuned)
  <2>1. w.b.ready /\ w.b.online /\ w.b.pending = 0 /\ w.b.fd
    BY <1>1, <1>10 DEF CanSend, Phases
  <2>2. Owes(w) /\ ~w.b.complete /\ w.b.queued = None /\ w.owed = 0 /\ Holds(w)
    BY <1>1, <2>1 DEF Requests, Owes, Kept
  <2>3. CASE w.kid.proc = "zombie"
    <3>1. tuned = disconnect(w)
      BY <2>3 DEF send_setting
    <3>2. Cut(tuned)
      BY <1>1, <2>2, <3>1, DisconnectCut
    <3>. HIDE DEF tuned
    <3>3. Become(tuned) /\ tuned \in States
      BY <1>10, <3>2 DEF Cut
    <3>4. Now' = tuned
      BY <3>3, BecomeIs
    <3>. QED
      BY <3>2, <3>4, CutInv
  <2>4. CASE w.kid.proc # "zombie"
    <3>1. /\ tuned \in States /\ tuned.b.fd = w.b.fd /\ tuned.owed = w.owed
          /\ tuned.choice = w.choice
      BY <1>1, <1>4, <2>4, SendIs
    <3>2. CanTune(w)
      BY <1>1, <1>2, <2>1, <2>2 DEF CanTune, Service
    <3>3. Serves(w) => Unasked(w) /\ (~w.choice.astray => w.kid.hz = w.b.desired)
      BY <1>1, <2>1 DEF Service, Underway, Tuned
    <3>. DEFINE h == [w.choice EXCEPT !.asked = s]
                x == [tuned EXCEPT !.owed = o, !.choice = h]
    <3>4. o = (IF callback THEN 1 ELSE 0) /\ o \in Int
      BY <2>2, <3>1
    <3>5. z = x
      <4>. DEFINE a == [tuned EXCEPT !.owed = o]
      <4>. HIDE DEF tuned, o, s
      <4>1. a.choice = w.choice
        BY <3>1 DEF States
      <4>2. z = [a EXCEPT !.choice.asked = s]
        BY <1>5, <1>7
      <4>3. z = [a EXCEPT !.choice = h]
        <5>. HIDE DEF a
        <5>. QED
          BY <4>1, <4>2
      <4>. QED
        BY <4>3
    <3>6. /\ h \in ChoiceHistory /\ h.granted = w.choice.granted /\ h.asked = s
          /\ h.waiting = w.choice.waiting /\ h.astray = w.choice.astray
      <4>. HIDE DEF s
      <4>. QED
        BY <1>4, <1>8, ZenonT(30) DEF ChoiceHistory
    <3>7. Become(z)
      <4>. HIDE DEF z
      <4>. QED
        BY <1>10, <2>1, <3>1
    <3>. HIDE DEF o, h, z
    <3>8. /\ x \in States /\ x.b = tuned.b /\ x.kid = tuned.kid /\ x.up = tuned.up
          /\ x.down = tuned.down /\ x.owed = o /\ x.choice = h
      <4>. HIDE DEF tuned
      <4>. QED
        BY <3>1, <3>4, <3>6 DEF States
    <3>9. h.waiting = None
      BY <1>1, <2>2, <3>6 DEF Holds
    <3>10. BInv(x)
      <4>. HIDE DEF s, x
      <4>. QED
        BY <1>4, <2>4, <3>2, <3>3, <3>4, <3>6, <3>8, <3>9, SendInv
    <3>11. Now' = x
      <4>. HIDE DEF x
      <4>. QED
        BY <3>5, <3>7, <3>8, BecomeIs
    <3>. QED
      BY <3>10, <3>11
  <2>. QED
    BY <2>3, <2>4
<1>. QED
  BY <1>6, <1>9, <1>10

----------------------------------------------------------------------------
(* What the process sends *)

\* What it sends when its state goes from k to l answers the request it has.
Answers(e, k, l) ==
  \/ k.request = 0 /\ NoResult(e)
  \/ /\ k.request # 0
     /\ \E j \in 1..Len(e) :
          /\ e[j].type = "RESULT" /\ e[j].request = k.request
          /\ e[j].success => l.hz = k.wanted
          /\ \A i \in 1..Len(e) : e[i].type = "RESULT" => i = j

\* A request that is pending stays in flight.
LEMMA AnswersInFlight ==
  ASSUME NEW X, NEW q \in Seq(X), NEW e \in Seq(X), NEW d, NEW k, NEW l, NEW id, NEW s,
         id # 0, l.request = 0, k.request = 0 /\ k.hz = s => l.hz = s,
         Answers(e, k, l), InFlightOnce(d, k, q, id, s)
  PROVE  InFlightOnce(d, l, q \o e, id, s)
<1>1. CASE k.request = 0 /\ NoResult(e)
  <2>1. k.request = id => l.wanted = k.wanted
    BY <1>1
  <2>. QED
    BY <1>1, <2>1, InFlightBehind
<1>2. CASE k.request # 0 /\ ~(k.request = 0 /\ NoResult(e))
  <2>1. PICK j \in 1..Len(e) :
          /\ e[j].type = "RESULT" /\ e[j].request = k.request
          /\ e[j].success => l.hz = k.wanted
          /\ \A i \in 1..Len(e) : e[i].type = "RESULT" => i = j
    BY <1>2 DEF Answers
  <2>2. CASE AtSocket(d, k, q, id, s)
    <3>1. k.request # id
      BY <2>2 DEF AtSocket
    <3>2. \A i \in 1..Len(e) : e[i].type = "RESULT" => e[i].request # id
      BY <2>1, <3>1
    <3>3. AtSocket(d, l, q \o e, id, s)
      BY <2>2, <3>2, OtherResult
    <3>. QED
      BY <3>3 DEF InFlightOnce
  <2>3. CASE AtDriver(d, k, q, id, s)
    <3>1. d = <<>> /\ k.request = id /\ k.wanted = s /\ Unanswered(q, id)
      BY <2>3 DEF AtDriver
    <3>2. Answered(<<>>, l, q \o e, id, s)
      BY <2>1, <3>1, NowAnswered
    <3>. QED
      BY <3>1, <3>2 DEF InFlightOnce
  <2>4. CASE Answered(d, k, q, id, s)
    BY <1>2, <2>4 DEF Answered
  <2>. QED
    BY <2>2, <2>3, <2>4 DEF InFlightOnce
<1>. QED
  BY <1>1, <1>2 DEF Answers

\* The receiver gets another tuning by a setting that it grants.
Retunes(e, k, l) ==
  k.hz \notin {None, l.hz} => k.request # 0 /\ Succeeded(e)

\* The state of the process changes, and e is sent.
LEMMA HostInv ==
  ASSUME NEW w, BInv(w), w.b.fd, NEW x \in States,
         x.b = w.b, x.owed = w.owed, x.choice = w.choice, x.down = w.down,
         w.kid.proc \in {"start", "up"}, x.kid.proc = "up", Waits(x.kid),
         x.kid.request = 0, NEW e \in Seq(UpRecord), x.up = w.up \o e,
         LastState(e, Tuning(x.kid)), Reports(e, x.kid.hz),
         Answers(e, w.kid, x.kid), Retunes(e, w.kid, x.kid)
  PROVE  BInv(x)
<1>. DEFINE q == w.up
            k == w.kid
            l == x.kid
<1>0. /\ w \in States /\ Phases(w) /\ Requests(w) /\ Kept(w) /\ Service(w)
      /\ q \in Seq(UpRecord)
  BY DEF BInv, States
<1>1. Phases(x)
  BY <1>0 DEF Phases
<1>2. Requests(x) /\ Kept(x)
  BY <1>0 DEF Requests, Owes, Kept, Holds
<1>3. Service(x)
  <2>. SUFFICES ASSUME Serves(x)
                PROVE  /\ ~x.b.idling /\ Reported(x.up, x.b.seen, Tuning(x.kid))
                       /\ Underway(x)
    BY DEF Service
  <2>1. Serves(w)
    BY DEF Serves
  <2>2. ~w.b.idling /\ Underway(w)
    BY <1>0, <2>1 DEF Service
  <2>3. Reported(q \o e, w.b.seen, Tuning(l))
    BY <1>0, StateBehind
  <2>4. ASSUME w.b.pending # 0
        PROVE  InFlightOnce(x.down, x.kid, x.up, w.b.pending, w.b.requested)
    <3>. DEFINE id == w.b.pending
                s == w.b.requested
                d == w.down
    <3>1. InFlightOnce(d, k, q, id, s) /\ id # 0
      BY <2>2, <2>4 DEF Underway
    <3>2. k.request = 0 /\ k.hz = s => l.hz = s
      <4>1. s # None
        BY <1>0, <2>4 DEF Requests
      <4>. QED
        BY <4>1 DEF Retunes
    <3>. HIDE DEF id, s, d
    <3>3. InFlightOnce(d, l, q \o e, id, s)
      BY <1>0, <3>1, <3>2, AnswersInFlight
    <3>. QED
      BY <3>3 DEF id, s, d
  <2>5. ASSUME Unasked(w)
        PROVE  Unasked(x) /\ (k.hz # None => l.hz = k.hz)
    <3>1. k.request = 0 /\ NoResult(q)
      BY <2>5 DEF Unasked
    <3>2. NoResult(e)
      BY <3>1 DEF Answers
    <3>3. NoResult(q \o e)
      BY <1>0, <3>1, <3>2, ConcatKeeps
    <3>. QED
      BY <2>5, <3>1, <3>3 DEF Unasked, Retunes
  <2>6. w.b.pending = 0 /\ (w.b.online \/ w.b.desired = None) => Unasked(w)
    BY <2>2 DEF Underway
  <2>7. ASSUME w.b.desired = None PROVE Reports(x.up, l.hz)
    <3>1. Unasked(w) /\ Reports(q, k.hz)
      BY <1>0, <2>2, <2>6, <2>7 DEF Underway, Requests
    <3>2. Reports(q, l.hz)
      BY <2>5, <3>1 DEF Reports
    <3>. QED
      BY <1>0, <3>2, ConcatKeeps
  <2>8. ASSUME w.b.online, ~w.choice.astray PROVE Tuned(x)
    <3>1. w.b.desired # None /\ Tuned(w)
      BY <1>0, <2>2, <2>8 DEF Underway, Requests
    <3>2. CASE w.b.pending = 0
      BY <2>5, <2>6, <2>8, <3>1, <3>2 DEF Tuned
    <3>3. CASE w.b.pending # 0
      <4>. SUFFICES ASSUME Alone(w) PROVE Alone(x)
        BY <3>1, <3>3 DEF Tuned
      <4>1. Succeeded(q) \/ Succeeded(e) => Succeeded(x.up)
        BY <1>0, ConcatKeeps
      <4>2. l.hz = w.b.desired \/ Succeeded(x.up)
        BY <3>1, <4>1 DEF Alone, Retunes
      <4>. QED
        BY <4>2 DEF Alone
    <3>. QED
      BY <3>2, <3>3
  <2>9. Underway(x)
    BY <2>4, <2>5, <2>6, <2>7, <2>8 DEF Underway
  <2>. QED
    BY <2>2, <2>3, <2>9
<1>. QED
  BY <1>1, <1>2, <1>3 DEF BInv

\* A process that does not serve any more.
LEMMA GoneHostInv ==
  ASSUME NEW w, BInv(w), NEW x \in States,
         x.b = w.b, x.owed = w.owed, x.choice = w.choice,
         w.kid.proc \in {"start", "up", "doomed"}, x.kid.proc \in {"stuck", "zombie"},
         x.kid.proc = "stuck" => w.kid.proc \in {"start", "up"},
         Waits(x.kid), x.up = w.up, x.down \in {<<>>, w.down}
  PROVE  BInv(x)
<1>1. Phases(x)
  BY DEF BInv, Phases
<1>2. Requests(x) /\ Kept(x)
  BY DEF BInv, Requests, Owes, Kept, Holds
<1>3. Service(x)
  BY DEF Service, Serves
<1>. QED
  BY <1>1, <1>2, <1>3 DEF BInv

----------------------------------------------------------------------------
(* The steps of the process *)

\* A step of the process leaves the supervisor alone.
LEMMA HostIs ==
  ASSUME BInv(Now), NEW k \in Process, NEW out \in Seq(UpRecord), NEW in \in Seq(DownRecord),
         Host(k, out, in)
  PROVE  /\ Now' \in States
         /\ Now'.b = Now.b /\ Now'.owed = Now.owed /\ Now'.choice = Now.choice
         /\ Now'.kid = k /\ Now'.up = out /\ Now'.down = in
BY DEF BInv, States, Now, Host

\* The state of the process and the socket.
LEMMA NowIs ==
  ASSUME BInv(Now)
  PROVE  /\ Now.b = b /\ Now.kid = kid /\ Now.up = up /\ Now.down = down
         /\ Now.owed = owed /\ Now.choice = choice
         /\ b \in Bridge /\ kid \in Process /\ up \in Seq(UpRecord) /\ down \in Seq(DownRecord)
         /\ owed \in Int /\ choice \in ChoiceHistory
         /\ Phases(Now) /\ Waits(kid)
BY DEF BInv, States, Now

\* The records of the process.
LEMMA RecordsAre ==
  /\ [type |-> "HELLO"] \in UpRecord /\ [type |-> "CAPABILITIES"] \in UpRecord
  /\ [type |-> "LOG"] \in UpRecord
  /\ State(None) \in UpRecord /\ State(None).type = "STATE" /\ State(None).setting = None
  /\ \A s \in Setting : State(s) \in UpRecord /\ State(s).type = "STATE" /\ State(s).setting = s
  /\ \A id \in Id : \A ok \in BOOLEAN :
       /\ Result(id, ok) \in UpRecord /\ Result(id, ok).type = "RESULT"
       /\ Result(id, ok).request = id /\ Result(id, ok).success = ok
<1>1. State(None) = [type |-> "STATE", available |-> FALSE, setting |-> None]
  BY DEF State
<1>2. \A s \in Setting : State(s) = [type |-> "STATE", available |-> TRUE, setting |-> s]
  BY BridgeAssumption DEF State
<1>3. \A id, ok : Result(id, ok) = [type |-> "RESULT", request |-> id, success |-> ok]
  BY DEF Result
<1>4. /\ [type |-> "HELLO"] \in UpRecord /\ [type |-> "CAPABILITIES"] \in UpRecord
      /\ [type |-> "LOG"] \in UpRecord
  BY DEF UpRecord
<1>5. State(None) \in UpRecord
  BY <1>1 DEF UpRecord
<1>6. ASSUME NEW s \in Setting PROVE State(s) \in UpRecord
  <2>1. State(s) = [type |-> "STATE", available |-> TRUE, setting |-> s]
    BY <1>2
  <2>. QED
    BY <2>1 DEF UpRecord
<1>7. \A id \in Id : \A ok \in BOOLEAN : Result(id, ok) \in UpRecord
  BY <1>3 DEF UpRecord
<1>. QED
  BY <1>1, <1>2, <1>3, <1>4, <1>5, <1>6, <1>7

\* The handshake.
LEMMA StartInv ==
  ASSUME BInv(Now), Start
  PROVE  BInv(Now')
<1>. DEFINE h == [type |-> "HELLO"]
            a == [type |-> "CAPABILITIES"]
            n == State(None)
            e == <<h, a, n>>
            k == [kid EXCEPT !.proc = "up"]
            x == Now'
<1>1. /\ h \in UpRecord /\ a \in UpRecord /\ n \in UpRecord
      /\ h.type = "HELLO" /\ a.type = "CAPABILITIES" /\ n.type = "STATE" /\ n.setting = None
  BY RecordsAre
<1>2. kid.proc = "start" /\ Host(k, up \o e, down)
  BY DEF Start
<1>3. /\ Now.b = b /\ Now.kid = kid /\ Now.up = up /\ Now.down = down
      /\ kid \in Process /\ up \in Seq(UpRecord) /\ down \in Seq(DownRecord)
      /\ Phases(Now) /\ Waits(kid)
  BY NowIs
<1>. HIDE DEF h, a, n
<1>4. e \in Seq(UpRecord) /\ up \o e \in Seq(UpRecord)
  BY <1>1, <1>3
<1>5. /\ k \in Process /\ k.proc = "up" /\ k.link = "down" /\ k.request = 0
      /\ k.hz = kid.hz /\ k.wanted = kid.wanted /\ kid.request = 0
  BY <1>2, <1>3 DEF Process, Waits
<1>. HIDE DEF k
<1>6. /\ x \in States /\ x.b = Now.b /\ x.owed = Now.owed /\ x.choice = Now.choice
      /\ x.kid = k /\ x.up = up \o e /\ x.down = down
  BY <1>2, <1>3, <1>4, <1>5, HostIs
<1>7. Waits(k)
  BY <1>2, <1>3, <1>5 DEF Waits
<1>8. Tuning(k) = None
  BY <1>5 DEF Tuning
<1>9. Len(e) = 3 /\ e[1] = h /\ e[2] = a /\ e[3] = n
  OBVIOUS
<1>10. \A i \in 1..3 : i = 1 \/ i = 2 \/ i = 3
  OBVIOUS
<1>. HIDE DEF e
<1>11. LastState(e, None)
  BY <1>1, <1>9 DEF LastState
<1>12. NoResult(e)
  BY <1>1, <1>9, <1>10 DEF NoResult
<1>13. Answers(e, kid, k) /\ Retunes(e, kid, k)
  BY <1>5, <1>12 DEF Answers, Retunes
<1>16. Reports(e, k.hz)
  BY <1>1, <1>9, <1>10 DEF Reports
<1>14. Now.b.fd
  BY <1>2, <1>3 DEF Phases
<1>. HIDE DEF x
<1>15. BInv(x)
  BY <1>2, <1>3, <1>4, <1>5, <1>6, <1>7, <1>8, <1>11, <1>13, <1>14, <1>16, HostInv
<1>. QED
  BY <1>15 DEF x

\* A crash, a stall, or an end that was asked for.
LEMMA EndsInv ==
  ASSUME BInv(Now), NEW proc \in {"stuck", "zombie"},
         kid.proc \in {"start", "up", "doomed"}, proc = "stuck" => kid.proc \in {"start", "up"},
         NEW in \in {<<>>, down}, Host(Husk(proc), up, in)
  PROVE  BInv(Now')
<1>. DEFINE k == Husk(proc)
            x == Now'
<1>1. /\ Now.kid = kid /\ Now.up = up /\ Now.down = down
      /\ up \in Seq(UpRecord) /\ down \in Seq(DownRecord)
  BY NowIs
<1>2. k \in Process /\ k.proc = proc /\ k.request = 0 /\ k.hz = None
  BY BridgeAssumption DEF Husk, Fresh, Process
<1>3. in \in Seq(DownRecord)
  <2>1. <<>> \in Seq(DownRecord)
    OBVIOUS
  <2>. QED
    BY <1>1, <2>1
<1>. HIDE DEF k
<1>4. Host(k, up, in)
  BY DEF k
<1>5. /\ x \in States /\ x.b = Now.b /\ x.owed = Now.owed /\ x.choice = Now.choice
      /\ x.kid = k /\ x.up = up /\ x.down = in
  BY <1>1, <1>2, <1>3, <1>4, HostIs
<1>6. Waits(k)
  BY <1>2 DEF Waits
<1>. HIDE DEF x
<1>7. BInv(x)
  BY <1>1, <1>2, <1>5, <1>6, GoneHostInv
<1>. QED
  BY <1>7 DEF x

\* The next connection attempt.
LEMMA ConnectInv ==
  ASSUME BInv(Now), Connect
  PROVE  BInv(Now')
<1>. DEFINE a == kid.attempts + 1
            k == [kid EXCEPT !.link = "connecting", !.attempts = a]
            x == Now'
<1>1. /\ kid.proc = "up" /\ kid.link = "down" /\ kid.attempts < MaxAttempts
      /\ Host(k, up, down)
  BY DEF Connect
<1>2. /\ Now.b = b /\ Now.kid = kid /\ Now.up = up /\ Now.down = down
      /\ kid \in Process /\ up \in Seq(UpRecord) /\ down \in Seq(DownRecord)
      /\ Waits(kid)
  BY NowIs
<1>3. a \in 0..MaxAttempts
  BY <1>1, <1>2, BridgeAssumption DEF Process
<1>. HIDE DEF a
<1>4. /\ k \in Process /\ k.proc = "up" /\ k.link = "connecting" /\ k.request = kid.request
      /\ k.hz = kid.hz /\ k.wanted = kid.wanted
  BY <1>1, <1>2, <1>3 DEF Process
<1>. HIDE DEF k
<1>5. /\ x \in States /\ x.b = Now.b /\ x.owed = Now.owed /\ x.choice = Now.choice
      /\ x.kid = k /\ x.up = up /\ x.down = down
  BY <1>1, <1>2, <1>4, HostIs
<1>. HIDE DEF x
<1>6. Waits(k) /\ Tuning(k) = None /\ Tuning(kid) = None
  BY <1>1, <1>2, <1>4 DEF Waits, Tuning
<1>7. Phases(x)
  BY <1>1, <1>2, <1>4, <1>5 DEF BInv, Phases
<1>8. Requests(x) /\ Kept(x)
  BY <1>5 DEF BInv, Requests, Owes, Kept, Holds
<1>9. Serves(x) => Serves(Now)
  BY <1>1, <1>2, <1>5 DEF Serves
<1>10. Underway(Now) => Underway(x)
  BY <1>2, <1>4, <1>5 DEF Underway, Unasked, Tuned, Alone, InFlightOnce, AtSocket, AtDriver, Answered
<1>11. Service(x)
  BY <1>2, <1>5, <1>6, <1>9, <1>10 DEF BInv, Service
<1>. QED
  BY <1>5, <1>6, <1>7, <1>8, <1>11 DEF BInv, x

\* The receiver confirms the setting.
LEMMA NewFreqInv ==
  ASSUME BInv(Now), NewFreq
  PROVE  BInv(Now')
<1>. DEFINE s == State(kid.wanted)
            r == Result(kid.request, TRUE)
            e == IF kid.request # 0 THEN <<s, r>> ELSE <<s>>
            k == [kid EXCEPT !.link = "online", !.hz = kid.wanted, !.request = 0]
            x == Now'
<1>1. /\ kid.proc = "up"
      /\ kid.link = "connecting" \/ (kid.link = "online" /\ kid.request # 0)
      /\ Host(k, Append(up, s) \o (IF kid.request # 0 THEN <<r>> ELSE <<>>), down)
  BY DEF NewFreq
<1>2. /\ Now.b = b /\ Now.kid = kid /\ Now.up = up /\ Now.down = down
      /\ kid \in Process /\ up \in Seq(UpRecord) /\ down \in Seq(DownRecord)
      /\ Phases(Now) /\ Waits(kid)
  BY NowIs
<1>3. kid.wanted \in Setting /\ kid.request \in Id \cup {0}
  BY <1>2 DEF Process
<1>4. s \in UpRecord /\ s.type = "STATE" /\ s.setting = kid.wanted
  BY <1>3, RecordsAre
<1>5. kid.request # 0 =>
        r \in UpRecord /\ r.type = "RESULT" /\ r.request = kid.request /\ r.success = TRUE
  BY <1>3, RecordsAre
<1>6. /\ k \in Process /\ k.proc = "up" /\ k.link = "online" /\ k.request = 0
      /\ k.hz = kid.wanted /\ k.wanted = kid.wanted
  BY <1>1, <1>2, <1>3 DEF Process
<1>. HIDE DEF s, r, k
<1>7. /\ e \in Seq(UpRecord)
      /\ Append(up, s) \o (IF kid.request # 0 THEN <<r>> ELSE <<>>) = up \o e
  <2>1. Append(up, s) = up \o <<s>> /\ <<s>> \in Seq(UpRecord)
    BY <1>2, <1>4, AppendIsConcat
  <2>2. CASE kid.request # 0
    <3>3. s \in UpRecord /\ r \in UpRecord
      BY <1>4, <1>5, <2>2
    <3>4. <<r>> \in Seq(UpRecord) /\ <<s, r>> \in Seq(UpRecord)
      BY <3>3
    <3>5. <<s>> \o <<r>> = <<s, r>>
      BY <3>3, PairIs
    <3>1. <<r>> \in Seq(UpRecord) /\ <<s>> \o <<r>> = <<s, r>> /\ <<s, r>> \in Seq(UpRecord)
      BY <3>4, <3>5
    <3>2. (up \o <<s>>) \o <<r>> = up \o (<<s>> \o <<r>>)
      BY <1>2, <2>1, <3>1, ConcatAssociative
    <3>. QED
      BY <2>1, <2>2, <3>1, <3>2
  <2>3. CASE kid.request = 0
    <3>1. up \o <<s>> \in Seq(UpRecord)
      BY <1>2, <2>1
    <3>2. (up \o <<s>>) \o <<>> = up \o <<s>>
      BY <3>1, ConcatEmptySeq
    <3>. QED
      BY <2>1, <2>3, <3>2
  <2>. QED
    BY <2>2, <2>3
<1>8. /\ LastState(e, kid.wanted) /\ Answers(e, kid, k) /\ Reports(e, kid.wanted)
      /\ kid.request # 0 => Succeeded(e)
  <2>1. CASE kid.request # 0
    <3>. DEFINE p == <<s, r>>
    <3>1. e = p /\ Len(p) = 2 /\ p[1] = s /\ p[2] = r /\ \A i \in 1..2 : i = 1 \/ i = 2
      BY <2>1
    <3>. HIDE DEF e, p
    <3>2. LastState(p, kid.wanted)
      BY <1>4, <1>5, <2>1, <3>1 DEF LastState
    <3>3. Answers(p, kid, k)
      <4>1. 2 \in 1..Len(p)
        BY <3>1
      <4>2. \A i \in 1..Len(p) : p[i].type = "RESULT" => i = 2
        BY <1>4, <3>1
      <4>. QED
        BY <1>5, <1>6, <2>1, <3>1, <4>1, <4>2 DEF Answers
    <3>4. Reports(p, kid.wanted) /\ Succeeded(p)
      <4>1. 2 \in 1..Len(p)
        BY <3>1
      <4>. QED
        BY <1>4, <1>5, <2>1, <3>1, <4>1 DEF Reports, Succeeded
    <3>. QED
      BY <3>1, <3>2, <3>3, <3>4
  <2>2. CASE kid.request = 0
    <3>. DEFINE p == <<s>>
    <3>1. e = p /\ Len(p) = 1 /\ p[1] = s /\ \A i \in 1..1 : i = 1
      BY <2>2
    <3>. HIDE DEF e, p
    <3>2. LastState(p, kid.wanted)
      BY <1>4, <3>1 DEF LastState
    <3>3. NoResult(p)
      BY <1>4, <3>1 DEF NoResult
    <3>4. Reports(p, kid.wanted)
      BY <1>4, <3>1 DEF Reports
    <3>. QED
      BY <2>2, <3>1, <3>2, <3>3, <3>4 DEF Answers
  <2>. QED
    BY <1>3, <2>1, <2>2
<1>. HIDE DEF e
<1>9. up \o e \in Seq(UpRecord)
  BY <1>2, <1>7
<1>10. /\ x \in States /\ x.b = Now.b /\ x.owed = Now.owed /\ x.choice = Now.choice
       /\ x.kid = k /\ x.up = up \o e /\ x.down = down
  BY <1>1, <1>2, <1>6, <1>7, <1>9, HostIs
<1>. HIDE DEF x
<1>11. Waits(k) /\ Tuning(k) = kid.wanted
  BY <1>6 DEF Waits, Tuning
<1>12. Retunes(e, kid, k)
  BY <1>2, <1>6, <1>8 DEF Waits, Retunes
<1>13. Now.b.fd
  BY <1>1, <1>2 DEF Phases
<1>14. BInv(x)
  BY <1>1, <1>2, <1>6, <1>7, <1>8, <1>10, <1>11, <1>12, <1>13, HostInv
<1>. QED
  BY <1>14 DEF x

\* What is sent when the receiver is lost, t being sent behind it.
LEMMA UnavailableIs ==
  ASSUME NEW k \in Process, NEW l, l.link # "online",
         NEW t, t = <<>> \/ t = <<[type |-> "LOG"]>>
  PROVE  LET e == Unavailable(k) \o t
         IN  /\ Unavailable(k) \in Seq(UpRecord) /\ e \in Seq(UpRecord)
             /\ LastState(e, Tuning(l)) /\ Answers(e, k, l) /\ Reports(e, l.hz)
<1>. DEFINE s == State(None)
            r == Result(k.request, FALSE)
            g == [type |-> "LOG"]
            e == Unavailable(k) \o t
<1>1. k.request \in Id \cup {0}
  BY DEF Process
<1>2. s \in UpRecord /\ s.type = "STATE" /\ s.setting = None /\ g \in UpRecord /\ g.type = "LOG"
  BY RecordsAre
<1>3. k.request # 0 =>
        r \in UpRecord /\ r.type = "RESULT" /\ r.request = k.request /\ r.success = FALSE
  BY <1>1, RecordsAre
<1>4. Unavailable(k) = (IF k.request # 0 THEN <<r>> ELSE <<>>) \o <<s>>
  BY DEF Unavailable
<1>5. t = <<>> \/ t = <<g>>
  OBVIOUS
<1>6. Tuning(l) = None
  BY DEF Tuning
<1>. HIDE DEF s, r, g
<1>7. CASE k.request # 0
  <2>0. r \in UpRecord /\ r.type = "RESULT" /\ r.request = k.request /\ r.success = FALSE
    BY <1>3, <1>7
  <2>1. <<r>> \o <<s>> = <<r, s>>
    BY <1>2, <2>0, PairIs
  <2>2. Unavailable(k) = <<r, s>>
    BY <1>4, <1>7, <2>1
  <2>3. <<r, s>> \in Seq(UpRecord) /\ <<r, s, g>> \in Seq(UpRecord)
    BY <1>2, <2>0
  <2>4. <<r, s>> \o <<g>> = <<r, s, g>> /\ <<r, s>> \o <<>> = <<r, s>>
    BY <1>2, <2>0, <2>3, TripleIs, ConcatEmptySeq
  <2>5. e = <<r, s>> \/ e = <<r, s, g>>
    BY <1>5, <2>2, <2>4
  <2>. HIDE DEF e
  <2>6. e \in Seq(UpRecord)
    BY <2>3, <2>5
  <2>7. /\ Len(e) \in {2, 3} /\ 1 \in 1..Len(e) /\ 2 \in 1..Len(e) /\ e[1] = r /\ e[2] = s
        /\ \A i \in 1..Len(e) : i = 1 \/ i = 2 \/ (i = 3 /\ e[i] = g)
    <3>1. CASE e = <<r, s>>
      <4>. DEFINE p == <<r, s>>
      <4>1. Len(p) = 2 /\ p[1] = r /\ p[2] = s /\ \A i \in 1..2 : i = 1 \/ i = 2
        OBVIOUS
      <4>2. Len(e) = 2 /\ e[1] = r /\ e[2] = s
        BY <3>1, <4>1
      <4>. QED
        BY <4>1, <4>2
    <3>2. CASE e = <<r, s, g>>
      <4>. DEFINE p == <<r, s, g>>
      <4>1. Len(p) = 3 /\ p[1] = r /\ p[2] = s /\ p[3] = g
            /\ \A i \in 1..3 : i = 1 \/ i = 2 \/ i = 3
        OBVIOUS
      <4>2. Len(e) = 3 /\ e[1] = r /\ e[2] = s /\ e[3] = g
        BY <3>2, <4>1
      <4>. QED
        BY <4>1, <4>2
    <3>. QED
      BY <2>5, <3>1, <3>2
  <2>8. LastState(e, None)
    <3>1. \A i \in 1..Len(e) : e[i].type = "STATE" => i <= 2
      BY <1>2, <2>0, <2>7
    <3>. QED
      BY <1>2, <2>7, <3>1 DEF LastState
  <2>9. Answers(e, k, l)
    <3>1. \A i \in 1..Len(e) : e[i].type = "RESULT" => i = 1
      BY <1>2, <2>7
    <3>. QED
      BY <1>7, <2>0, <2>7, <3>1 DEF Answers
  <2>10. Reports(e, l.hz)
    BY <1>2, <2>0, <2>7 DEF Reports
  <2>. QED
    BY <1>6, <2>2, <2>3, <2>6, <2>8, <2>9, <2>10 DEF e
<1>8. CASE k.request = 0
  <2>1. <<>> \o <<s>> = <<s>>
    OBVIOUS
  <2>2. Unavailable(k) = <<s>>
    BY <1>4, <1>8, <2>1
  <2>3. <<s>> \in Seq(UpRecord) /\ <<s, g>> \in Seq(UpRecord)
    BY <1>2
  <2>4. <<s>> \o <<g>> = <<s, g>> /\ <<s>> \o <<>> = <<s>>
    BY <1>2, <2>3, PairIs, ConcatEmptySeq
  <2>5. e = <<s>> \/ e = <<s, g>>
    BY <1>5, <2>2, <2>4
  <2>. HIDE DEF e
  <2>6. e \in Seq(UpRecord)
    BY <2>3, <2>5
  <2>7. /\ 1 \in 1..Len(e) /\ e[1] = s
        /\ \A i \in 1..Len(e) : i = 1 \/ e[i] = g
    <3>1. CASE e = <<s>>
      <4>. DEFINE p == <<s>>
      <4>1. Len(p) = 1 /\ p[1] = s /\ \A i \in 1..1 : i = 1
        OBVIOUS
      <4>2. Len(e) = 1 /\ e[1] = s
        BY <3>1, <4>1
      <4>. QED
        BY <4>1, <4>2
    <3>2. CASE e = <<s, g>>
      <4>. DEFINE p == <<s, g>>
      <4>1. Len(p) = 2 /\ p[1] = s /\ p[2] = g /\ \A i \in 1..2 : i = 1 \/ i = 2
        OBVIOUS
      <4>2. Len(e) = 2 /\ e[1] = s /\ e[2] = g
        BY <3>2, <4>1
      <4>. QED
        BY <4>1, <4>2
    <3>. QED
      BY <2>5, <3>1, <3>2
  <2>8. LastState(e, None)
    <3>1. \A i \in 1..Len(e) : e[i].type = "STATE" => i <= 1
      BY <1>2, <2>7
    <3>. QED
      BY <1>2, <2>7, <3>1 DEF LastState
  <2>9. NoResult(e)
    BY <1>2, <2>7 DEF NoResult
  <2>10. Reports(e, l.hz)
    BY <1>2, <2>7 DEF Reports
  <2>. QED
    BY <1>6, <1>8, <2>2, <2>3, <2>6, <2>8, <2>9, <2>10 DEF e, Answers
<1>. QED
  BY <1>1, <1>7, <1>8

\* The receiver is lost.
LEMMA LostInv ==
  ASSUME BInv(Now), kid.proc = "up", NEW link \in {"closing", "stopped", "down"},
         NEW t, t = <<>> \/ t = <<[type |-> "LOG"]>>,
         Host(Dropped(kid, link), up \o Unavailable(kid) \o t, down)
  PROVE  BInv(Now')
<1>. DEFINE v == IF kid.hz # None THEN kid.hz ELSE kid.wanted
            k == [kid EXCEPT !.link = link, !.request = 0, !.wanted = v]
            u == Unavailable(kid)
            e == u \o t
            x == Now'
<1>1. /\ Now.b = b /\ Now.kid = kid /\ Now.up = up /\ Now.down = down
      /\ kid \in Process /\ up \in Seq(UpRecord) /\ down \in Seq(DownRecord)
      /\ Phases(Now) /\ Waits(kid)
  BY NowIs
<1>2. v \in Setting /\ (kid.hz # None => v = kid.hz)
  BY <1>1 DEF Process
<1>3. Dropped(kid, link) = k
  BY DEF Dropped
<1>. HIDE DEF v
<1>4. /\ k \in Process /\ k.proc = "up" /\ k.link = link /\ k.request = 0
      /\ k.hz = kid.hz /\ k.wanted = v
  BY <1>1, <1>2 DEF Process
<1>. HIDE DEF k
<1>5. /\ u \in Seq(UpRecord) /\ e \in Seq(UpRecord)
      /\ LastState(e, Tuning(k)) /\ Answers(e, kid, k) /\ Reports(e, k.hz)
  BY <1>1, <1>4, UnavailableIs
<1>6. t \in Seq(UpRecord)
  <2>1. <<>> \in Seq(UpRecord)
    OBVIOUS
  <2>2. [type |-> "LOG"] \in UpRecord
    BY RecordsAre
  <2>. DEFINE g == [type |-> "LOG"]
  <2>3. <<g>> \in Seq(UpRecord)
    <3>. HIDE DEF g
    <3>. QED
      BY <2>2 DEF g
  <2>. QED
    BY <2>1, <2>3
<1>. HIDE DEF u
<1>7. (up \o u) \o t = up \o e
  BY <1>1, <1>5, <1>6, ConcatAssociative
<1>8. Host(k, up \o e, down)
  BY <1>3, <1>7 DEF u
<1>. HIDE DEF e
<1>9. up \o e \in Seq(UpRecord)
  BY <1>1, <1>5
<1>10. /\ x \in States /\ x.b = Now.b /\ x.owed = Now.owed /\ x.choice = Now.choice
       /\ x.kid = k /\ x.up = up \o e /\ x.down = down
  BY <1>1, <1>4, <1>8, <1>9, HostIs
<1>. HIDE DEF x
<1>11. Waits(k)
  BY <1>2, <1>4 DEF Waits
<1>12. Now.b.fd /\ Retunes(e, kid, k)
  BY <1>1, <1>4 DEF Phases, Retunes
<1>13. BInv(x)
  BY <1>1, <1>4, <1>5, <1>10, <1>11, <1>12, HostInv
<1>. QED
  BY <1>13 DEF x

\* The first of several records is read by the driver.
LEMMA TailSocket ==
  ASSUME NEW X, NEW d \in Seq(X), d # <<>>, NEW k, NEW l, NEW q, NEW id, NEW s,
         AtSocket(d, k, q, id, s)
  PROVE  \/ Tail(d) = <<>> /\ Head(d).request = id /\ Head(d).setting = s
         \/ /\ Head(d).request # id
            /\ l.request # id => AtSocket(Tail(d), l, q, id, s)
<1>. DEFINE T == Tail(d)
<1>1. /\ Head(d) = d[1] /\ Len(d) \in Nat /\ Len(d) # 0 /\ T \in Seq(X) /\ Len(T) = Len(d) - 1
      /\ \A i \in 1..Len(T) : i + 1 \in 1..Len(d) /\ T[i] = d[i + 1]
  BY TailIs
<1>2. Len(T) \in Nat /\ (Len(T) = 0 => T = <<>>)
  BY <1>1, EmptySeq
<1>. HIDE DEF T
<1>3. /\ d[Len(d)].type = "SET" /\ d[Len(d)].request = id /\ d[Len(d)].setting = s
      /\ \A i \in 1..Len(d) : i < Len(d) => d[i].request # id
      /\ Unanswered(q, id)
  BY DEF AtSocket
<1>4. CASE Len(d) = 1
  BY <1>1, <1>2, <1>3, <1>4 DEF T
<1>5. CASE Len(d) # 1
  <2>1. 1 \in 1..Len(d) /\ 1 < Len(d) /\ Len(T) # 0 /\ Len(T) \in 1..Len(T)
        /\ Len(T) + 1 = Len(d)
    BY <1>1, <1>2, <1>5
  <2>2. Head(d).request # id
    BY <1>1, <1>3, <2>1
  <2>3. T[Len(T)] = d[Len(d)]
    BY <1>1, <2>1
  <2>4. ASSUME NEW i \in 1..Len(T), i < Len(T) PROVE T[i].request # id
    <3>1. i + 1 \in 1..Len(d) /\ i + 1 < Len(d) /\ T[i] = d[i + 1]
      BY <1>1, <2>1, <2>4
    <3>. QED
      BY <1>3, <3>1
  <2>5. l.request # id => AtSocket(T, l, q, id, s)
    BY <1>3, <2>1, <2>3, <2>4 DEF AtSocket
  <2>. QED
    BY <2>2, <2>5 DEF T
<1>. QED
  BY <1>4, <1>5

\* The process reads a setting; x is the state after it.
LEMMA CommandInv ==
  ASSUME NEW w, BInv(w), w.kid.proc = "up", w.down # <<>>, Head(w.down).type = "SET",
         w.kid.request = 0,
         NEW x \in States, x.b = w.b, x.owed = w.owed, x.choice = w.choice,
         x.down = Tail(w.down), x.kid.proc = "up", Waits(x.kid),
         x.kid.hz = w.kid.hz, x.kid.request \in {0, Head(w.down).request},
         Succeeded(w.up) => Succeeded(x.up),
         Serves(w) => /\ Reported(x.up, w.b.seen, Tuning(x.kid))
                      /\ w.b.pending # 0 =>
                           InFlightOnce(x.down, x.kid, x.up, w.b.pending, w.b.requested)
  PROVE  BInv(x)
<1>. DEFINE d == w.down
<1>0. /\ w \in States /\ Phases(w) /\ Requests(w) /\ Kept(w) /\ Service(w)
      /\ d \in Seq(DownRecord)
  BY DEF BInv, States
<1>1. Phases(x)
  BY <1>0 DEF Phases
<1>2. Requests(x) /\ Kept(x)
  BY <1>0 DEF Requests, Owes, Kept, Holds
<1>3. Serves(x) => Serves(w)
  <2>1. /\ Head(d) = d[1]
        /\ \A i \in 1..Len(d) : i # 1 => i - 1 \in 1..Len(Tail(d)) /\ d[i] = Tail(d)[i - 1]
    BY <1>0, TailIs
  <2>. SUFFICES ASSUME \A i \in 1..Len(Tail(d)) : Tail(d)[i].type # "SHUTDOWN",
                       NEW i \in 1..Len(d)
                PROVE  d[i].type # "SHUTDOWN"
    BY DEF Serves
  <2>2. CASE i = 1
    BY <2>1, <2>2
  <2>3. CASE i # 1
    BY <2>1, <2>3
  <2>. QED
    BY <2>2, <2>3
<1>4. Service(x)
  <2>. SUFFICES ASSUME Serves(x)
                PROVE  /\ ~x.b.idling /\ Reported(x.up, x.b.seen, Tuning(x.kid))
                       /\ Underway(x)
    BY DEF Service
  <2>1. Serves(w)
    BY <1>3
  <2>2. ~w.b.idling /\ Underway(w)
    BY <1>0, <2>1 DEF Service
  <2>3. ~Unasked(w)
    BY DEF Unasked
  <2>4. ASSUME Alone(w) PROVE Alone(x)
    <3>1. /\ Head(d) = d[1] /\ 1 \in 1..Len(d)
          /\ \A i \in 1..Len(Tail(d)) : i + 1 \in 1..Len(d) /\ Tail(d)[i] = d[i + 1]
      BY <1>0, TailIs
    <3>2. /\ \A i \in 1..Len(d) : d[i].request = w.b.pending
          /\ w.kid.hz = w.b.desired \/ Succeeded(w.up)
      BY <2>4 DEF Alone
    <3>3. \A i \in 1..Len(x.down) : x.down[i].request = w.b.pending
      BY <3>1, <3>2
    <3>4. x.kid.request \in {0, w.b.pending}
      BY <3>1, <3>2
    <3>. QED
      BY <3>2, <3>3, <3>4 DEF Alone
  <2>5. Underway(x)
    BY <1>0, <2>1, <2>2, <2>3, <2>4 DEF Underway, Tuned, Requests
  <2>. QED
    BY <2>1, <2>2, <2>5
<1>. QED
  BY <1>1, <1>2, <1>4 DEF BInv

\* A setting that is answered at once.
LEMMA AnswerInv ==
  ASSUME BInv(Now), kid.proc = "up", down # <<>>, Head(down).type = "SET", kid.request = 0,
         NEW ok \in BOOLEAN, ok => Head(down).setting = kid.hz,
         Host(kid, Append(up, Result(Head(down).request, ok)), Tail(down))
  PROVE  BInv(Now')
<1>. DEFINE m == Head(down)
            r == Result(m.request, ok)
            e == <<r>>
            x == Now'
            w == Now
<1>1. /\ w.b = b /\ w.kid = kid /\ w.up = up /\ w.down = down
      /\ kid \in Process /\ up \in Seq(UpRecord) /\ down \in Seq(DownRecord)
      /\ Phases(w) /\ Waits(kid)
  BY NowIs
<1>2. m \in DownRecord /\ Tail(down) \in Seq(DownRecord)
  BY <1>1
<1>3. m.type = "SET" /\ m.request \in Id /\ (ok => m.setting = kid.hz)
  BY <1>2 DEF DownRecord
<1>. HIDE DEF m
<1>4. r \in UpRecord /\ r.type = "RESULT" /\ r.request = m.request /\ r.success = ok
  BY <1>3, RecordsAre
<1>5. Host(kid, Append(up, r), Tail(down))
  BY DEF m
<1>. HIDE DEF r
<1>6. e \in Seq(UpRecord) /\ Append(up, r) = up \o e /\ up \o e \in Seq(UpRecord)
  BY <1>1, <1>4, AppendIsConcat
<1>7. Len(e) = 1 /\ e[1] = r /\ 1 \in 1..Len(e) /\ \A i \in 1..Len(e) : i = 1
  OBVIOUS
<1>. HIDE DEF e
<1>8. /\ x \in States /\ x.b = w.b /\ x.owed = w.owed /\ x.choice = w.choice
      /\ x.kid = kid /\ x.up = up \o e /\ x.down = Tail(down)
  BY <1>1, <1>2, <1>5, <1>6, HostIs, ZenonT(30)
<1>. HIDE DEF x
<1>9. ASSUME Serves(w)
      PROVE  /\ Reported(x.up, w.b.seen, Tuning(x.kid))
             /\ w.b.pending # 0 =>
                  InFlightOnce(x.down, x.kid, x.up, w.b.pending, w.b.requested)
  <2>1. Reported(up, w.b.seen, Tuning(kid)) /\ Underway(w)
    BY <1>1, <1>9 DEF BInv, Service
  <2>2. NoState(e)
    BY <1>4, <1>7 DEF NoState
  <2>3. Reported(up \o e, w.b.seen, Tuning(kid))
    BY <1>1, <1>6, <2>1, <2>2, ReportedBehind
  <2>4. ASSUME w.b.pending # 0
        PROVE  InFlightOnce(Tail(down), kid, up \o e, w.b.pending, w.b.requested)
    <3>. DEFINE id == w.b.pending
                s == w.b.requested
    <3>1. InFlightOnce(down, kid, up, id, s)
      BY <1>1, <2>1, <2>4 DEF Underway
    <3>. HIDE DEF id, s, w
    <3>2. AtSocket(down, kid, up, id, s)
      BY <3>1 DEF InFlightOnce, AtDriver, Answered
    <3>3. kid.request # id
      BY <3>2 DEF AtSocket
    <3>4. \/ Tail(down) = <<>> /\ m.request = id /\ m.setting = s
          \/ m.request # id /\ AtSocket(Tail(down), kid, up, id, s)
      BY <1>1, <3>2, <3>3, TailSocket DEF m
    <3>5. CASE Tail(down) = <<>> /\ m.request = id /\ m.setting = s
      <4>1. Unanswered(up, id)
        BY <3>2 DEF AtSocket
      <4>2. e[1].success => kid.hz = s
        BY <1>3, <1>4, <1>7, <3>5
      <4>3. Answered(<<>>, kid, up \o e, id, s)
        BY <1>1, <1>4, <1>6, <1>7, <3>5, <4>1, <4>2, NowAnswered
      <4>. QED
        BY <3>5, <4>3 DEF InFlightOnce, id, s
    <3>6. CASE m.request # id /\ AtSocket(Tail(down), kid, up, id, s)
      <4>1. \A i \in 1..Len(e) : e[i].type = "RESULT" => e[i].request # id
        BY <1>4, <1>7, <3>6
      <4>2. AtSocket(Tail(down), kid, up \o e, id, s)
        BY <1>1, <1>6, <3>3, <3>6, <4>1, OtherResult
      <4>. QED
        BY <4>2 DEF InFlightOnce, id, s
    <3>. QED
      BY <3>4, <3>5, <3>6
  <2>. QED
    BY <1>8, <2>3, <2>4
<1>10. w.kid.proc = "up" /\ w.down # <<>> /\ Head(w.down).type = "SET" /\ w.kid.request = 0
       /\ x.down = Tail(w.down) /\ x.kid.proc = "up" /\ Waits(x.kid)
       /\ x.kid.hz = w.kid.hz /\ x.kid.request \in {0, Head(w.down).request}
  BY <1>1, <1>8
<1>11. Succeeded(w.up) => Succeeded(x.up)
  BY <1>1, <1>6, <1>8, ConcatKeeps
<1>. HIDE DEF w
<1>12. BInv(w)
  BY DEF w
<1>13. BInv(x)
  BY <1>8, <1>9, <1>10, <1>11, <1>12, CommandInv
<1>. QED
  BY <1>13 DEF x

\* A setting the receiver is asked for.
LEMMA TakeInv ==
  ASSUME BInv(Now), kid.proc = "up", down # <<>>, Head(down).type = "SET", kid.request = 0,
         kid.link = "online",
         Host([kid EXCEPT !.wanted = Head(down).setting, !.request = Head(down).request],
              up, Tail(down))
  PROVE  BInv(Now')
<1>. DEFINE m == Head(down)
            k == [kid EXCEPT !.wanted = m.setting, !.request = m.request]
            x == Now'
            w == Now
<1>1. /\ w.b = b /\ w.kid = kid /\ w.up = up /\ w.down = down
      /\ kid \in Process /\ up \in Seq(UpRecord) /\ down \in Seq(DownRecord)
      /\ Phases(w) /\ Waits(kid)
  BY NowIs
<1>2. m \in DownRecord /\ Tail(down) \in Seq(DownRecord)
  BY <1>1
<1>3. m.type = "SET" /\ m.request \in Id /\ m.setting \in Setting /\ m.request # 0
  BY <1>2, BridgeAssumption DEF DownRecord
<1>. HIDE DEF m
<1>4. /\ k \in Process /\ k.proc = "up" /\ k.link = "online" /\ k.request = m.request
      /\ k.hz = kid.hz /\ k.wanted = m.setting
  BY <1>1, <1>3 DEF Process
<1>5. Host(k, up, Tail(down))
  BY DEF m
<1>. HIDE DEF k
<1>6. /\ x \in States /\ x.b = w.b /\ x.owed = w.owed /\ x.choice = w.choice
      /\ x.kid = k /\ x.up = up /\ x.down = Tail(down)
  BY <1>1, <1>2, <1>4, <1>5, HostIs
<1>. HIDE DEF x
<1>7. Waits(k) /\ Tuning(k) = Tuning(kid)
  BY <1>3, <1>4 DEF Waits, Tuning
<1>8. ASSUME Serves(w)
      PROVE  /\ Reported(x.up, w.b.seen, Tuning(x.kid))
             /\ w.b.pending # 0 =>
                  InFlightOnce(x.down, x.kid, x.up, w.b.pending, w.b.requested)
  <2>1. Reported(up, w.b.seen, Tuning(kid)) /\ Underway(w)
    BY <1>1, <1>8 DEF BInv, Service
  <2>2. ASSUME w.b.pending # 0
        PROVE  InFlightOnce(Tail(down), k, up, w.b.pending, w.b.requested)
    <3>. DEFINE id == w.b.pending
                s == w.b.requested
    <3>1. InFlightOnce(down, kid, up, id, s)
      BY <1>1, <2>1, <2>2 DEF Underway
    <3>. HIDE DEF id, s, w
    <3>2. AtSocket(down, kid, up, id, s)
      BY <3>1 DEF InFlightOnce, AtDriver, Answered
    <3>3. \/ Tail(down) = <<>> /\ m.request = id /\ m.setting = s
          \/ m.request # id /\ (k.request # id => AtSocket(Tail(down), k, up, id, s))
      BY <1>1, <3>2, TailSocket DEF m
    <3>4. Unanswered(up, id)
      BY <3>2 DEF AtSocket
    <3>. QED
      BY <1>4, <3>3, <3>4 DEF InFlightOnce, AtDriver, id, s
  <2>. QED
    BY <1>6, <1>7, <2>1, <2>2
<1>9. w.kid.proc = "up" /\ w.down # <<>> /\ Head(w.down).type = "SET" /\ w.kid.request = 0
      /\ x.down = Tail(w.down) /\ x.kid.proc = "up" /\ Waits(x.kid)
      /\ x.kid.hz = w.kid.hz /\ x.kid.request \in {0, Head(w.down).request}
      /\ (Succeeded(w.up) => Succeeded(x.up))
  BY <1>1, <1>4, <1>6, <1>7 DEF m
<1>. HIDE DEF w
<1>10. BInv(w)
  BY DEF w
<1>11. BInv(x)
  BY <1>6, <1>8, <1>9, <1>10, CommandInv
<1>. QED
  BY <1>11 DEF x

----------------------------------------------------------------------------
(* The invariant of the specification *)

\* Nothing runs at first.
LEMMA InitInv ==
  ASSUME Init
  PROVE  Inv
<1>. DEFINE k == Husk("none")
<1>1. /\ b \in Bridge
      /\ ~b.fd /\ ~b.hello /\ ~b.ready /\ ~b.online /\ ~b.idling
      /\ b.desired = None /\ b.requested = None /\ b.queued = None /\ b.pending = 0
      /\ ~b.complete /\ b.seen = None
  BY DEF Init, Bridge
<1>2. k \in Process /\ k.proc = "none" /\ k.request = 0 /\ k.hz = None
  BY BridgeAssumption DEF Husk, Fresh, Process
<1>3. /\ kid = k /\ up = <<>> /\ down = <<>>
      /\ demand = FALSE /\ faults = 0 /\ owed = 0 /\ choice = NoChoice
  BY DEF Init
<1>. HIDE DEF k
<1>4. <<>> \in Seq(UpRecord) /\ <<>> \in Seq(DownRecord)
  OBVIOUS
<1>. DEFINE w == Now
<1>5. /\ w \in States /\ w.b = b /\ w.kid = kid /\ w.up = up /\ w.down = down
      /\ w.owed = owed /\ w.choice = choice
  BY <1>1, <1>2, <1>3, <1>4 DEF Now, States, NoChoice, ChoiceHistory
<1>. HIDE DEF w
<1>6. Waits(w.kid)
  BY <1>2, <1>3, <1>5 DEF Waits
<1>7. Cut(w)
  BY <1>1, <1>2, <1>3, <1>5, <1>6 DEF Cut, Kept, Holds, NoChoice
<1>8. BInv(w)
  BY <1>7, CutInv
<1>9. demand \in BOOLEAN /\ faults \in 0..MaxFaults
  <2>1. MaxFaults \in Nat
    BY BridgeAssumption
  <2>2. 0 \in 0..MaxFaults
    BY <2>1
  <2>. QED
    BY <1>3, <2>2
<1>. QED
  BY <1>8, <1>9 DEF Inv, w

\* A step of the supervisor.
LEMMA SupervisorInv ==
  ASSUME EndlessId, Inv, Supervisor
  PROVE  BInv(Now') /\ demand' \in BOOLEAN /\ faults' \in 0..MaxFaults
<1>0. BInv(Now) /\ demand \in BOOLEAN /\ faults \in 0..MaxFaults /\ MaxFaults \in Nat
  BY BridgeAssumption DEF Inv
<1>1. ASSUME NEW due \in BOOLEAN, NEW grace \in BOOLEAN, NEW late \in BOOLEAN,
             NEW fails \in BOOLEAN, NEW unused \in BOOLEAN,
             rrserver_bridges_poll(due, grace, late, fails, unused)
      PROVE  BInv(Now') /\ demand' \in BOOLEAN /\ faults' \in 0..MaxFaults
  <2>. DEFINE w == Polled(due, grace, late, fails, unused)
  <2>1. BInv(w)
    BY <1>0, PolledInv
  <2>2. Become(w) /\ demand' = demand
        /\ faults' = (IF fails THEN faults + 1 ELSE faults) /\ (fails => faults < MaxFaults)
    BY <1>1 DEF rrserver_bridges_poll
  <2>. HIDE DEF w
  <2>3. Now' = w
    BY <2>1, <2>2, BecomeIs DEF BInv
  <2>4. faults' \in 0..MaxFaults
    BY <1>0, <2>2
  <2>. QED
    BY <1>0, <2>1, <2>2, <2>3, <2>4
<1>2. ASSUME NEW callback \in BOOLEAN, NEW property, NEW value,
             (property = "hz" /\ value \in Hz) \/ (property = "mode" /\ value \in Mode),
             control(property, value, callback)
      PROVE  BInv(Now') /\ demand' \in BOOLEAN /\ faults' \in 0..MaxFaults
  <2>1. BInv(Now')
    BY <1>0, <1>2, ControlInv
  <2>2. UNCHANGED <<demand, faults>>
    BY <1>2 DEF control
  <2>. QED
    BY <1>0, <2>1, <2>2
<1>3. ASSUME rrserver_bridges_stop
      PROVE  BInv(Now') /\ demand' \in BOOLEAN /\ faults' \in 0..MaxFaults
  <2>. DEFINE w == [disconnect(Now) EXCEPT !.b.stopping = TRUE, !.kid = Husk("none")]
  <2>1. BInv(w)
    BY <1>0, StopInv
  <2>2. Become(w) /\ UNCHANGED <<demand, faults>>
    BY <1>3 DEF rrserver_bridges_stop
  <2>. HIDE DEF w
  <2>3. Now' = w
    BY <2>1, <2>2, BecomeIs DEF BInv
  <2>. QED
    BY <1>0, <2>1, <2>2, <2>3
<1>4. ASSUME Subscribe
      PROVE  BInv(Now') /\ demand' \in BOOLEAN /\ faults' \in 0..MaxFaults
  <2>1. /\ UNCHANGED <<b, kid, up, down, faults, owed, choice>> /\ demand' = ~demand
    BY <1>4 DEF Subscribe
  <2>2. Now' = Now
    BY <2>1 DEF Now
  <2>. QED
    BY <1>0, <2>1, <2>2
<1>5. CASE \E due, grace, late, fails, unused \in BOOLEAN :
             rrserver_bridges_poll(due, grace, late, fails, unused)
  <2>1. PICK due \in BOOLEAN, grace \in BOOLEAN, late \in BOOLEAN, fails \in BOOLEAN,
             unused \in BOOLEAN : rrserver_bridges_poll(due, grace, late, fails, unused)
    BY <1>5
  <2>. QED
    BY <1>1, <2>1
<1>6. CASE \E callback \in BOOLEAN : \E hz \in Hz : control("hz", hz, callback)
  <2>1. PICK callback \in BOOLEAN, hz \in Hz : control("hz", hz, callback)
    BY <1>6
  <2>. QED
    BY <1>2, <2>1
<1>7. CASE \E callback \in BOOLEAN : \E mode \in Mode : control("mode", mode, callback)
  <2>1. PICK callback \in BOOLEAN, mode \in Mode : control("mode", mode, callback)
    BY <1>7
  <2>. QED
    BY <1>2, <2>1
<1>. QED
  BY <1>3, <1>4, <1>5, <1>6, <1>7 DEF Supervisor

\* A step of the process.
LEMMA DriverInv ==
  ASSUME Inv, Driver
  PROVE  BInv(Now') /\ demand' \in BOOLEAN /\ faults' \in 0..MaxFaults
<1>0. BInv(Now) /\ demand \in BOOLEAN /\ faults \in 0..MaxFaults /\ MaxFaults \in Nat
  BY BridgeAssumption DEF Inv
<1>1. demand' = demand
  BY DEF Driver, Start, Command, SetReceiver, Connect, NewFreq, Die, Fail, Close, Stick, Crash, Host
<1>2. faults' = faults \/ Fault
  BY DEF Driver, Start, Command, SetReceiver, Connect, NewFreq, Die, Fail, Close, Stick, Crash
<1>3. faults' \in 0..MaxFaults
  BY <1>0, <1>2 DEF Fault
<1>4. ASSUME Command PROVE BInv(Now')
  <2>. DEFINE m == Head(down)
  <2>1. kid.proc = "up" /\ down # <<>>
    BY <1>4 DEF Command
  <2>2. CASE Host(Husk("zombie"), up, <<>>)
    <3>1. <<>> \in {<<>>, down} /\ "zombie" \in {"stuck", "zombie"}
      OBVIOUS
    <3>. QED
      BY <1>0, <2>1, <2>2, <3>1, EndsInv
  <2>3. CASE m.type = "SET" /\ kid.request = 0 /\ SetReceiver(m)
    <3>1. \/ Host(kid, Append(up, Result(m.request, FALSE)), Tail(down))
          \/ /\ m.setting = kid.hz
             /\ Host(kid, Append(up, Result(m.request, TRUE)), Tail(down))
          \/ /\ kid.link = "online"
             /\ Host([kid EXCEPT !.wanted = m.setting, !.request = m.request], up, Tail(down))
      BY <2>3 DEF SetReceiver
    <3>2. CASE Host(kid, Append(up, Result(m.request, FALSE)), Tail(down))
      BY <1>0, <2>1, <2>3, <3>2, AnswerInv
    <3>3. CASE /\ m.setting = kid.hz
               /\ Host(kid, Append(up, Result(m.request, TRUE)), Tail(down))
      BY <1>0, <2>1, <2>3, <3>3, AnswerInv
    <3>4. CASE /\ kid.link = "online"
               /\ Host([kid EXCEPT !.wanted = m.setting, !.request = m.request], up, Tail(down))
      BY <1>0, <2>1, <2>3, <3>4, TakeInv
    <3>. QED
      BY <3>1, <3>2, <3>3, <3>4
  <2>. QED
    BY <1>4, <2>2, <2>3 DEF Command
<1>5. ASSUME Fail PROVE BInv(Now')
  <2>1. kid.proc = "up" /\ Host(Dropped(kid, "closing"), up \o Unavailable(kid), down)
    BY <1>5 DEF Fail
  <2>2. /\ up \in Seq(UpRecord) /\ kid \in Process
    BY <1>0, NowIs
  <2>3. Unavailable(kid) \in Seq(UpRecord)
    <3>. DEFINE l == [link |-> "closing"]
    <3>1. l.link # "online"
      OBVIOUS
    <3>. HIDE DEF l
    <3>. QED
      BY <2>2, <3>1, UnavailableIs
  <2>4. (up \o Unavailable(kid)) \o <<>> = up \o Unavailable(kid)
    BY <2>2, <2>3, ConcatProperties, ConcatEmptySeq
  <2>5. Host(Dropped(kid, "closing"), up \o Unavailable(kid) \o <<>>, down)
    BY <2>1, <2>4
  <2>. DEFINE t == <<>>
              link == "closing"
  <2>6. /\ link \in {"closing", "stopped", "down"} /\ (t = <<>> \/ t = <<[type |-> "LOG"]>>)
        /\ Host(Dropped(kid, link), up \o Unavailable(kid) \o t, down)
    BY <2>5
  <2>. HIDE DEF t, link
  <2>. QED
    BY <1>0, <2>1, <2>6, LostInv
<1>6. ASSUME Close PROVE BInv(Now')
  <2>. DEFINE last == kid.attempts >= MaxAttempts
              t == IF last THEN <<[type |-> "LOG"]>> ELSE <<>>
              link == IF last THEN "stopped" ELSE "down"
  <2>1. kid.proc = "up" /\ Host(Dropped(kid, link), up \o Unavailable(kid) \o t, down)
    BY <1>6 DEF Close
  <2>2. link \in {"closing", "stopped", "down"} /\ (t = <<>> \/ t = <<[type |-> "LOG"]>>)
    OBVIOUS
  <2>. HIDE DEF t, link
  <2>. QED
    BY <1>0, <2>1, <2>2, LostInv
<1>7. ASSUME Stick \/ Crash \/ Die PROVE BInv(Now')
  <2>1. CASE Stick
    <3>1. kid.proc \in {"start", "up"} /\ Host(Husk("stuck"), up, down)
      BY <2>1 DEF Stick
    <3>. QED
      BY <1>0, <3>1, EndsInv
  <2>2. CASE Crash
    <3>1. kid.proc \in {"start", "up"} /\ Host(Husk("zombie"), up, <<>>)
      BY <2>2 DEF Crash
    <3>. QED
      BY <1>0, <3>1, EndsInv
  <2>3. CASE Die
    <3>1. kid.proc = "doomed" /\ Host(Husk("zombie"), up, down)
      BY <2>3 DEF Die
    <3>. QED
      BY <1>0, <3>1, EndsInv
  <2>. QED
    BY <1>7, <2>1, <2>2, <2>3
<1>8. BInv(Now')
  BY <1>0, <1>4, <1>5, <1>6, <1>7, StartInv, ConnectInv, NewFreqInv DEF Driver
<1>. QED
  BY <1>0, <1>1, <1>3, <1>8

\* Every step keeps the invariant.
LEMMA StepInv ==
  ASSUME EndlessId, Inv, [Next]_vars
  PROVE  Inv'
<1>1. ASSUME UNCHANGED vars PROVE Inv'
  <2>1. Now' = Now /\ demand' = demand /\ faults' = faults
    BY <1>1 DEF vars, Now
  <2>2. BInv(Now') /\ demand' \in BOOLEAN /\ faults' \in 0..MaxFaults
    BY <2>1 DEF Inv
  <2>. QED
    BY <2>2 DEF Inv
<1>2. ASSUME Next PROVE Inv'
  <2>1. BInv(Now') /\ demand' \in BOOLEAN /\ faults' \in 0..MaxFaults
    BY <1>2, SupervisorInv, DriverInv DEF Next
  <2>. QED
    BY <2>1 DEF Inv
<1>. QED
  BY <1>1, <1>2

\* It implies the properties.
LEMMA InvNoLostCallback ==
  ASSUME Inv
  PROVE  NoLostCallback
<1>1. /\ b \in Bridge /\ kid \in Process /\ up \in Seq(UpRecord) /\ down \in Seq(DownRecord)
      /\ choice \in ChoiceHistory /\ Phases(Now)
      /\ Now.b = b /\ Now.up = up /\ Now.down = down /\ Now.owed = owed
  BY NowIs DEF Inv
<1>2. Requests(Now)
  BY DEF Inv, BInv
<1>3. owed = (IF b.complete THEN 1 ELSE 0) /\ (b.complete => b.pending # 0)
  BY <1>1, <1>2 DEF Requests, Owes
<1>4. UpRecord \subseteq Record /\ DownRecord \subseteq Record
  BY BridgeAssumption DEF UpRecord, DownRecord, Record
<1>5. up \in Seq(Record) /\ down \in Seq(Record)
  BY <1>1, <1>4, SeqMonotonic
<1>6. ~b.fd => up = <<>> /\ down = <<>>
  BY <1>1 DEF Phases
<1>7. b.complete \in BOOLEAN
  BY <1>1, SMTT(20) DEF Bridge
<1>8. owed \in Nat
  BY <1>3, <1>7
<1>9. owed = IF b.pending # 0 /\ b.complete THEN 1 ELSE 0
  BY <1>3, <1>7
<1>. QED
  BY <1>1, <1>5, <1>6, <1>8, <1>9 DEF NoLostCallback, TypeOK, Inv

\* When nothing is under way, nothing waits and nothing was asked for: the
\* choice in force is the last one.
LEMMA InvLastChoice ==
  ASSUME Inv
  PROVE  LastChoiceWins
<1>. SUFFICES ASSUME Quiet
              PROVE  /\ b.queued = None /\ b.seen = kid.hz
                     /\ b.desired = Latest(choice)
                     /\ choice.astray \/ kid.hz = Latest(choice)
  BY DEF LastChoiceWins
<1>. DEFINE w == Now
<1>1. /\ w.b = b /\ w.kid = kid /\ w.up = up /\ w.down = down /\ w.choice = choice
      /\ Phases(w)
  BY NowIs DEF Inv
<1>2. Requests(w) /\ Kept(w) /\ Service(w)
  BY DEF Inv, BInv
<1>3. b.online /\ b.pending = 0 /\ up = <<>> /\ down = <<>> /\ kid.proc = "up"
  BY DEF Quiet
<1>. HIDE DEF w
<1>4. b.queued = None /\ b.requested = None
  BY <1>1, <1>2, <1>3 DEF Requests
<1>5. Serves(w)
  BY <1>1, <1>3 DEF Serves
<1>6. Reported(up, b.seen, Tuning(kid)) /\ Underway(w)
  BY <1>1, <1>2, <1>5 DEF Service
<1>7. b.seen = Tuning(kid)
  BY <1>3, <1>6 DEF Reported, LastState
<1>8. b.seen # None
  BY <1>1, <1>3 DEF Phases
<1>9. b.seen = kid.hz
  BY <1>7, <1>8 DEF Tuning
<1>10. b.desired = Latest(choice)
  BY <1>1, <1>2, <1>4 DEF Kept, Holds, Latest
<1>11. choice.astray \/ kid.hz = b.desired
  BY <1>1, <1>3, <1>6 DEF Underway, Tuned
<1>. QED
  BY <1>4, <1>9, <1>10, <1>11

\* The invariant holds in every behaviour.
LEMMA InvAlways ==
  ASSUME EndlessId
  PROVE  Spec => []Inv
<1>1. Init => Inv
  BY InitInv
<1>2. Inv /\ [Next]_vars => Inv'
  BY StepInv
<1>. QED
  BY <1>1, <1>2, PTL DEF Spec

\* A callback that control accepted is the pending one or was called, once: it
\* is neither lost nor called twice by a coalesced change, a refused setting, a
\* lost receiver, a crash, a deadline or the end of the server.
THEOREM BridgeNoLostCallback ==
  ASSUME EndlessId
  PROVE  Spec => []NoLostCallback
<1>1. Inv => NoLostCallback
  BY InvNoLostCallback
<1>. QED
  BY <1>1, InvAlways, PTL

\* Whenever nothing is under way, the setting that an outage restores is the last
\* choice that was neither refused nor already sent when the receiver dropped,
\* across any number of outages and processes, clients see what the receiver
\* has, and that is this choice unless the receiver refused to go back to it.
THEOREM BridgeLastChoiceWins ==
  ASSUME EndlessId
  PROVE  Spec => []LastChoiceWins
<1>1. Inv => LastChoiceWins
  BY InvLastChoice
<1>. QED
  BY <1>1, InvAlways, PTL
=====
