----------------------------- MODULE PttProofs -----------------------------
(***************************************************************************)
(* Proofs about Ptt, for every number of rigs, VFOs and connections and    *)
(* every queue limit.                                                      *)
(*                                                                         *)
(* What becomes of the requests of a rig is decided along one line: the    *)
(* results that are being replayed, those the worker has finished, the job *)
(* it is running and its queue.  Most of the invariant compares the order  *)
(* of that line with the order of the list of pending requests.            *)
(***************************************************************************)
EXTENDS Ptt, ListsProofs

----------------------------------------------------------------------------
(* The line of a rig *)

\* What the line says of a job or of a result: the VFO, the operation and the
\* pending requests that it answers.
JobItem(j) == [vfo |-> j.vfo, on |-> j.on, ids |-> Elems(j.pends) \ {0}]
ResultItem(x) == [vfo |-> x.vfo, on |-> x.on, ids |-> {x.pend} \ {0}]

JobItems(q) == {JobItem(j) : j \in Elems(q)}
ResultItems(d) == {ResultItem(x) : x \in Elems(d)}
RunningItems(x) == IF x = NoJob THEN {} ELSE {JobItem(x)}

\* The items of the line with results J being replayed, results D, running
\* job x and queue Q.
Items(J, D, x, Q) == ResultItems(J) \cup ResultItems(D) \cup RunningItems(x) \cup JobItems(Q)

\* Request k was made after request m; pd lists the newest first.
Newer(pd, k, m) ==
  \E i, j \in 1..Len(pd) : i < j /\ pd[i].id = k /\ pd[j].id = m

\* A release of the same VFO was requested after request k.
Overtaken(pd, k) ==
  \E i, j \in 1..Len(pd) :
    /\ i < j /\ pd[j].id = k
    /\ ~pd[i].on /\ pd[i].rig = pd[j].rig /\ pd[i].vfo = pd[j].vfo

\* Item x may be ahead of item y: they answer different requests, a key-down
\* is ahead of a release of its VFO only if there is a newer one, and a release
\* is ahead of newer key-downs only.
InOrder(pd, x, y) ==
  \A k \in x.ids, m \in y.ids :
    /\ k # m
    /\ x.vfo = y.vfo /\ x.on /\ ~y.on => Overtaken(pd, k)
    /\ x.vfo = y.vfo /\ ~x.on /\ y.on => Newer(pd, m, k)

JobsInOrder(pd, q) ==
  \A i, j \in 1..Len(q) : i < j => InOrder(pd, JobItem(q[i]), JobItem(q[j]))

ResultsInOrder(pd, d) ==
  \A i, j \in 1..Len(d) : i < j => InOrder(pd, ResultItem(d[i]), ResultItem(d[j]))

Across(pd, S, T) == \A x \in S, y \in T : InOrder(pd, x, y)

Line(pd, J, D, x, Q) ==
  /\ ResultsInOrder(pd, J) /\ ResultsInOrder(pd, D) /\ JobsInOrder(pd, Q)
  /\ Across(pd, ResultItems(J), ResultItems(D))
  /\ Across(pd, ResultItems(J), RunningItems(x))
  /\ Across(pd, ResultItems(J), JobItems(Q))
  /\ Across(pd, ResultItems(D), RunningItems(x))
  /\ Across(pd, ResultItems(D), JobItems(Q))
  /\ Across(pd, RunningItems(x), JobItems(Q))

\* Every request that the line of rig r answers is pending.
Matched(pd, r, S) ==
  \A i \in S : \A k \in i.ids :
    \E p \in Elems(pd) : p.id = k /\ p.rig = r /\ p.vfo = i.vfo /\ p.on = i.on

\* Every pending request of rig r is answered by its line.
Carried(pd, r, S) ==
  \A p \in Elems(pd) : p.rig = r => \E i \in S : p.id \in i.ids

\* A job has a completion slot, a key-down one for its request only, and
\* nobody is told twice.
JobSound(j) ==
  /\ Len(j.pends) >= 1 /\ (j.on => Len(j.pends) = 1 /\ j.pends[1] # 0)
  /\ \A a, b \in 1..Len(j.pends) : j.pends[a] = j.pends[b] /\ j.pends[a] # 0 => a = b

\* Each VFO has at most one release with the worker.
OneRelease(x, Q) ==
  /\ \A i, j \in 1..Len(Q) : ~Q[i].on /\ ~Q[j].on /\ Q[i].vfo = Q[j].vfo => i = j
  /\ x # NoJob /\ ~x.on => \A i \in 1..Len(Q) : ~Q[i].on => Q[i].vfo # x.vfo

WorkerSound(x, Q) ==
  /\ OneRelease(x, Q)
  /\ \A j \in Elems(Q) : JobSound(j)
  /\ x # NoJob => JobSound(x)

RigSound(pd, r, J, D, x, Q) ==
  /\ Line(pd, J, D, x, Q)
  /\ Matched(pd, r, Items(J, D, x, Q)) /\ Carried(pd, r, Items(J, D, x, Q))
  /\ WorkerSound(x, Q)
  /\ \A y \in Elems(D) : y.rig = r

----------------------------------------------------------------------------
(* Steps along the line *)

\* A job is a job.
LEMMA JobType ==
  ASSUME NEW j \in Job
  PROVE  /\ j # NoJob /\ j.vfo \in VFO /\ j.on \in BOOLEAN /\ j.pends \in Seq(Nat)
         /\ RunningItems(j) = {JobItem(j)}
<1>1. j.vfo \in VFO /\ j.on \in BOOLEAN /\ j.pends \in Seq(Nat)
  BY DEF Job
<1>2. j.vfo # NoVfo
  BY <1>1, LogAssumption DEF VFO, NoVfo
<1>3. j # NoJob
  BY <1>2 DEF NoJob
<1> QED
  BY <1>1, <1>3 DEF RunningItems

\* No results, no items.
LEMMA NoItems == /\ ResultItems(<<>>) = {} /\ JobItems(<<>>) = {} /\ RunningItems(NoJob) = {}
                 /\ Elems(<<>>) = {}
<1>1. Elems(<<>>) = {}
  BY DEF Elems
<1> QED
  BY <1>1 DEF ResultItems, JobItems, RunningItems

\* Nothing is ahead of or behind an empty part of the line.
LEMMA AcrossParts ==
  ASSUME NEW pd, NEW S, NEW T, NEW U
  PROVE  /\ Across(pd, S, {}) /\ Across(pd, {}, S)
         /\ Across(pd, S, T \cup U) <=> Across(pd, S, T) /\ Across(pd, S, U)
         /\ Across(pd, T \cup U, S) <=> Across(pd, T, S) /\ Across(pd, U, S)
  BY DEF Across

\* Two runs of results, one behind the other.
LEMMA ConcatInOrder ==
  ASSUME NEW pd, NEW d \in Seq(Result), NEW e \in Seq(Result),
         ResultsInOrder(pd, d), ResultsInOrder(pd, e),
         Across(pd, ResultItems(d), ResultItems(e))
  PROVE  /\ ResultsInOrder(pd, d \o e)
         /\ ResultItems(d \o e) = ResultItems(d) \cup ResultItems(e)
<1> DEFINE t == d \o e
<1>1. /\ Len(t) = Len(d) + Len(e) /\ Len(d) \in Nat /\ Len(e) \in Nat
      /\ \A i \in 1..(Len(d) + Len(e)) : t[i] = IF i <= Len(d) THEN d[i] ELSE e[i - Len(d)]
      /\ Elems(t) = Elems(d) \cup Elems(e)
  BY ConcatElems
<1> HIDE DEF t
<1>2. ASSUME NEW a \in 1..Len(t), NEW b \in 1..Len(t), a < b
      PROVE  InOrder(pd, ResultItem(t[a]), ResultItem(t[b]))
  <2>1. CASE b <= Len(d)
    <3>1. t[a] = d[a] /\ t[b] = d[b] /\ a \in 1..Len(d) /\ b \in 1..Len(d)
      BY <1>1, <1>2, <2>1
    <3> QED
      BY <1>2, <3>1 DEF ResultsInOrder
  <2>2. CASE a <= Len(d) /\ ~(b <= Len(d))
    <3>1. t[a] = d[a] /\ a \in 1..Len(d)
      BY <1>1, <2>2
    <3>2. t[b] = e[b - Len(d)] /\ b - Len(d) \in 1..Len(e)
      BY <1>1, <2>2
    <3>3. ResultItem(t[a]) \in ResultItems(d) /\ ResultItem(t[b]) \in ResultItems(e)
      BY <3>1, <3>2 DEF ResultItems, Elems
    <3> QED
      BY <3>3 DEF Across
  <2>3. CASE ~(a <= Len(d))
    <3>1. t[a] = e[a - Len(d)] /\ a - Len(d) \in 1..Len(e)
      BY <1>1, <2>3
    <3>2. ~(b <= Len(d))
      BY <1>1, <1>2, <2>3
    <3>3. t[b] = e[b - Len(d)] /\ b - Len(d) \in 1..Len(e)
      BY <1>1, <3>2
    <3>4. a - Len(d) < b - Len(d)
      BY <1>1, <1>2
    <3> QED
      BY <3>1, <3>3, <3>4 DEF ResultsInOrder
  <2> QED
    BY <2>1, <2>2, <2>3
<1>3. ResultItems(t) = ResultItems(d) \cup ResultItems(e)
  BY <1>1 DEF ResultItems
<1> QED
  BY <1>2, <1>3 DEF ResultsInOrder, t

\* F holds the results of job x of rig r: each answers one of its requests.
ResultsOf(F, r, x) ==
  /\ F \in Seq(Result) /\ Len(F) = Len(x.pends) /\ Len(F) \in Nat
  /\ \A k \in 1..Len(F) :
       /\ F[k].rig = r /\ F[k].pend = x.pends[k] /\ F[k].vfo = x.vfo /\ F[k].on = x.on
       /\ ResultItem(F[k]).vfo = x.vfo /\ ResultItem(F[k]).on = x.on
       /\ ResultItem(F[k]).ids = {x.pends[k]} \ {0}

\* The results of a job answer its requests, each once.
LEMMA FinishedItems ==
  ASSUME NEW r \in Rigs, NEW x \in Job, NEW f, f \in BOOLEAN
  PROVE  ResultsOf(Finished(r, x, f), r, x)
<1> DEFINE F == Finished(r, x, f)
           n == Len(x.pends)
           E(k) == [rig |-> r, vfo |-> x.vfo, on |-> x.on, pend |-> x.pends[k], failed |-> f]
<1>1. x.pends \in Seq(Nat) /\ x.vfo \in VFO /\ x.on \in BOOLEAN /\ n \in Nat
  BY JobType
<1>2. \A k \in 1..n : x.pends[k] \in Nat
  BY <1>1
<1>3. \A k \in 1..n : E(k) \in Result
  BY <1>1, <1>2 DEF Result
<1>4. F = [k \in 1..n |-> E(k)]
  BY DEF Finished
<1>5. F \in Seq(Result) /\ Len(F) = n
  <2> HIDE DEF E, F, n
  <2> QED
    BY <1>1, <1>3, <1>4
<1>6. \A k \in 1..n : F[k] = E(k)
  BY <1>4
<1>7. \A k \in 1..n : /\ E(k).rig = r /\ E(k).failed = f /\ E(k).pend = x.pends[k]
                      /\ E(k).vfo = x.vfo /\ E(k).on = x.on
  OBVIOUS
<1> HIDE DEF E, F, n
<1> QED
  BY <1>1, <1>5, <1>6, <1>7 DEF ResultsOf, ResultItem, F, n

\* The worker takes the first job of its queue.
LEMMA TakeSound ==
  ASSUME NEW pd, NEW r, NEW J, NEW D, NEW Q \in Seq(Job), Q # <<>>,
         RigSound(pd, r, J, D, NoJob, Q)
  PROVE  /\ RigSound(pd, r, J, D, Head(Q), Tail(Q))
         /\ Items(J, D, Head(Q), Tail(Q)) = Items(J, D, NoJob, Q)
<1> DEFINE h == Head(Q)
           t == Tail(Q)
<1>1. /\ t \in Seq(Job) /\ h \in Job /\ h = Q[1]
      /\ Len(Q) \in Nat \ {0} /\ Len(t) = Len(Q) - 1
      /\ \A i \in 1..Len(t) : t[i] = Q[i + 1] /\ i + 1 \in 1..Len(Q)
      /\ Elems(Q) = Elems(t) \cup {h}
  BY TailElems
<1>2. RunningItems(h) = {JobItem(h)} /\ h # NoJob
  BY <1>1, JobType
<1> HIDE DEF h, t
<1>3. JobItems(Q) = JobItems(t) \cup {JobItem(h)}
  BY <1>1 DEF JobItems
<1>4. Items(J, D, h, t) = Items(J, D, NoJob, Q)
  BY <1>2, <1>3, NoItems DEF Items
<1>5. JobsInOrder(pd, Q)
  BY DEF RigSound, Line
<1>6. JobsInOrder(pd, t)
  <2> SUFFICES ASSUME NEW i \in 1..Len(t), NEW j \in 1..Len(t), i < j
               PROVE  InOrder(pd, JobItem(t[i]), JobItem(t[j]))
    BY DEF JobsInOrder
  <2>1. /\ i + 1 \in 1..Len(Q) /\ j + 1 \in 1..Len(Q) /\ i + 1 < j + 1
        /\ t[i] = Q[i + 1] /\ t[j] = Q[j + 1]
    BY <1>1
  <2> QED
    BY <1>5, <2>1 DEF JobsInOrder
<1>7. Across(pd, {JobItem(h)}, JobItems(t))
  <2> SUFFICES ASSUME NEW y \in Elems(t) PROVE InOrder(pd, JobItem(h), JobItem(y))
    BY DEF Across, JobItems
  <2>1. PICK i \in 1..Len(t) : y = t[i]
    BY DEF Elems
  <2>2. y = Q[i + 1] /\ i + 1 \in 1..Len(Q) /\ 1 \in 1..Len(Q) /\ 1 < i + 1
    BY <1>1, <2>1
  <2> QED
    BY <1>1, <1>5, <2>2 DEF JobsInOrder
<1>8. Line(pd, J, D, h, t)
  <2>1. Line(pd, J, D, NoJob, Q)
    BY DEF RigSound
  <2>2. /\ Across(pd, ResultItems(J), {JobItem(h)}) /\ Across(pd, ResultItems(J), JobItems(t))
        /\ Across(pd, ResultItems(D), {JobItem(h)}) /\ Across(pd, ResultItems(D), JobItems(t))
    BY <1>3, <2>1, AcrossParts DEF Line
  <2> QED
    BY <1>2, <1>6, <1>7, <2>1, <2>2 DEF Line
<1>9. WorkerSound(h, t)
  <2>1. WorkerSound(NoJob, Q)
    BY DEF RigSound
  <2>2. \A j \in Elems(t) \cup {h} : JobSound(j)
    BY <1>1, <2>1 DEF WorkerSound
  <2>3. \A i, j \in 1..Len(Q) : ~Q[i].on /\ ~Q[j].on /\ Q[i].vfo = Q[j].vfo => i = j
    BY <2>1 DEF WorkerSound, OneRelease
  <2>4. \A i, j \in 1..Len(t) : ~t[i].on /\ ~t[j].on /\ t[i].vfo = t[j].vfo => i = j
    BY <1>1, <2>3
  <2>5. ~h.on => \A i \in 1..Len(t) : ~t[i].on => t[i].vfo # h.vfo
    BY <1>1, <2>3
  <2> QED
    BY <2>2, <2>4, <2>5 DEF WorkerSound, OneRelease
<1> QED
  BY <1>4, <1>8, <1>9 DEF RigSound, h, t

\* The worker finishes its job: the job is replaced by its results.
LEMMA ExecuteSound ==
  ASSUME NEW pd, NEW r \in Rigs, NEW J, NEW D \in Seq(Result), NEW x \in Job, NEW Q,
         NEW f, f \in BOOLEAN, RigSound(pd, r, J, D, x, Q)
  PROVE  RigSound(pd, r, J, D \o Finished(r, x, f), NoJob, Q)
<1> DEFINE F == Finished(r, x, f)
           n == Len(F)
           E == D \o F
           X == JobItem(x)
<1>0. ResultsOf(F, r, x)
  BY FinishedItems, Zenon
<1>1. /\ F \in Seq(Result) /\ n = Len(x.pends) /\ n \in Nat
      /\ \A k \in 1..n :
           /\ F[k].rig = r
           /\ ResultItem(F[k]).vfo = x.vfo /\ ResultItem(F[k]).on = x.on
           /\ ResultItem(F[k]).ids = {x.pends[k]} \ {0}
  BY <1>0 DEF ResultsOf
<1>3. /\ x # NoJob /\ RunningItems(x) = {X}
      /\ X.vfo = x.vfo /\ X.on = x.on /\ X.ids = Elems(x.pends) \ {0}
  BY JobType DEF JobItem
<1>4. JobSound(x)
  BY <1>3 DEF RigSound, WorkerSound
<1> HIDE DEF F, n, X
<1>2. E \in Seq(Result) /\ Elems(E) = Elems(D) \cup Elems(F)
  BY <1>1, ConcatElems
<1> HIDE DEF E
<1>6. ASSUME NEW y \in ResultItems(F)
      PROVE  y.vfo = X.vfo /\ y.on = X.on /\ y.ids \subseteq X.ids
  <2>1. PICK k \in 1..n : y = ResultItem(F[k])
    BY DEF ResultItems, Elems, n
  <2>2. x.pends[k] \in Elems(x.pends)
    BY <1>1 DEF Elems
  <2> QED
    BY <1>1, <1>3, <2>1, <2>2
<1>7. ASSUME NEW k \in X.ids PROVE \E y \in ResultItems(F) : k \in y.ids
  <2>1. PICK m \in 1..n : k = x.pends[m] /\ k # 0
    BY <1>1, <1>3 DEF Elems
  <2>2. ResultItem(F[m]) \in ResultItems(F)
    BY DEF ResultItems, Elems, n
  <2>3. k \in ResultItem(F[m]).ids
    BY <1>1, <2>1, ZenonT(60)
  <2> QED
    BY <2>2, <2>3
<1>8. Line(pd, J, D, x, Q)
  BY DEF RigSound
<1>9. ASSUME NEW S
      PROVE  /\ Across(pd, S, {X}) => Across(pd, S, ResultItems(F))
             /\ Across(pd, {X}, S) => Across(pd, ResultItems(F), S)
  <2>1. ASSUME NEW y \in ResultItems(F), NEW z
        PROVE  /\ InOrder(pd, z, X) => InOrder(pd, z, y)
               /\ InOrder(pd, X, z) => InOrder(pd, y, z)
    <3>1. y.vfo = X.vfo /\ y.on = X.on /\ y.ids \subseteq X.ids
      BY <1>6
    <3> QED
      BY <3>1 DEF InOrder
  <2> QED
    BY <2>1 DEF Across
<1>10. ResultsInOrder(pd, F)
  <2> SUFFICES ASSUME NEW a \in 1..n, NEW b \in 1..n, a < b
               PROVE  InOrder(pd, ResultItem(F[a]), ResultItem(F[b]))
    BY DEF ResultsInOrder, n
  <2>1. a \in 1..Len(x.pends) /\ b \in 1..Len(x.pends) /\ a # b
    BY <1>1
  <2>2. x.pends[a] = x.pends[b] => x.pends[a] = 0
    BY <1>4, <2>1 DEF JobSound
  <2>3. /\ ResultItem(F[a]).ids = {x.pends[a]} \ {0} /\ ResultItem(F[b]).ids = {x.pends[b]} \ {0}
        /\ ResultItem(F[a]).on = x.on /\ ResultItem(F[b]).on = x.on
    BY <1>1
  <2> QED
    BY <2>2, <2>3 DEF InOrder
<1>11. Across(pd, ResultItems(D), ResultItems(F))
  BY <1>3, <1>8, <1>9 DEF Line
<1>12. ResultsInOrder(pd, E) /\ ResultItems(E) = ResultItems(D) \cup ResultItems(F)
  BY <1>1, <1>8, <1>10, <1>11, ConcatInOrder DEF Line, E
<1>13. Line(pd, J, E, NoJob, Q)
  <2>1. Across(pd, ResultItems(J), ResultItems(F)) /\ Across(pd, ResultItems(F), JobItems(Q))
    BY <1>3, <1>8, <1>9 DEF Line
  <2>2. Across(pd, ResultItems(J), ResultItems(E)) /\ Across(pd, ResultItems(E), JobItems(Q))
    BY <1>8, <1>12, <2>1, AcrossParts DEF Line
  <2> QED
    BY <1>8, <1>12, <2>2, NoItems, AcrossParts DEF Line
<1>14. /\ \A i \in Items(J, E, NoJob, Q) :
            \E o \in Items(J, D, x, Q) : o.vfo = i.vfo /\ o.on = i.on /\ i.ids \subseteq o.ids
       /\ \A o \in Items(J, D, x, Q) : \A k \in o.ids :
            \E i \in Items(J, E, NoJob, Q) : k \in i.ids
  BY <1>3, <1>12, <1>6, <1>7, NoItems DEF Items
<1>15. /\ Matched(pd, r, Items(J, E, NoJob, Q))
       /\ Carried(pd, r, Items(J, E, NoJob, Q))
  BY <1>14 DEF RigSound, Matched, Carried
<1>16. WorkerSound(NoJob, Q)
  BY DEF RigSound, WorkerSound, OneRelease
<1>17. \A y \in Elems(E) : y.rig = r
  BY <1>1, <1>2 DEF RigSound, Elems, n
<1> QED
  BY <1>13, <1>15, <1>16, <1>17 DEF RigSound, E, F

\* The server detaches the results of the worker.
LEMMA DrainSound ==
  ASSUME NEW pd, NEW r, NEW D, NEW x, NEW Q, RigSound(pd, r, <<>>, D, x, Q)
  PROVE  RigSound(pd, r, D, <<>>, x, Q)
<1>1. Items(D, <<>>, x, Q) = Items(<<>>, D, x, Q)
  BY NoItems DEF Items
<1>2. Line(pd, <<>>, D, x, Q)
  BY DEF RigSound
<1>3. ResultsInOrder(pd, <<>>)
  BY <1>2 DEF Line
<1>4. Line(pd, D, <<>>, x, Q)
  BY <1>2, <1>3, NoItems, AcrossParts DEF Line
<1> QED
  BY <1>1, <1>4, NoItems DEF RigSound

\* The first result is ahead of everything else, and the rest stays in order.
LEMMA ReplayLine ==
  ASSUME NEW pd, NEW J \in Seq(Result), NEW D, NEW x, NEW Q, J # <<>>,
         Line(pd, J, D, x, Q)
  PROVE  /\ Line(pd, Tail(J), D, x, Q)
         /\ \A y \in Items(Tail(J), D, x, Q) : InOrder(pd, ResultItem(Head(J)), y)
         /\ Items(J, D, x, Q) = Items(Tail(J), D, x, Q) \cup {ResultItem(Head(J))}
<1> DEFINE h == Head(J)
           t == Tail(J)
<1>1. /\ t \in Seq(Result) /\ h = J[1]
      /\ Len(J) \in Nat \ {0} /\ Len(t) = Len(J) - 1
      /\ \A i \in 1..Len(t) : t[i] = J[i + 1] /\ i + 1 \in 1..Len(J)
      /\ Elems(J) = Elems(t) \cup {h}
  BY TailElems
<1> HIDE DEF h, t
<1>2. ResultItems(J) = ResultItems(t) \cup {ResultItem(h)}
  BY <1>1 DEF ResultItems
<1>3. ResultsInOrder(pd, J)
  BY DEF Line
<1>4. ResultsInOrder(pd, t)
  BY <1>1, <1>3, SMTT(30) DEF ResultsInOrder
<1>5. ASSUME NEW y \in ResultItems(t) PROVE InOrder(pd, ResultItem(h), y)
  <2>1. PICK i \in 1..Len(t) : y = ResultItem(t[i])
    BY DEF Elems, ResultItems
  <2>2. t[i] = J[i + 1] /\ i + 1 \in 1..Len(J) /\ 1 \in 1..Len(J) /\ 1 < i + 1
    BY <1>1
  <2> QED
    BY <1>1, <1>3, <2>1, <2>2 DEF ResultsInOrder
<1>6. /\ Across(pd, ResultItems(t), ResultItems(D)) /\ Across(pd, {ResultItem(h)}, ResultItems(D))
      /\ Across(pd, ResultItems(t), RunningItems(x)) /\ Across(pd, {ResultItem(h)}, RunningItems(x))
      /\ Across(pd, ResultItems(t), JobItems(Q)) /\ Across(pd, {ResultItem(h)}, JobItems(Q))
  BY <1>2, AcrossParts DEF Line
<1>7. Line(pd, t, D, x, Q)
  BY <1>4, <1>6 DEF Line
<1>8. \A y \in Items(t, D, x, Q) : InOrder(pd, ResultItem(h), y)
  BY <1>5, <1>6 DEF Items, Across
<1>9. Items(J, D, x, Q) = Items(t, D, x, Q) \cup {ResultItem(h)}
  BY <1>2 DEF Items
<1> QED
  BY <1>7, <1>8, <1>9 DEF h, t

\* A result without a completion is replayed.
LEMMA ReplaySound ==
  ASSUME NEW pd, NEW r, NEW J \in Seq(Result), NEW D, NEW x, NEW Q, J # <<>>,
         RigSound(pd, r, J, D, x, Q), Head(J).pend = 0
  PROVE  RigSound(pd, r, Tail(J), D, x, Q)
<1>1. /\ Line(pd, Tail(J), D, x, Q)
      /\ Items(J, D, x, Q) = Items(Tail(J), D, x, Q) \cup {ResultItem(Head(J))}
  BY ReplayLine DEF RigSound
<1>2. ResultItem(Head(J)).ids = {}
  BY DEF ResultItem
<1>3. /\ Matched(pd, r, Items(Tail(J), D, x, Q))
      /\ Carried(pd, r, Items(Tail(J), D, x, Q))
  BY <1>1, <1>2 DEF RigSound, Matched, Carried
<1> QED
  BY <1>1, <1>3 DEF RigSound

----------------------------------------------------------------------------
(* Changes of the list of pending requests *)

\* No two pending requests have the same address.
Unique(pd) == \A i, j \in 1..Len(pd) : pd[i].id = pd[j].id => i = j

\* A key-down that a newer release has overtaken is superseded.
OvertakenSuperseded(pd) ==
  \A i, j \in 1..Len(pd) :
    i < j /\ ~pd[i].on /\ pd[j].on /\ pd[i].rig = pd[j].rig /\ pd[i].vfo = pd[j].vfo
      => pd[j].superseded

\* Duplicate, for any list of pending requests.
ReleaseNewest(pd, r, v) ==
  \E i \in 1..Len(pd) :
    /\ pd[i].rig = r /\ pd[i].vfo = v /\ ~pd[i].on
    /\ \A k \in 1..(i - 1) : ~(pd[k].rig = r /\ pd[k].vfo = v)

\* A list that keeps the order of the items of the line keeps the line.
LEMMA LineWeaker ==
  ASSUME NEW pd, NEW pe, NEW J, NEW D, NEW x, NEW Q, Line(pd, J, D, x, Q),
         \A X, Y \in Items(J, D, x, Q) : InOrder(pd, X, Y) => InOrder(pe, X, Y)
  PROVE  Line(pe, J, D, x, Q)
<1>1. \A S, T \in SUBSET Items(J, D, x, Q) : Across(pd, S, T) => Across(pe, S, T)
  BY DEF Across
<1>2. /\ ResultItems(J) \subseteq Items(J, D, x, Q) /\ ResultItems(D) \subseteq Items(J, D, x, Q)
      /\ RunningItems(x) \subseteq Items(J, D, x, Q) /\ JobItems(Q) \subseteq Items(J, D, x, Q)
  BY DEF Items
<1>3. ResultsInOrder(pe, J)
  <2>1. \A i \in 1..Len(J) : ResultItem(J[i]) \in Items(J, D, x, Q)
    BY <1>2 DEF ResultItems, Elems
  <2> QED
    BY <2>1 DEF Line, ResultsInOrder
<1>4. ResultsInOrder(pe, D)
  <2>1. \A i \in 1..Len(D) : ResultItem(D[i]) \in Items(J, D, x, Q)
    BY <1>2 DEF ResultItems, Elems
  <2> QED
    BY <2>1 DEF Line, ResultsInOrder
<1>5. JobsInOrder(pe, Q)
  <2>1. \A i \in 1..Len(Q) : JobItem(Q[i]) \in Items(J, D, x, Q)
    BY <1>2 DEF JobItems, Elems
  <2> QED
    BY <2>1 DEF Line, JobsInOrder
<1> QED
  BY <1>1, <1>2, <1>3, <1>4, <1>5 DEF Line

\* Marking requests superseded or orphaned moves nothing.
LEMMA RelabelSound ==
  ASSUME NEW pd, NEW pe, Len(pe) = Len(pd),
         \A i \in 1..Len(pd) : /\ pe[i].id = pd[i].id /\ pe[i].rig = pd[i].rig
                               /\ pe[i].vfo = pd[i].vfo /\ pe[i].on = pd[i].on
  PROVE  /\ \A r, J, D, x, Q : RigSound(pd, r, J, D, x, Q) => RigSound(pe, r, J, D, x, Q)
         /\ Unique(pd) => Unique(pe)
         /\ \A r, v : ReleaseNewest(pe, r, v) <=> ReleaseNewest(pd, r, v)
<1>1. \A k, m : Newer(pd, k, m) => Newer(pe, k, m)
  BY DEF Newer
<1>2. \A k : Overtaken(pd, k) => Overtaken(pe, k)
  BY DEF Overtaken
<1>3. \A X, Y : InOrder(pd, X, Y) => InOrder(pe, X, Y)
  BY <1>1, <1>2 DEF InOrder
<1>4. ASSUME NEW r, NEW J, NEW D, NEW x, NEW Q, RigSound(pd, r, J, D, x, Q)
      PROVE  RigSound(pe, r, J, D, x, Q)
  <2>1. Line(pe, J, D, x, Q)
    BY <1>3, <1>4, LineWeaker DEF RigSound
  <2>2. Matched(pe, r, Items(J, D, x, Q))
    BY <1>4 DEF RigSound, Matched, Elems
  <2>3. Carried(pe, r, Items(J, D, x, Q))
    BY <1>4 DEF RigSound, Carried, Elems
  <2> QED
    BY <1>4, <2>1, <2>2, <2>3 DEF RigSound
<1>5. Unique(pd) => Unique(pe)
  BY DEF Unique
<1>6. ASSUME NEW r, NEW v PROVE ReleaseNewest(pe, r, v) <=> ReleaseNewest(pd, r, v)
  <2>1. \A i \in 1..Len(pd) : \A k \in 1..(i - 1) : k \in 1..Len(pd)
    OBVIOUS
  <2> QED
    BY <2>1 DEF ReleaseNewest
<1> QED
  BY <1>4, <1>5, <1>6

\* What unlinking request p leaves in place.
LEMMA UnlinkOrder ==
  ASSUME NEW pd \in Seq(Pending), Unique(pd), NEW p \in Elems(pd)
  PROVE  LET w == Without(pd, {p})
         IN  /\ w \in Seq(Pending) /\ Elems(w) = Elems(pd) \ {p}
             /\ \A q \in Elems(w) : q.id # p.id
             /\ Unique(w)
             /\ OvertakenSuperseded(pd) => OvertakenSuperseded(w)
             /\ \A k, m : Newer(pd, k, m) /\ k # p.id /\ m # p.id => Newer(w, k, m)
             /\ \A k : Overtaken(pd, k) /\ k # p.id =>
                  \/ Overtaken(w, k)
                  \/ /\ Newer(pd, p.id, k) /\ ~p.on
                     /\ \A q \in Elems(pd) : q.id = k => q.rig = p.rig /\ q.vfo = p.vfo
<1> DEFINE w == Without(pd, {p})
<1>1. w \in Seq(Pending) /\ Elems(w) = Elems(pd) \ {p}
  BY WithoutProperties
<1>2. /\ \A i, j \in 1..Len(pd) : i < j /\ pd[i] # p /\ pd[j] # p =>
           \E a, b \in 1..Len(w) : a < b /\ w[a] = pd[i] /\ w[b] = pd[j]
      /\ \A a, b \in 1..Len(w) : a < b =>
           \E i, j \in 1..Len(pd) : i < j /\ w[a] = pd[i] /\ w[b] = pd[j]
  <2>1. OrderKept(pd, p, w)
    BY WithoutOne, Zenon
  <2> QED
    BY <2>1 DEF OrderKept
<1> HIDE DEF w
<1>3. Len(w) \in Nat /\ Len(pd) \in Nat
  BY <1>1
<1>4. PICK e \in 1..Len(pd) : p = pd[e]
  BY DEF Elems
<1>5. \A i \in 1..Len(pd) : pd[i].id = p.id => i = e
  BY <1>4 DEF Unique
<1>6. \A q \in Elems(w) : q.id # p.id
  BY <1>1, <1>4, <1>5 DEF Elems
<1>7. ASSUME NEW a \in 1..Len(w), NEW b \in 1..Len(w), a < b PROVE w[a].id # w[b].id
  <2>1. PICK i, j \in 1..Len(pd) : i < j /\ w[a] = pd[i] /\ w[b] = pd[j]
    BY <1>2, <1>7
  <2> QED
    BY <1>3, <2>1 DEF Unique
<1>8. Unique(w)
  <2> SUFFICES ASSUME NEW a \in 1..Len(w), NEW b \in 1..Len(w), a # b
               PROVE  w[a].id # w[b].id
    BY DEF Unique
  <2>1. a < b \/ b < a
    BY <1>3
  <2> QED
    BY <1>7, <2>1
<1>9. OvertakenSuperseded(pd) => OvertakenSuperseded(w)
  <2> SUFFICES ASSUME OvertakenSuperseded(pd), NEW a \in 1..Len(w), NEW b \in 1..Len(w), a < b,
                      ~w[a].on, w[b].on, w[a].rig = w[b].rig, w[a].vfo = w[b].vfo
               PROVE  w[b].superseded
    BY DEF OvertakenSuperseded
  <2>1. PICK i, j \in 1..Len(pd) : i < j /\ w[a] = pd[i] /\ w[b] = pd[j]
    BY <1>2
  <2> QED
    BY <2>1 DEF OvertakenSuperseded
<1>10. ASSUME NEW k, NEW m, Newer(pd, k, m), k # p.id, m # p.id PROVE Newer(w, k, m)
  <2>1. PICK i, j \in 1..Len(pd) : i < j /\ pd[i].id = k /\ pd[j].id = m
    BY <1>10 DEF Newer
  <2>2. PICK a, b \in 1..Len(w) : a < b /\ w[a] = pd[i] /\ w[b] = pd[j]
    BY <1>2, <1>10, <2>1
  <2> QED
    BY <2>1, <2>2 DEF Newer
<1>11. ASSUME NEW k, Overtaken(pd, k), k # p.id
       PROVE  \/ Overtaken(w, k)
              \/ /\ Newer(pd, p.id, k) /\ ~p.on
                 /\ \A q \in Elems(pd) : q.id = k => q.rig = p.rig /\ q.vfo = p.vfo
  <2>1. PICK i, j \in 1..Len(pd) : /\ i < j /\ pd[j].id = k
                                   /\ ~pd[i].on /\ pd[i].rig = pd[j].rig /\ pd[i].vfo = pd[j].vfo
    BY <1>11 DEF Overtaken
  <2>2. CASE pd[i] = p
    <3>1. Newer(pd, p.id, k)
      BY <2>1, <2>2 DEF Newer
    <3>2. \A q \in Elems(pd) : q.id = k => q = pd[j]
      BY <2>1 DEF Unique, Elems
    <3> QED
      BY <2>1, <2>2, <3>1, <3>2
  <2>3. CASE pd[i] # p
    <3>1. PICK a, b \in 1..Len(w) : a < b /\ w[a] = pd[i] /\ w[b] = pd[j]
      BY <1>2, <1>11, <2>1, <2>3
    <3> QED
      BY <2>1, <3>1 DEF Overtaken
  <2> QED
    BY <2>2, <2>3
<1> QED
  BY <1>1, <1>6, <1>8, <1>9, <1>10, <1>11 DEF w

\* Newer is a strict order.
LEMMA NewerAsymmetric ==
  ASSUME NEW pd \in Seq(Pending), Unique(pd), NEW k, NEW m
  PROVE  ~(Newer(pd, k, m) /\ Newer(pd, m, k))
<1> SUFFICES ASSUME Newer(pd, k, m), Newer(pd, m, k) PROVE FALSE
  OBVIOUS
<1>1. PICK i, j \in 1..Len(pd) : i < j /\ pd[i].id = k /\ pd[j].id = m
  BY DEF Newer
<1>2. PICK a, b \in 1..Len(pd) : a < b /\ pd[a].id = m /\ pd[b].id = k
  BY DEF Newer
<1>3. a = j /\ b = i
  BY <1>1, <1>2 DEF Unique
<1> QED
  BY <1>1, <1>2, <1>3

\* Unlinking a request of another rig.
LEMMA UnlinkOtherSound ==
  ASSUME NEW pd \in Seq(Pending), Unique(pd), NEW p \in Elems(pd),
         NEW r, NEW J, NEW D, NEW x, NEW Q, RigSound(pd, r, J, D, x, Q), p.rig # r
  PROVE  RigSound(Without(pd, {p}), r, J, D, x, Q)
<1> DEFINE w == Without(pd, {p})
           S == Items(J, D, x, Q)
<1>1. /\ Elems(w) = Elems(pd) \ {p}
      /\ \A q \in Elems(w) : q.id # p.id
      /\ \A k, m : Newer(pd, k, m) /\ k # p.id /\ m # p.id => Newer(w, k, m)
      /\ \A k : Overtaken(pd, k) /\ k # p.id =>
           \/ Overtaken(w, k)
           \/ \A q \in Elems(pd) : q.id = k => q.rig = p.rig
  BY UnlinkOrder
<1>2. Matched(pd, r, S) /\ Carried(pd, r, S) /\ Line(pd, J, D, x, Q)
  BY DEF RigSound
<1> HIDE DEF w, S
<1>3. ASSUME NEW X \in S, NEW k \in X.ids
      PROVE  /\ \E q \in Elems(w) : q.id = k /\ q.rig = r /\ q.vfo = X.vfo /\ q.on = X.on
             /\ k # p.id /\ (Overtaken(pd, k) => Overtaken(w, k))
  <2>1. PICK q \in Elems(pd) : q.id = k /\ q.rig = r /\ q.vfo = X.vfo /\ q.on = X.on
    BY <1>2 DEF Matched
  <2>2. q # p
    BY <2>1
  <2> QED
    BY <1>1, <2>1, <2>2
<1>4. \A X, Y \in S : InOrder(pd, X, Y) => InOrder(w, X, Y)
  BY <1>1, <1>3 DEF InOrder
<1>5. Line(w, J, D, x, Q)
  BY <1>2, <1>4, LineWeaker DEF S
<1>6. Matched(w, r, S) /\ Carried(w, r, S)
  BY <1>1, <1>2, <1>3 DEF Matched, Carried
<1> QED
  BY <1>5, <1>6 DEF RigSound, S, w

\* A result is replayed and the request it answers is unlinked.
LEMMA UnlinkSound ==
  ASSUME NEW pd \in Seq(Pending), Unique(pd), NEW p \in Elems(pd),
         NEW r, NEW J \in Seq(Result), NEW D, NEW x, NEW Q, J # <<>>,
         RigSound(pd, r, J, D, x, Q), Head(J).pend = p.id, p.id # 0
  PROVE  /\ RigSound(Without(pd, {p}), r, Tail(J), D, x, Q)
         /\ p.rig = r /\ p.vfo = Head(J).vfo /\ p.on = Head(J).on
<1> DEFINE w == Without(pd, {p})
           T == Items(Tail(J), D, x, Q)
           h == ResultItem(Head(J))
<1>1. /\ Elems(w) = Elems(pd) \ {p}
      /\ \A q \in Elems(w) : q.id # p.id
      /\ \A k, m : Newer(pd, k, m) /\ k # p.id /\ m # p.id => Newer(w, k, m)
      /\ \A k : Overtaken(pd, k) /\ k # p.id =>
           \/ Overtaken(w, k)
           \/ /\ Newer(pd, p.id, k) /\ ~p.on
              /\ \A q \in Elems(pd) : q.id = k => q.rig = p.rig /\ q.vfo = p.vfo
  BY UnlinkOrder
<1>2. Matched(pd, r, Items(J, D, x, Q)) /\ Carried(pd, r, Items(J, D, x, Q)) /\ Line(pd, J, D, x, Q)
  BY DEF RigSound
<1>3. /\ Line(pd, Tail(J), D, x, Q)
      /\ \A y \in T : InOrder(pd, h, y)
      /\ Items(J, D, x, Q) = T \cup {h}
  BY <1>2, ReplayLine
<1>4. h.vfo = Head(J).vfo /\ h.on = Head(J).on /\ h.ids = {p.id}
  BY DEF ResultItem
<1> HIDE DEF w, T, h
<1>5. p.rig = r /\ p.vfo = h.vfo /\ p.on = h.on
  <2>1. PICK q \in Elems(pd) : q.id = p.id /\ q.rig = r /\ q.vfo = h.vfo /\ q.on = h.on
    BY <1>2, <1>3, <1>4 DEF Matched
  <2>2. q = p
    BY <2>1 DEF Unique, Elems
  <2> QED
    BY <2>1, <2>2
<1>6. ASSUME NEW X \in T, NEW k \in X.ids
      PROVE  /\ \E q \in Elems(w) : q.id = k /\ q.rig = r /\ q.vfo = X.vfo /\ q.on = X.on
             /\ k # p.id /\ (X.on /\ Overtaken(pd, k) => Overtaken(w, k))
  <2>1. PICK q \in Elems(pd) : q.id = k /\ q.rig = r /\ q.vfo = X.vfo /\ q.on = X.on
    BY <1>2, <1>3 DEF Matched
  <2>2. /\ k # p.id
        /\ h.vfo = X.vfo /\ ~h.on /\ X.on => Newer(pd, k, p.id)
    BY <1>3, <1>4 DEF InOrder
  <2>3. ~(Newer(pd, k, p.id) /\ Newer(pd, p.id, k))
    BY NewerAsymmetric
  <2>4. q \in Elems(w)
    BY <1>1, <2>1, <2>2
  <2>5. X.on /\ Overtaken(pd, k) => Overtaken(w, k)
    BY <1>1, <1>5, <2>1, <2>2, <2>3
  <2> QED
    BY <2>1, <2>2, <2>4, <2>5
<1>7. \A X, Y \in T : InOrder(pd, X, Y) => InOrder(w, X, Y)
  BY <1>1, <1>6 DEF InOrder
<1>8. Line(w, Tail(J), D, x, Q)
  BY <1>3, <1>7, LineWeaker DEF T
<1>9. Matched(w, r, T)
  BY <1>6 DEF Matched
<1>10. Carried(w, r, T)
  BY <1>1, <1>2, <1>3, <1>4 DEF Carried
<1> QED
  BY <1>4, <1>5, <1>8, <1>9, <1>10 DEF RigSound, T, w

\* Unlinking a request: whose newest request is a release.
LEMMA UnlinkNewest ==
  ASSUME NEW pd \in Seq(Pending), Unique(pd), NEW p \in Elems(pd), NEW r, NEW v
  PROVE  LET w == Without(pd, {p})
         IN  /\ ReleaseNewest(pd, r, v) =>
                  ReleaseNewest(w, r, v) \/ (~p.on /\ p.rig = r /\ p.vfo = v)
             /\ ReleaseNewest(w, r, v) =>
                  \/ ReleaseNewest(pd, r, v)
                  \/ /\ p.on /\ p.rig = r /\ p.vfo = v /\ ~Overtaken(pd, p.id)
                     /\ \E q \in Elems(w) : q.rig = r /\ q.vfo = v /\ ~q.on
<1> DEFINE w == Without(pd, {p})
           At(q) == q.rig = r /\ q.vfo = v
<1>1. w \in Seq(Pending) /\ Elems(w) = Elems(pd) \ {p} /\ Unique(w)
  BY UnlinkOrder
<1>2. /\ \A i, j \in 1..Len(pd) : i < j /\ pd[i] # p /\ pd[j] # p =>
           \E a, b \in 1..Len(w) : a < b /\ w[a] = pd[i] /\ w[b] = pd[j]
      /\ \A a, b \in 1..Len(w) : a < b =>
           \E i, j \in 1..Len(pd) : i < j /\ w[a] = pd[i] /\ w[b] = pd[j]
  <2>1. OrderKept(pd, p, w)
    BY WithoutOne, Zenon
  <2> QED
    BY <2>1 DEF OrderKept
<1> HIDE DEF w
<1>3. Len(w) \in Nat /\ Len(pd) \in Nat
  BY <1>1
<1>4. /\ \A i, j \in 1..Len(pd) : pd[i] = pd[j] => i = j
      /\ \A i, j \in 1..Len(w) : w[i] = w[j] => i = j
  BY <1>1 DEF Unique
<1>5. PICK e \in 1..Len(pd) : p = pd[e]
  BY DEF Elems
<1>6. ASSUME ReleaseNewest(pd, r, v), p.on \/ ~At(p) PROVE ReleaseNewest(w, r, v)
  <2>1. PICK i \in 1..Len(pd) : At(pd[i]) /\ ~pd[i].on /\ \A k \in 1..(i - 1) : ~At(pd[k])
    BY <1>6 DEF ReleaseNewest
  <2>2. PICK a \in 1..Len(w) : w[a] = pd[i]
    BY <1>1, <1>6, <2>1 DEF Elems
  <2>3. ASSUME NEW c \in 1..(a - 1) PROVE ~At(w[c])
    <3>1. c \in 1..Len(w) /\ c < a
      BY <1>3
    <3>2. PICK k, j \in 1..Len(pd) : k < j /\ w[c] = pd[k] /\ w[a] = pd[j]
      BY <1>2, <3>1
    <3>3. j = i
      BY <1>4, <2>2, <3>2
    <3>4. k \in 1..(i - 1)
      BY <3>2, <3>3
    <3> QED
      BY <2>1, <3>2, <3>4
  <2> QED
    BY <2>1, <2>2, <2>3 DEF ReleaseNewest
<1>7. ASSUME ReleaseNewest(w, r, v), ~ReleaseNewest(pd, r, v)
      PROVE  /\ p.on /\ At(p) /\ ~Overtaken(pd, p.id)
             /\ \E q \in Elems(w) : At(q) /\ ~q.on
  <2>1. PICK a \in 1..Len(w) : At(w[a]) /\ ~w[a].on /\ \A k \in 1..(a - 1) : ~At(w[k])
    BY <1>7 DEF ReleaseNewest
  <2>2. w[a] \in Elems(w)
    BY DEF Elems
  <2>3. PICK i \in 1..Len(pd) : w[a] = pd[i] /\ pd[i] # p
    BY <1>1, <2>2 DEF Elems
  <2>4. ASSUME NEW k \in 1..Len(pd), k < i, At(pd[k]) PROVE k = e
    <3> SUFFICES ASSUME k # e PROVE FALSE
      OBVIOUS
    <3>1. pd[k] # p
      BY <1>4, <1>5
    <3>2. PICK c, b \in 1..Len(w) : c < b /\ w[c] = pd[k] /\ w[b] = pd[i]
      BY <1>2, <2>3, <2>4, <3>1
    <3>3. b = a
      BY <1>4, <2>3, <3>2
    <3>4. c \in 1..(a - 1)
      BY <3>2, <3>3
    <3> QED
      BY <2>1, <2>4, <3>2, <3>4
  <2>5. \E k \in 1..(i - 1) : At(pd[k])
    BY <1>7, <2>1, <2>3 DEF ReleaseNewest
  <2>6. At(p) /\ e < i
    BY <1>3, <1>5, <2>4, <2>5
  <2>7. ASSUME NEW k \in 1..(e - 1) PROVE ~At(pd[k])
    <3>1. k \in 1..Len(pd) /\ k < i /\ k # e
      BY <1>3, <2>6
    <3> QED
      BY <2>4, <3>1
  <2>8. p.on
    BY <1>5, <1>7, <2>6, <2>7 DEF ReleaseNewest
  <2>9. ~Overtaken(pd, p.id)
    <3> SUFFICES ASSUME Overtaken(pd, p.id) PROVE FALSE
      OBVIOUS
    <3>1. PICK k, j \in 1..Len(pd) : k < j /\ pd[j].id = p.id /\ pd[k].rig = pd[j].rig /\ pd[k].vfo = pd[j].vfo
      BY DEF Overtaken
    <3>2. j = e
      BY <1>5, <3>1 DEF Unique
    <3>3. k \in 1..(e - 1) /\ At(pd[k])
      BY <1>5, <2>6, <3>1, <3>2
    <3> QED
      BY <2>7, <3>3
  <2> QED
    BY <2>1, <2>2, <2>6, <2>8, <2>9
<1> QED
  BY <1>6, <1>7 DEF w

\* A new request goes to the front of the list.
LEMMA AddOrder ==
  ASSUME NEW pd \in Seq(Pending), Unique(pd), NEW p \in Pending,
         \A q \in Elems(pd) : q.id # p.id
  PROVE  LET pe == <<p>> \o pd
         IN  /\ pe \in Seq(Pending) /\ Elems(pe) = Elems(pd) \cup {p}
             /\ Unique(pe)
             /\ \A k, m : Newer(pd, k, m) => Newer(pe, k, m)
             /\ \A k : Overtaken(pd, k) => Overtaken(pe, k)
             /\ \A q \in Elems(pd) :
                  /\ Newer(pe, p.id, q.id)
                  /\ ~p.on /\ q.rig = p.rig /\ q.vfo = p.vfo => Overtaken(pe, q.id)
             /\ OvertakenSuperseded(pd)
                  /\ (~p.on => \A q \in Elems(pd) : q.on /\ q.rig = p.rig /\ q.vfo = p.vfo
                                                      => q.superseded)
                => OvertakenSuperseded(pe)
             /\ \A r, v : IF p.rig = r /\ p.vfo = v
                            THEN ReleaseNewest(pe, r, v) <=> ~p.on
                            ELSE ReleaseNewest(pe, r, v) <=> ReleaseNewest(pd, r, v)
<1> DEFINE pe == <<p>> \o pd
           n == Len(pd)
<1>3. /\ pe \in Seq(Pending) /\ Len(pe) = n + 1 /\ n \in Nat
      /\ Elems(pe) = Elems(pd) \cup {p}
  BY PushElems
<1>4. /\ pe[1] = p /\ 1 \in 1..Len(pe)
      /\ \A i \in 1..n : pe[i + 1] = pd[i] /\ i + 1 \in 1..Len(pe)
      /\ \A i \in 1..Len(pe) : i = 1 \/ (i - 1 \in 1..n /\ pe[i] = pd[i - 1])
  BY PushElems
<1> HIDE DEF pe
<1>5. \A i \in 1..n : pd[i].id # p.id
  BY DEF Elems
<1>6. Unique(pe)
  <2> SUFFICES ASSUME NEW i \in 1..Len(pe), NEW j \in 1..Len(pe), pe[i].id = pe[j].id
               PROVE  i = j
    BY DEF Unique
  <2>1. CASE i = 1 /\ j = 1
    BY <2>1
  <2>2. CASE i = 1 /\ j # 1
    BY <1>4, <1>5, <2>2, SMTT(30)
  <2>3. CASE i # 1 /\ j = 1
    BY <1>4, <1>5, <2>3, SMTT(30)
  <2>4. CASE i # 1 /\ j # 1
    <3>1. i - 1 \in 1..n /\ j - 1 \in 1..n /\ pd[i - 1].id = pd[j - 1].id
      BY <1>4, <2>4
    <3>2. i - 1 = j - 1
      BY <3>1 DEF Unique
    <3> QED
      BY <3>2, <1>3
  <2> QED
    BY <2>1, <2>2, <2>3, <2>4
<1>7. ASSUME NEW i \in 1..n, NEW j \in 1..n, i < j PROVE i + 1 < j + 1
  BY <1>7
<1>8. ASSUME NEW k, NEW m, Newer(pd, k, m) PROVE Newer(pe, k, m)
  <2>1. PICK i, j \in 1..n : i < j /\ pd[i].id = k /\ pd[j].id = m
    BY <1>8 DEF Newer
  <2> QED
    BY <1>4, <1>7, <2>1 DEF Newer
<1>9. ASSUME NEW k, Overtaken(pd, k) PROVE Overtaken(pe, k)
  <2>1. PICK i, j \in 1..n : /\ i < j /\ pd[j].id = k
                             /\ ~pd[i].on /\ pd[i].rig = pd[j].rig /\ pd[i].vfo = pd[j].vfo
    BY <1>9 DEF Overtaken
  <2> QED
    BY <1>4, <1>7, <2>1, SMTT(30) DEF Overtaken
<1>10. ASSUME NEW q \in Elems(pd)
       PROVE  /\ Newer(pe, p.id, q.id)
              /\ ~p.on /\ q.rig = p.rig /\ q.vfo = p.vfo => Overtaken(pe, q.id)
  <2>1. PICK i \in 1..n : q = pd[i]
    BY DEF Elems
  <2>2. 1 < i + 1 /\ pe[i + 1] = q /\ i + 1 \in 1..Len(pe) /\ pe[1] = p /\ 1 \in 1..Len(pe)
    BY <1>4, <2>1
  <2> QED
    BY <2>2 DEF Newer, Overtaken
<1>11. ASSUME OvertakenSuperseded(pd),
              ~p.on => \A q \in Elems(pd) : q.on /\ q.rig = p.rig /\ q.vfo = p.vfo => q.superseded
       PROVE  OvertakenSuperseded(pe)
  <2> SUFFICES ASSUME NEW i \in 1..Len(pe), NEW j \in 1..Len(pe), i < j,
                      ~pe[i].on, pe[j].on, pe[i].rig = pe[j].rig, pe[i].vfo = pe[j].vfo
               PROVE  pe[j].superseded
    BY DEF OvertakenSuperseded
  <2>1. j - 1 \in 1..n /\ pe[j] = pd[j - 1]
    BY <1>3, <1>4
  <2>2. CASE i = 1
    BY <1>4, <1>11, <2>1, <2>2, ZenonT(60) DEF Elems
  <2>3. CASE i # 1
    <3>1. i - 1 \in 1..n /\ pe[i] = pd[i - 1] /\ i - 1 < j - 1
      BY <1>3, <1>4, <2>3
    <3> QED
      BY <1>11, <2>1, <3>1 DEF OvertakenSuperseded
  <2> QED
    BY <2>2, <2>3
<1>12. ASSUME NEW r, NEW v, p.rig = r /\ p.vfo = v
       PROVE  ReleaseNewest(pe, r, v) <=> ~p.on
  <2>1. ASSUME ~p.on PROVE ReleaseNewest(pe, r, v)
    <3>1. \A k \in 1..(1 - 1) : FALSE
      OBVIOUS
    <3> QED
      BY <1>4, <1>12, <2>1, <3>1 DEF ReleaseNewest
  <2>2. ASSUME ReleaseNewest(pe, r, v) PROVE ~p.on
    <3>1. PICK i \in 1..Len(pe) : ~pe[i].on /\ \A k \in 1..(i - 1) : ~(pe[k].rig = r /\ pe[k].vfo = v)
      BY <2>2 DEF ReleaseNewest
    <3>2. i = 1
      <4> SUFFICES ASSUME i # 1 PROVE FALSE
        OBVIOUS
      <4>1. 1 \in 1..(i - 1)
        BY <1>3
      <4> QED
        BY <1>4, <1>12, <3>1, <4>1
    <3> QED
      BY <1>4, <3>1, <3>2
  <2> QED
    BY <2>1, <2>2
<1>13. ASSUME NEW r, NEW v, ~(p.rig = r /\ p.vfo = v)
       PROVE  ReleaseNewest(pe, r, v) <=> ReleaseNewest(pd, r, v)
  <2>1. ASSUME ReleaseNewest(pd, r, v) PROVE ReleaseNewest(pe, r, v)
    <3>1. PICK i \in 1..n : /\ pd[i].rig = r /\ pd[i].vfo = v /\ ~pd[i].on
                            /\ \A k \in 1..(i - 1) : ~(pd[k].rig = r /\ pd[k].vfo = v)
      BY <2>1 DEF ReleaseNewest
    <3>2. ASSUME NEW k \in 1..((i + 1) - 1) PROVE ~(pe[k].rig = r /\ pe[k].vfo = v)
      <4>1. CASE k = 1
        BY <1>4, <1>13, <4>1
      <4>2. CASE k # 1
        <5>1. k - 1 \in 1..(i - 1) /\ k - 1 \in 1..n /\ k \in 1..Len(pe)
          BY <1>3, <4>2
        <5>2. pe[k] = pd[k - 1]
          BY <1>4, <4>2, <5>1
        <5> QED
          BY <3>1, <5>1, <5>2
      <4> QED
        BY <4>1, <4>2
    <3> QED
      BY <1>4, <3>1, <3>2 DEF ReleaseNewest
  <2>2. ASSUME ReleaseNewest(pe, r, v) PROVE ReleaseNewest(pd, r, v)
    <3>1. PICK i \in 1..Len(pe) : /\ pe[i].rig = r /\ pe[i].vfo = v /\ ~pe[i].on
                                  /\ \A k \in 1..(i - 1) : ~(pe[k].rig = r /\ pe[k].vfo = v)
      BY <2>2 DEF ReleaseNewest
    <3>2. i - 1 \in 1..n /\ pe[i] = pd[i - 1]
      BY <1>4, <1>13, <3>1
    <3>3. ASSUME NEW k \in 1..((i - 1) - 1) PROVE ~(pd[k].rig = r /\ pd[k].vfo = v)
      <4>1. k + 1 \in 1..(i - 1) /\ k \in 1..n
        BY <1>3, <3>2
      <4> QED
        BY <1>4, <3>1, <4>1
    <3> QED
      BY <3>1, <3>2, <3>3 DEF ReleaseNewest
  <2> QED
    BY <2>1, <2>2
<1> QED
  BY <1>3, <1>6, <1>8, <1>9, <1>10, <1>11, <1>12, <1>13 DEF pe

\* A new request that the line does not answer yet.
LEMMA AddLine ==
  ASSUME NEW pd \in Seq(Pending), Unique(pd), NEW p \in Pending,
         \A q \in Elems(pd) : q.id # p.id,
         NEW r, NEW J, NEW D, NEW x, NEW Q, RigSound(pd, r, J, D, x, Q)
  PROVE  LET pe == <<p>> \o pd
         IN  /\ Line(pe, J, D, x, Q) /\ Matched(pe, r, Items(J, D, x, Q))
             /\ \A X \in Items(J, D, x, Q) : \A k \in X.ids :
                  /\ k # p.id /\ Newer(pe, p.id, k)
                  /\ ~p.on /\ p.rig = r /\ p.vfo = X.vfo => Overtaken(pe, k)
             /\ p.rig # r => RigSound(pe, r, J, D, x, Q)
<1> DEFINE pe == <<p>> \o pd
           S == Items(J, D, x, Q)
<1>1. /\ Elems(pe) = Elems(pd) \cup {p}
      /\ \A k, m : Newer(pd, k, m) => Newer(pe, k, m)
      /\ \A k : Overtaken(pd, k) => Overtaken(pe, k)
      /\ \A q \in Elems(pd) :
           /\ Newer(pe, p.id, q.id)
           /\ ~p.on /\ q.rig = p.rig /\ q.vfo = p.vfo => Overtaken(pe, q.id)
  BY AddOrder
<1> HIDE DEF pe, S
<1>2. \A X, Y : InOrder(pd, X, Y) => InOrder(pe, X, Y)
  BY <1>1 DEF InOrder
<1>3. Line(pe, J, D, x, Q)
  BY <1>2, LineWeaker DEF RigSound
<1>4. Matched(pe, r, S)
  BY <1>1 DEF RigSound, Matched, S
<1>5. ASSUME NEW X \in S, NEW k \in X.ids
      PROVE  /\ k # p.id /\ Newer(pe, p.id, k)
             /\ ~p.on /\ p.rig = r /\ p.vfo = X.vfo => Overtaken(pe, k)
  <2>1. PICK q \in Elems(pd) : q.id = k /\ q.rig = r /\ q.vfo = X.vfo
    BY DEF RigSound, Matched, S
  <2> QED
    BY <1>1, <2>1
<1>6. p.rig # r => Carried(pe, r, S)
  BY <1>1 DEF RigSound, Carried, S
<1> QED
  BY <1>3, <1>4, <1>5, <1>6 DEF RigSound, pe, S

\* A key-down goes to the end of the queue.
LEMMA KeyDownSound ==
  ASSUME NEW pd \in Seq(Pending), Unique(pd), NEW p \in Pending,
         \A q \in Elems(pd) : q.id # p.id, p.on = TRUE,
         NEW J, NEW D, NEW x, NEW Q \in Seq(Job), RigSound(pd, p.rig, J, D, x, Q),
         NEW j \in Job, j.vfo = p.vfo, j.on = TRUE, j.pends = <<p.id>>
  PROVE  RigSound(<<p>> \o pd, p.rig, J, D, x, Append(Q, j))
<1> DEFINE pe == <<p>> \o pd
           R == Append(Q, j)
           Y == JobItem(j)
           S == Items(J, D, x, Q)
<1>1. /\ Line(pe, J, D, x, Q) /\ Matched(pe, p.rig, S)
      /\ \A X \in S : \A k \in X.ids : k # p.id /\ Newer(pe, p.id, k)
  BY AddLine
<1>2. Elems(pe) = Elems(pd) \cup {p}
  BY AddOrder
<1>3. /\ Len(R) = Len(Q) + 1 /\ Len(Q) \in Nat
      /\ \A i \in 1..Len(Q) : R[i] = Q[i]
      /\ R[Len(Q) + 1] = j
  BY AppendElems
<1>4. Elems(R) = Elems(Q) \cup {j}
  BY AppendElems
<1>5. p.id \in Nat \ {0} /\ p.on \in BOOLEAN
  BY DEF Pending
<1>6. /\ Elems(j.pends) = {p.id} /\ Len(j.pends) = 1 /\ j.pends[1] = p.id
  BY <1>5 DEF Elems
<1>7. Y.ids = {p.id} /\ Y.vfo = p.vfo /\ Y.on = j.on
  BY <1>5, <1>6 DEF JobItem
<1> HIDE DEF pe, R, Y, S
<1>8. JobItems(R) = JobItems(Q) \cup {Y}
  BY <1>4 DEF JobItems, Y
<1>9. \A X \in S : InOrder(pe, X, Y)
  BY <1>1, <1>7 DEF InOrder
<1>10. /\ ResultItems(J) \subseteq S /\ ResultItems(D) \subseteq S /\ RunningItems(x) \subseteq S
       /\ JobItems(Q) \subseteq S
  BY DEF Items, S
<1>11. JobsInOrder(pe, R)
  <2> SUFFICES ASSUME NEW a \in 1..Len(R), NEW b \in 1..Len(R), a < b
               PROVE  InOrder(pe, JobItem(R[a]), JobItem(R[b]))
    BY DEF JobsInOrder
  <2>1. a \in 1..Len(Q) /\ R[a] = Q[a]
    BY <1>3
  <2>2. CASE b \in 1..Len(Q)
    BY <1>1, <1>3, <2>1, <2>2 DEF Line, JobsInOrder
  <2>3. CASE b \notin 1..Len(Q)
    <3>1. R[b] = j
      BY <1>3, <2>3
    <3>2. JobItem(Q[a]) \in S
      BY <1>10, <2>1 DEF JobItems, Elems
    <3> QED
      BY <1>9, <2>1, <3>1, <3>2 DEF Y
  <2> QED
    BY <2>2, <2>3
<1>12. /\ Across(pe, ResultItems(J), {Y}) /\ Across(pe, ResultItems(D), {Y})
       /\ Across(pe, RunningItems(x), {Y})
  BY <1>9, <1>10 DEF Across
<1>13. Line(pe, J, D, x, R)
  BY <1>1, <1>8, <1>11, <1>12, AcrossParts DEF Line
<1>14. Items(J, D, x, R) = S \cup {Y}
  BY <1>8 DEF Items, S
<1>15. Matched(pe, p.rig, Items(J, D, x, R))
  <2>1. p.vfo = Y.vfo /\ p.on = Y.on
    BY <1>7
  <2> QED
    BY <1>1, <1>2, <1>7, <1>14, <2>1 DEF Matched
<1>16. Carried(pe, p.rig, Items(J, D, x, R))
  BY <1>2, <1>7, <1>14 DEF RigSound, Carried, S
<1>17. JobSound(j)
  BY <1>5, <1>6 DEF JobSound
<1>18. WorkerSound(x, R)
  <2>1. WorkerSound(x, Q)
    BY DEF RigSound
  <2>2. \A i \in 1..Len(R) : ~R[i].on => i \in 1..Len(Q) /\ R[i] = Q[i]
    BY <1>3
  <2>3. OneRelease(x, R)
    BY <2>1, <2>2 DEF WorkerSound, OneRelease
  <2> QED
    BY <1>4, <1>17, <2>1, <2>3 DEF WorkerSound
<1> QED
  BY <1>13, <1>15, <1>16, <1>18 DEF RigSound, pe, R

----------------------------------------------------------------------------
(* A release *)

\* The key-downs of VFO v in a queue, the results they get when they are
\* cancelled, and the worker once a release with completion k was submitted.
Cut(Q, v) == {j \in Elems(Q) : j.on /\ j.vfo = v}

Cancelled(r, Q, v) ==
  LET gone == Filter(Q, Cut(Q, v))
  IN  [k \in 1..Len(gone) |-> Finished(r, gone[k], TRUE)[1]]

RunningAfter(x, v, k) == IF IsReleaseOf(x, v) THEN Join(x, k) ELSE x

JoinIn(q, v, k) ==
  [i \in 1..Len(q) |-> IF IsReleaseOf(q[i], v) THEN Join(q[i], k) ELSE q[i]]

NewRelease(v, k) == [vfo |-> v, on |-> FALSE, pends |-> <<k>>]

Pushed(q, v, k) == <<NewRelease(v, k)>> \o q

QueueAfter(x, q, v, k) ==
  IF IsReleaseOf(x, v) THEN q
  ELSE IF \E i \in 1..Len(q) : IsReleaseOf(q[i], v) THEN JoinIn(q, v, k)
  ELSE Pushed(q, v, k)

\* A release of v of rig r with completion k is submitted to the worker.
Submitted(r, v, k, d, x, q, dd, xx, qq) ==
  /\ dd = [d EXCEPT ![r] = d[r] \o Cancelled(r, q[r], v)]
  /\ xx = [x EXCEPT ![r] = RunningAfter(x[r], v, k)]
  /\ qq = [q EXCEPT ![r] = QueueAfter(x[r], Without(q[r], Cut(q[r], v)), v, k)]

\* What SubmitRelease does, in these terms.
LEMMA SubmitReleaseIs ==
  ASSUME NEW r \in Rigs, NEW v, NEW k, NEW n, SubmitRelease(r, v, k, n),
         queue \in [Rigs -> Seq(Job)], running \in [Rigs -> Job \cup {NoJob}],
         done \in [Rigs -> Seq(Result)]
  PROVE  /\ Submitted(r, v, k, done, running, queue, done', running', queue')
         /\ outstanding' = [outstanding EXCEPT ![r] = n + 1]
<1>1. done' = [done EXCEPT ![r] = done[r] \o Cancelled(r, queue[r], v)]
  BY DEF SubmitRelease, Cancelled, Cut
<1>2. running' = [running EXCEPT ![r] = RunningAfter(running[r], v, k)]
  BY DEF SubmitRelease, RunningAfter
<1>3. outstanding' = [outstanding EXCEPT ![r] = n + 1]
  BY DEF SubmitRelease
<1>4. queue' = [queue EXCEPT ![r] =
        QueueAfter(running[r], Without(queue[r], Cut(queue[r], v)), v, k)]
  <2>1. CASE IsReleaseOf(running[r], v)
    BY <2>1 DEF SubmitRelease, QueueAfter, Cut
  <2>2. CASE ~IsReleaseOf(running[r], v)
    BY <2>2 DEF SubmitRelease, QueueAfter, JoinIn, Pushed, NewRelease, Cut
  <2> QED
    BY <2>1, <2>2
<1> QED
  BY <1>1, <1>2, <1>3, <1>4 DEF Submitted

\* A cancelled key-down becomes a result with the same item.
LEMMA CancelledItems ==
  ASSUME NEW r \in Rigs, NEW v, NEW Q \in Seq(Job), \A j \in Elems(Q) : JobSound(j)
  PROVE  LET gone == Filter(Q, Cut(Q, v))
             G == Cancelled(r, Q, v)
         IN  /\ G \in Seq(Result) /\ Len(G) = Len(gone) /\ Len(G) \in Nat
             /\ \A k \in 1..Len(G) : /\ ResultItem(G[k]) = JobItem(gone[k])
                                     /\ G[k].rig = r /\ G[k].on = gone[k].on /\ G[k].vfo = v
<1> DEFINE gone == Filter(Q, Cut(Q, v))
           G == Cancelled(r, Q, v)
           E(k) == Finished(r, gone[k], TRUE)[1]
<1>1. /\ gone \in Seq(Job) /\ Len(gone) \in Nat
      /\ Elems(gone) = Elems(Q) \cap Cut(Q, v)
  BY FilterOrder
<1>2. G = [k \in 1..Len(gone) |-> E(k)]
  BY DEF Cancelled
<1> HIDE DEF gone
<1>3. ASSUME NEW k \in 1..Len(gone)
      PROVE  /\ E(k) \in Result /\ ResultItem(E(k)) = JobItem(gone[k])
             /\ E(k).rig = r /\ E(k).on = gone[k].on /\ E(k).vfo = v
  <2> DEFINE j == gone[k]
             F == Finished(r, j, TRUE)
  <2>1. j \in Elems(gone)
    BY DEF Elems
  <2>2. j \in Job /\ j \in Elems(Q) /\ j.on /\ j.vfo = v
    BY <1>1, <2>1 DEF Cut
  <2>3. Len(j.pends) = 1
    BY <2>2 DEF JobSound
  <2> HIDE DEF j
  <2>4. ResultsOf(F, r, j)
    BY <2>2, FinishedItems, Zenon
  <2> HIDE DEF F
  <2>5. /\ F \in Seq(Result) /\ Len(F) = 1
        /\ F[1].rig = r /\ F[1].pend = j.pends[1] /\ F[1].vfo = j.vfo /\ F[1].on = j.on
    BY <2>3, <2>4 DEF ResultsOf
  <2>6. F[1] \in Result
    <3>1. F \in Seq(Result) /\ 1 \in 1..Len(F)
      BY <2>5
    <3>2. \A i \in 1..Len(F) : F[i] \in Result
      BY <3>1
    <3> QED
      BY <3>1, <3>2
  <2>7. Elems(j.pends) = {j.pends[1]}
    BY <2>3 DEF Elems
  <2>8. ResultItem(F[1]) = JobItem(j)
    BY <2>5, <2>7 DEF ResultItem, JobItem
  <2> QED
    BY <2>2, <2>5, <2>6, <2>8 DEF F, j
<1> HIDE DEF E
<1>4. G \in Seq(Result) /\ Len(G) = Len(gone)
  BY <1>1, <1>2, <1>3
<1>5. \A k \in 1..Len(gone) : G[k] = E(k)
  BY <1>2
<1> HIDE DEF G
<1>6. \A k \in 1..Len(G) : /\ ResultItem(G[k]) = JobItem(gone[k])
                           /\ G[k].rig = r /\ G[k].on = gone[k].on /\ G[k].vfo = v
  BY <1>3, <1>4, <1>5
<1> QED
  BY <1>1, <1>4, <1>6 DEF G, gone

\* Key-downs of v are cancelled: they overtake the releases that were ahead
\* of them, which is in order if a newer release has been requested or if those
\* releases answer nobody.
CancelFits(pd, r, v, J, D, x, Q) ==
  /\ r \in Rigs /\ D \in Seq(Result) /\ Q \in Seq(Job)
  /\ \A j \in Elems(Q) : JobSound(j)
  /\ Line(pd, J, D, x, Q)
  /\ \/ \A X \in JobItems(Q) : X.on /\ X.vfo = v => \A m \in X.ids : Overtaken(pd, m)
     \/ \A X \in RunningItems(x) \cup JobItems(Q) : ~X.on /\ X.vfo = v => X.ids = {}

AfterCancel(pd, r, v, J, D, x, Q, E, R) ==
  /\ Line(pd, J, E, x, R)
  /\ Items(J, E, x, R) = Items(J, D, x, Q)
  /\ E \in Seq(Result) /\ R \in Seq(Job)
  /\ Elems(R) = Elems(Q) \ Cut(Q, v)
  /\ Elems(D) \subseteq Elems(E)
  /\ (\A y \in Elems(D) : y.rig = r) => \A y \in Elems(E) : y.rig = r

\* The line once the key-downs of v have been cancelled.
LEMMA CancelLine ==
  ASSUME NEW pd, NEW r, NEW v, NEW J, NEW D, NEW x, NEW Q, CancelFits(pd, r, v, J, D, x, Q)
  PROVE  AfterCancel(pd, r, v, J, D, x, Q, D \o Cancelled(r, Q, v), Without(Q, Cut(Q, v)))
<1> USE DEF CancelFits
<1> DEFINE gone == Filter(Q, Cut(Q, v))
           G == Cancelled(r, Q, v)
           E == D \o G
           R == Without(Q, Cut(Q, v))
<1>1. /\ G \in Seq(Result) /\ Len(G) = Len(gone) /\ Len(G) \in Nat
      /\ \A k \in 1..Len(G) : ResultItem(G[k]) = JobItem(gone[k]) /\ G[k].rig = r
  BY CancelledItems
<1>2. /\ Elems(gone) = Elems(Q) \cap Cut(Q, v)
      /\ \A a, b \in 1..Len(gone) : a < b =>
           \E i, j \in 1..Len(Q) : i < j /\ gone[a] = Q[i] /\ gone[b] = Q[j]
  <2>1. Q \in Seq(Job)
    OBVIOUS
  <2> HIDE DEF CancelFits
  <2> QED
    BY <2>1, FilterOrder
<1>3. R \in Seq(Job) /\ Elems(R) = Elems(Q) \ Cut(Q, v)
  BY WithoutProperties
<1>4. \A a, b \in 1..Len(R) : a < b =>
        \E i, j \in 1..Len(Q) : /\ i < j /\ R[a] = Q[i] /\ R[b] = Q[j]
                                /\ Q[i] \notin Cut(Q, v) /\ Q[j] \notin Cut(Q, v)
  BY WithoutOrder
<1>5. E \in Seq(Result) /\ Elems(E) = Elems(D) \cup Elems(G)
  BY <1>1, ConcatElems
<1> HIDE DEF gone, G, R
<1>6. JobsInOrder(pd, R)
  <2>1. JobsInOrder(pd, Q)
    BY DEF Line
  <2> QED
    BY <1>4, <2>1 DEF JobsInOrder
<1>7. ResultsInOrder(pd, G)
  <2>1. JobsInOrder(pd, Q)
    BY DEF Line
  <2> SUFFICES ASSUME NEW a \in 1..Len(G), NEW b \in 1..Len(G), a < b
               PROVE  InOrder(pd, ResultItem(G[a]), ResultItem(G[b]))
    BY DEF ResultsInOrder
  <2>2. PICK i, j \in 1..Len(Q) : i < j /\ gone[a] = Q[i] /\ gone[b] = Q[j]
    BY <1>1, <1>2
  <2> QED
    BY <1>1, <2>1, <2>2 DEF JobsInOrder
<1>8. ResultItems(G) = {JobItem(j) : j \in Elems(gone)}
  <2>1. \A y \in Elems(G) : \E j \in Elems(gone) : ResultItem(y) = JobItem(j)
    BY <1>1 DEF Elems
  <2>2. \A j \in Elems(gone) : \E y \in Elems(G) : ResultItem(y) = JobItem(j)
    BY <1>1 DEF Elems
  <2> QED
    BY <2>1, <2>2 DEF ResultItems
<1>9. ResultItems(G) \cup JobItems(R) = JobItems(Q)
  BY <1>2, <1>3, <1>8 DEF JobItems
<1>10. \A X \in ResultItems(G) : X.on /\ X.vfo = v
  BY <1>2, <1>8 DEF Cut, JobItem
<1>11. ResultItems(G) \subseteq JobItems(Q) /\ JobItems(R) \subseteq JobItems(Q)
  BY <1>9
<1>12. \A Y \in JobItems(R) : ~(Y.on /\ Y.vfo = v)
  BY <1>3 DEF JobItems, JobItem, Cut
<1>13. ASSUME NEW X \in ResultItems(G), NEW Y \in RunningItems(x)
       PROVE  InOrder(pd, X, Y)
  <2>1. InOrder(pd, Y, X)
    BY <1>11 DEF Line, Across
  <2> QED
    BY <1>10, <1>11, <2>1 DEF InOrder
<1>14. ASSUME NEW X \in ResultItems(G), NEW Y \in JobItems(R)
       PROVE  InOrder(pd, X, Y)
  <2>1. InOrder(pd, X, Y) \/ InOrder(pd, Y, X)
    <3>1. PICK a \in 1..Len(Q) : X = JobItem(Q[a]) /\ Q[a] \in Cut(Q, v)
      BY <1>2, <1>8 DEF Elems
    <3>2. PICK b \in 1..Len(Q) : Y = JobItem(Q[b]) /\ Q[b] \notin Cut(Q, v)
      BY <1>3 DEF Elems, JobItems
    <3>3. Len(Q) \in Nat
      OBVIOUS
    <3>4. a < b \/ b < a
      BY <3>1, <3>2, <3>3
    <3> QED
      BY <3>1, <3>2, <3>4 DEF Line, JobsInOrder
  <2> QED
    BY <1>10, <1>11, <1>12, <2>1 DEF InOrder
<1>15. Across(pd, ResultItems(G), RunningItems(x)) /\ Across(pd, ResultItems(G), JobItems(R))
  BY <1>13, <1>14 DEF Across
<1>16. /\ Across(pd, ResultItems(J), ResultItems(G)) /\ Across(pd, ResultItems(J), JobItems(R))
       /\ Across(pd, ResultItems(D), ResultItems(G)) /\ Across(pd, ResultItems(D), JobItems(R))
       /\ Across(pd, RunningItems(x), JobItems(R))
  BY <1>11 DEF Line, Across
<1>17. ResultsInOrder(pd, E) /\ ResultItems(E) = ResultItems(D) \cup ResultItems(G)
  BY <1>1, <1>7, <1>16, ConcatInOrder DEF Line
<1> HIDE DEF E
<1>18. Line(pd, J, E, x, R)
  <2>1. /\ Across(pd, ResultItems(J), ResultItems(E)) /\ Across(pd, ResultItems(E), RunningItems(x))
        /\ Across(pd, ResultItems(E), JobItems(R))
    BY <1>15, <1>16, <1>17, AcrossParts DEF Line
  <2> QED
    BY <1>6, <1>16, <1>17, <2>1 DEF Line
<1>19. Items(J, E, x, R) = Items(J, D, x, Q)
  BY <1>9, <1>17 DEF Items
<1>20. (\A y \in Elems(D) : y.rig = r) => \A y \in Elems(E) : y.rig = r
  BY <1>1, <1>5 DEF Elems
<1> QED
  BY <1>3, <1>5, <1>18, <1>19, <1>20 DEF AfterCancel, E, R, G

\* Item Z is the release Y of v with completion k, if there is one, added.
Grown(Y, Z, v, k) ==
  /\ Y.vfo = v /\ Y.on = FALSE /\ Z.vfo = v /\ Z.on = FALSE
  /\ Z.ids = Y.ids \cup ({k} \ {0})

\* The completion k of a release of v may go behind item X.
Behind(pd, X, v, k) ==
  k # 0 => /\ k \notin X.ids
           /\ X.on /\ X.vfo = v => \A m \in X.ids : Overtaken(pd, m)

\* ... and in front of item X.
Before(X, v, k) == (k # 0 => k \notin X.ids) /\ ~(X.on /\ X.vfo = v)

\* A release with one more completion keeps its place.
LEMMA GrownOrder ==
  ASSUME NEW pd, NEW v, NEW k, NEW Y, NEW Z, Grown(Y, Z, v, k), NEW X
  PROVE  /\ InOrder(pd, X, Y) /\ Behind(pd, X, v, k) => InOrder(pd, X, Z)
         /\ InOrder(pd, Y, X) /\ Before(X, v, k) => InOrder(pd, Z, X)
<1>1. ASSUME InOrder(pd, X, Y), Behind(pd, X, v, k) PROVE InOrder(pd, X, Z)
  <2> SUFFICES ASSUME NEW m \in X.ids, NEW l \in Z.ids
               PROVE  /\ m # l
                      /\ X.vfo = Z.vfo /\ X.on /\ ~Z.on => Overtaken(pd, m)
                      /\ X.vfo = Z.vfo /\ ~X.on /\ Z.on => Newer(pd, l, m)
    BY DEF InOrder
  <2>1. CASE l \in Y.ids
    BY <1>1, <2>1 DEF Grown, InOrder
  <2>2. CASE l = k /\ k # 0
    BY <1>1, <2>2 DEF Grown, Behind
  <2> QED
    BY <2>1, <2>2 DEF Grown
<1>2. ASSUME InOrder(pd, Y, X), Before(X, v, k) PROVE InOrder(pd, Z, X)
  <2> SUFFICES ASSUME NEW m \in Z.ids, NEW l \in X.ids
               PROVE  /\ m # l
                      /\ Z.vfo = X.vfo /\ Z.on /\ ~X.on => Overtaken(pd, m)
                      /\ Z.vfo = X.vfo /\ ~Z.on /\ X.on => Newer(pd, l, m)
    BY DEF InOrder
  <2>1. CASE m \in Y.ids
    BY <1>2, <2>1 DEF Grown, InOrder, Before
  <2>2. CASE m = k /\ k # 0
    BY <1>2, <2>2 DEF Grown, Before
  <2> QED
    BY <2>1, <2>2 DEF Grown
<1> QED
  BY <1>1, <1>2

\* Every item of T is in S or is one of S with completion k added.
GrownFrom(S, T, v, k) == \A Z \in T : Z \in S \/ \E Y \in S : Grown(Y, Z, v, k)

\* What is ahead of the items of S stays ahead of them when they grow.
LEMMA GrownAcross ==
  ASSUME NEW pd, NEW v, NEW k, NEW S, NEW T, NEW U, GrownFrom(S, T, v, k)
  PROVE  /\ Across(pd, U, S) /\ (\A X \in U : Behind(pd, X, v, k)) => Across(pd, U, T)
         /\ Across(pd, S, U) /\ (\A X \in U : Before(X, v, k)) => Across(pd, T, U)
<1>1. ASSUME Across(pd, U, S), \A X \in U : Behind(pd, X, v, k) PROVE Across(pd, U, T)
  <2> SUFFICES ASSUME NEW X \in U, NEW Z \in T PROVE InOrder(pd, X, Z)
    BY DEF Across
  <2>1. CASE Z \in S
    BY <1>1, <2>1 DEF Across
  <2>2. ASSUME NEW Y \in S, Grown(Y, Z, v, k) PROVE InOrder(pd, X, Z)
    BY <1>1, <2>2, GrownOrder DEF Across
  <2> QED
    BY <2>1, <2>2 DEF GrownFrom
<1>2. ASSUME Across(pd, S, U), \A X \in U : Before(X, v, k) PROVE Across(pd, T, U)
  <2> SUFFICES ASSUME NEW X \in U, NEW Z \in T PROVE InOrder(pd, Z, X)
    BY DEF Across
  <2>1. CASE Z \in S
    BY <1>2, <2>1 DEF Across
  <2>2. ASSUME NEW Y \in S, Grown(Y, Z, v, k) PROVE InOrder(pd, Z, X)
    BY <1>2, <2>2, GrownOrder DEF Across
  <2> QED
    BY <2>1, <2>2 DEF GrownFrom
<1> QED
  BY <1>1, <1>2

\* A job that another request shares.
LEMMA JoinIs ==
  ASSUME NEW j \in Job, JobSound(j), NEW k \in Nat
  PROVE  LET h == Join(j, k)
         IN  /\ h \in Job /\ h.vfo = j.vfo /\ h.on = j.on
             /\ JobItem(h).vfo = j.vfo /\ JobItem(h).on = j.on
             /\ JobItem(h).ids = JobItem(j).ids \cup ({k} \ {0})
             /\ ~j.on /\ (k # 0 => k \notin JobItem(j).ids) => JobSound(h)
<1> DEFINE p == j.pends
           q == <<Head(p), k>> \o Tail(p)
           h == Join(j, k)
<1>1. j.vfo \in VFO /\ j.on \in BOOLEAN /\ p \in Seq(Nat)
  BY JobType
<1>2. p # <<>>
  BY DEF JobSound
<1>3. /\ Tail(p) \in Seq(Nat) /\ Head(p) \in Nat /\ Head(p) = p[1]
      /\ Len(p) \in Nat \ {0} /\ Len(Tail(p)) = Len(p) - 1
      /\ \A i \in 1..Len(Tail(p)) : Tail(p)[i] = p[i + 1] /\ i + 1 \in 1..Len(p)
  BY <1>1, <1>2, TailElems
<1>4. /\ q \in Seq(Nat) /\ Len(q) = Len(p) + 1 /\ q[1] = p[1] /\ q[2] = k
      /\ \A i \in 1..Len(q) : i > 2 => q[i] = p[i - 1] /\ i - 1 \in 1..Len(p)
  <2> DEFINE a == Head(p)
             t == Tail(p)
             s == <<a, k>>
  <2> HIDE DEF a, t
  <2>1. s \in Seq(Nat) /\ Len(s) = 2 /\ s[1] = a /\ s[2] = k
    BY <1>3 DEF a
  <2> HIDE DEF s
  <2>2. /\ s \o t \in Seq(Nat) /\ Len(s \o t) = 2 + Len(t)
        /\ \A i \in 1..(2 + Len(t)) : (s \o t)[i] = IF i <= 2 THEN s[i] ELSE t[i - 2]
    <3>1. t \in Seq(Nat)
      BY <1>3 DEF t
    <3>2. /\ s \o t \in Seq(Nat) /\ Len(s \o t) = Len(s) + Len(t)
          /\ \A i \in 1..(Len(s) + Len(t)) :
               (s \o t)[i] = IF i <= Len(s) THEN s[i] ELSE t[i - Len(s)]
      BY <2>1, <3>1, ConcatElems
    <3> QED
      BY <2>1, <3>2
  <2>3. q = s \o t
    BY DEF q, s, a, t
  <2> HIDE DEF q, p
  <2>0. Len(t) = Len(p) - 1 /\ Len(t) \in Nat /\ Len(p) \in Nat
    BY <1>3 DEF t
  <2>4. Len(q) = Len(p) + 1
    BY <2>0, <2>2, <2>3
  <2>5. q[1] = p[1] /\ q[2] = k
    BY <1>3, <2>1, <2>2, <2>3 DEF t, a
  <2>6. ASSUME NEW i \in 1..Len(q), i > 2 PROVE q[i] = p[i - 1] /\ i - 1 \in 1..Len(p)
    <3>0. i \in 1..(2 + Len(t)) /\ ~(i <= 2) /\ i - 2 \in 1..Len(t)
      BY <2>0, <2>4, <2>6
    <3>1. q[i] = t[i - 2] /\ i - 2 \in 1..Len(t)
      BY <2>2, <2>3, <3>0
    <3>2. t[i - 2] = p[(i - 2) + 1] /\ (i - 2) + 1 = i - 1
      BY <1>3, <3>1 DEF t
    <3>3. i - 1 \in 1..Len(p)
      BY <2>0, <2>4, <2>6
    <3> QED
      BY <3>1, <3>2, <3>3
  <2> QED
    BY <2>2, <2>3, <2>4, <2>5, <2>6
<1>5. h = [vfo |-> j.vfo, on |-> j.on, pends |-> q]
  BY DEF Join
<1> HIDE DEF q
<1>6. h \in Job /\ h.vfo = j.vfo /\ h.on = j.on /\ h.pends = q
  BY <1>1, <1>4, <1>5 DEF Job
<1> HIDE DEF h, p
<1>7. Elems(q) = Elems(p) \cup {k}
  <2>1. \A i \in 1..Len(q) : i = 1 \/ i = 2 \/ i > 2
    BY <1>3, <1>4
  <2>2. ASSUME NEW i \in 1..Len(q) PROVE q[i] \in Elems(p) \cup {k}
    <3>1. 1 \in 1..Len(p)
      BY <1>3
    <3>2. p[1] \in Elems(p)
      BY <3>1 DEF Elems
    <3>3. i > 2 => q[i] \in Elems(p)
      BY <1>4 DEF Elems
    <3> QED
      BY <1>4, <2>1, <3>2, <3>3
  <2>3. k \in Elems(q)
    <3>1. 2 \in 1..Len(q)
      BY <1>3, <1>4
    <3> QED
      BY <1>4, <3>1 DEF Elems
  <2>4. ASSUME NEW i \in 1..Len(p) PROVE p[i] \in Elems(q)
    <3>1. CASE i = 1
      <4>1. 1 \in 1..Len(q)
        BY <1>3, <1>4
      <4> QED
        BY <1>4, <3>1, <4>1 DEF Elems
    <3>2. CASE i > 1
      <4>1. i + 1 \in 1..Len(q) /\ i + 1 > 2 /\ (i + 1) - 1 = i
        BY <1>3, <1>4, <3>2
      <4>2. q[i + 1] = p[i]
        BY <1>4, <4>1
      <4> QED
        BY <4>1, <4>2 DEF Elems
    <3> QED
      BY <3>1, <3>2
  <2> QED
    BY <2>2, <2>3, <2>4 DEF Elems
<1>8. /\ JobItem(h).vfo = j.vfo /\ JobItem(h).on = j.on
      /\ JobItem(h).ids = Elems(q) \ {0}
      /\ JobItem(j).ids = Elems(p) \ {0}
  BY <1>6 DEF JobItem, p
<1>9. JobItem(h).ids = JobItem(j).ids \cup ({k} \ {0})
  BY <1>7, <1>8
<1>10. ASSUME ~j.on, k # 0 => k \notin JobItem(j).ids PROVE JobSound(h)
  <2>1. \A a, b \in 1..Len(p) : p[a] = p[b] /\ p[a] # 0 => a = b
    BY DEF JobSound, p
  <2>2. k # 0 => \A a \in 1..Len(p) : p[a] # k
    BY <1>8, <1>10 DEF Elems
  <2>3. ASSUME NEW a \in 1..Len(q), NEW b \in 1..Len(q), q[a] = q[b], q[a] # 0 PROVE a = b
    <3> DEFINE Old(i) == IF i = 1 THEN 1 ELSE i - 1
    <3>1. \A i \in 1..Len(q) : i = 2 \/ (Old(i) \in 1..Len(p) /\ q[i] = p[Old(i)])
      BY <1>3, <1>4, SMTT(30)
    <3>2. CASE a = 2 /\ b # 2
      BY <1>4, <2>2, <2>3, <3>1, <3>2
    <3>3. CASE a # 2 /\ b = 2
      BY <1>4, <2>2, <2>3, <3>1, <3>3
    <3>4. CASE a # 2 /\ b # 2
      <4>1. Old(a) = Old(b)
        BY <2>1, <2>3, <3>1, <3>4
      <4> QED
        BY <1>4, <3>4, <4>1
    <3> QED
      BY <3>2, <3>3, <3>4
  <2>4. Len(q) >= 1
    BY <1>3, <1>4
  <2> QED
    BY <1>6, <1>10, <2>3, <2>4 DEF JobSound
<1> QED
  BY <1>6, <1>8, <1>9, <1>10 DEF h

\* A release of v that answers nobody.
Bare(v) == [vfo |-> v, on |-> FALSE, ids |-> {}]

\* What a release of v with completion k makes of the worker (x, q): running
\* job y and queue R.
Released(pd, v, k, J, D, x, q, y, R) ==
  /\ y \in Job \cup {NoJob} /\ R \in Seq(Job)
  /\ Line(pd, J, D, y, R) /\ WorkerSound(y, R)
  /\ GrownFrom(Items(J, D, x, q) \cup {Bare(v)}, Items(J, D, y, R), v, k)
  /\ \A X \in Items(J, D, x, q) : \E Z \in Items(J, D, y, R) : X.ids \subseteq Z.ids
  /\ k # 0 => \E Z \in Items(J, D, y, R) : k \in Z.ids

\* A release of v with completion k can go to worker (x, q).
Ready(pd, v, k, J, D, x, q) ==
  /\ v \in VFO /\ k \in Nat /\ x \in Job \cup {NoJob} /\ q \in Seq(Job)
  /\ WorkerSound(x, q) /\ Line(pd, J, D, x, q)
  /\ \A X \in Items(J, D, x, q) : Behind(pd, X, v, k)
  /\ \A j \in Elems(q) : ~(j.on /\ j.vfo = v)

\* Queues q and R hold the same operations.
SameOperations(q, R) ==
  /\ Len(R) = Len(q)
  /\ \A i \in 1..Len(q) : R[i].vfo = q[i].vfo /\ R[i].on = q[i].on

\* The release shares the running release.
LEMMA JoinRunningLine ==
  ASSUME NEW pd, NEW v, NEW k, NEW J, NEW D, NEW x, NEW q,
         Ready(pd, v, k, J, D, x, q), x \in Job, ~x.on, x.vfo = v
  PROVE  Released(pd, v, k, J, D, x, q, Join(x, k), q)
<1> DEFINE y == Join(x, k)
           Y == JobItem(x)
           Z == JobItem(y)
<1> USE DEF Ready
<1>1. x # NoJob /\ RunningItems(x) = {Y}
  BY JobType
<1>2. JobSound(x)
  BY <1>1 DEF WorkerSound
<1>3. Y.vfo = x.vfo /\ Y.on = x.on
  BY DEF JobItem
<1>4. Y \in Items(J, D, x, q)
  BY <1>1 DEF Items
<1>5. k # 0 => k \notin Y.ids
  BY <1>4 DEF Behind
<1>6. /\ y \in Job /\ y.vfo = x.vfo /\ y.on = x.on
      /\ Z.vfo = x.vfo /\ Z.on = x.on /\ Z.ids = Y.ids \cup ({k} \ {0})
      /\ JobSound(y)
  BY <1>2, <1>5, JoinIs
<1>7. y # NoJob /\ RunningItems(y) = {Z}
  BY <1>6, JobType
<1> HIDE DEF y, Y, Z
<1>8. Grown(Y, Z, v, k)
  BY <1>3, <1>6, JobType DEF Grown
<1>9. GrownFrom({Y}, {Z}, v, k)
  BY <1>8 DEF GrownFrom
<1>10. /\ \A X \in ResultItems(J) : Behind(pd, X, v, k)
       /\ \A X \in ResultItems(D) : Behind(pd, X, v, k)
       /\ \A X \in JobItems(q) : Behind(pd, X, v, k)
  BY DEF Items
<1>11. \A X \in JobItems(q) : Before(X, v, k)
  <2>1. \A X \in JobItems(q) : ~(X.on /\ X.vfo = v)
    BY DEF JobItems, JobItem
  <2> QED
    BY <1>10, <2>1 DEF Before, Behind
<1>12. /\ Across(pd, ResultItems(J), {Y}) /\ Across(pd, ResultItems(D), {Y})
       /\ Across(pd, {Y}, JobItems(q))
  BY <1>1 DEF Line
<1>13. /\ Across(pd, ResultItems(J), {Z}) /\ Across(pd, ResultItems(D), {Z})
       /\ Across(pd, {Z}, JobItems(q))
  BY <1>9, <1>10, <1>11, <1>12, GrownAcross
<1>14. Line(pd, J, D, y, q)
  BY <1>7, <1>13 DEF Line
<1>15. WorkerSound(y, q)
  BY <1>1, <1>6 DEF WorkerSound, OneRelease
<1>16. /\ Items(J, D, x, q) = ResultItems(J) \cup ResultItems(D) \cup {Y} \cup JobItems(q)
       /\ Items(J, D, y, q) = ResultItems(J) \cup ResultItems(D) \cup {Z} \cup JobItems(q)
  BY <1>1, <1>7 DEF Items
<1>17. GrownFrom(Items(J, D, x, q) \cup {Bare(v)}, Items(J, D, y, q), v, k)
  BY <1>8, <1>16 DEF GrownFrom
<1>18. \A X \in Items(J, D, x, q) : \E W \in Items(J, D, y, q) : X.ids \subseteq W.ids
  BY <1>6, <1>16
<1>19. k # 0 => \E W \in Items(J, D, y, q) : k \in W.ids
  BY <1>6, <1>16
<1> QED
  BY <1>6, <1>14, <1>15, <1>17, <1>18, <1>19 DEF Released, y

\* The release shares a release in the queue.
LEMMA JoinQueueLine ==
  ASSUME NEW pd, NEW v, NEW k, NEW J, NEW D, NEW x, NEW q,
         Ready(pd, v, k, J, D, x, q), ~IsReleaseOf(x, v),
         NEW n \in 1..Len(q), ~q[n].on, q[n].vfo = v
  PROVE  /\ Released(pd, v, k, J, D, x, q, x, JoinIn(q, v, k))
         /\ SameOperations(q, JoinIn(q, v, k))
<1> DEFINE R == JoinIn(q, v, k)
           h == Join(q[n], k)
           Y == JobItem(q[n])
           Z == JobItem(h)
<1> USE DEF Ready
<1>1. /\ q[n] \in Job /\ Len(q) \in Nat /\ q[n] \in Elems(q)
      /\ \A i \in 1..Len(q) : q[i] \in Job /\ q[i] \in Elems(q)
  BY DEF Elems
<1>2. \A i \in 1..Len(q) : IsReleaseOf(q[i], v) <=> i = n
  <2>1. \A i \in 1..Len(q) : q[i] # NoJob
    BY <1>1, JobType
  <2>2. \A i, j \in 1..Len(q) : ~q[i].on /\ ~q[j].on /\ q[i].vfo = q[j].vfo => i = j
    BY DEF WorkerSound, OneRelease
  <2> QED
    BY <2>1, <2>2 DEF IsReleaseOf
<1>3. JobSound(q[n])
  BY <1>1 DEF WorkerSound
<1>4. Y.vfo = q[n].vfo /\ Y.on = q[n].on
  BY DEF JobItem
<1>5. \A i \in 1..Len(q) : JobItem(q[i]) \in JobItems(q)
  BY <1>1 DEF JobItems
<1>6. JobItems(q) \subseteq Items(J, D, x, q)
  BY DEF Items
<1>7. k # 0 => k \notin Y.ids
  BY <1>5, <1>6 DEF Behind
<1>8. /\ h \in Job /\ h.vfo = q[n].vfo /\ h.on = q[n].on
      /\ Z.vfo = q[n].vfo /\ Z.on = q[n].on /\ Z.ids = Y.ids \cup ({k} \ {0})
      /\ JobSound(h)
  BY <1>1, <1>3, <1>7, JoinIs
<1>9. R = [i \in 1..Len(q) |-> IF IsReleaseOf(q[i], v) THEN Join(q[i], k) ELSE q[i]]
  BY DEF JoinIn
<1>10. R = [i \in 1..Len(q) |-> IF i = n THEN h ELSE q[i]]
  BY <1>2, <1>9
<1> HIDE DEF R, h, Y, Z
<1>11. /\ R \in Seq(Job) /\ Len(R) = Len(q)
       /\ \A i \in 1..Len(q) : R[i] = IF i = n THEN h ELSE q[i]
  BY <1>1, <1>8, <1>10
<1>12. \A i \in 1..Len(q) : R[i].vfo = q[i].vfo /\ R[i].on = q[i].on
  BY <1>8, <1>11
<1>13. Grown(Y, Z, v, k)
  BY <1>1, <1>4, <1>8, JobType DEF Grown
<1>14. GrownFrom(JobItems(q), JobItems(R), v, k)
  <2> SUFFICES ASSUME NEW i \in 1..Len(R)
               PROVE  JobItem(R[i]) \in JobItems(q) \/ \E W \in JobItems(q) : Grown(W, JobItem(R[i]), v, k)
    BY DEF GrownFrom, JobItems, Elems
  <2>1. CASE i = n
    BY <1>5, <1>11, <1>13, <2>1 DEF Y, Z
  <2>2. CASE i # n
    BY <1>5, <1>11, <2>2
  <2> QED
    BY <2>1, <2>2
<1>15. \A X \in JobItems(q) : ~(X.on /\ X.vfo = v)
  BY DEF JobItems, JobItem
<1>16. JobsInOrder(pd, R)
  <2> SUFFICES ASSUME NEW a \in 1..Len(q), NEW b \in 1..Len(q), a < b
               PROVE  InOrder(pd, JobItem(R[a]), JobItem(R[b]))
    BY <1>11 DEF JobsInOrder
  <2>1. InOrder(pd, JobItem(q[a]), JobItem(q[b]))
    BY DEF Line, JobsInOrder
  <2>2. CASE a = n
    <3>1. R[a] = h /\ R[b] = q[b]
      BY <1>11, <2>2
    <3>2. Before(JobItem(q[b]), v, k)
      BY <1>5, <1>6, <1>15 DEF Before, Behind
    <3> QED
      BY <1>13, <2>1, <2>2, <3>1, <3>2, GrownOrder DEF Y, Z
  <2>3. CASE b = n
    <3>1. R[b] = h /\ R[a] = q[a]
      BY <1>11, <2>3
    <3>2. Behind(pd, JobItem(q[a]), v, k)
      BY <1>5, <1>6
    <3> QED
      BY <1>13, <2>1, <2>3, <3>1, <3>2, GrownOrder DEF Y, Z
  <2>4. CASE a # n /\ b # n
    BY <1>11, <2>1, <2>4
  <2> QED
    BY <2>2, <2>3, <2>4
<1>17. /\ \A X \in ResultItems(J) : Behind(pd, X, v, k)
       /\ \A X \in ResultItems(D) : Behind(pd, X, v, k)
       /\ \A X \in RunningItems(x) : Behind(pd, X, v, k)
  BY DEF Items
<1>18. /\ Across(pd, ResultItems(J), JobItems(R)) /\ Across(pd, ResultItems(D), JobItems(R))
       /\ Across(pd, RunningItems(x), JobItems(R))
  BY <1>14, <1>17, GrownAcross DEF Line
<1>19. Line(pd, J, D, x, R)
  BY <1>16, <1>18 DEF Line
<1>20. WorkerSound(x, R)
  <2>1. OneRelease(x, R)
    BY <1>11, <1>12 DEF WorkerSound, OneRelease
  <2>2. \A i \in 1..Len(R) : JobSound(R[i])
    BY <1>1, <1>8, <1>11 DEF WorkerSound
  <2> QED
    BY <2>1, <2>2 DEF WorkerSound, Elems
<1>21. GrownFrom(Items(J, D, x, q) \cup {Bare(v)}, Items(J, D, x, R), v, k)
  BY <1>14 DEF GrownFrom, Items
<1>22. /\ \A X \in Items(J, D, x, q) : \E W \in Items(J, D, x, R) : X.ids \subseteq W.ids
       /\ k # 0 => \E W \in Items(J, D, x, R) : k \in W.ids
  <2>1. JobItems(R) \subseteq Items(J, D, x, R)
    BY DEF Items
  <2>2. \A i \in 1..Len(q) : JobItem(R[i]) \in JobItems(R)
    BY <1>11 DEF JobItems, Elems
  <2>3. \A i \in 1..Len(q) : JobItem(q[i]).ids \subseteq JobItem(R[i]).ids
    BY <1>8, <1>11 DEF Y, Z
  <2>4. \A X \in JobItems(q) : \E W \in JobItems(R) : X.ids \subseteq W.ids
    BY <2>2, <2>3 DEF JobItems, Elems
  <2>5. k # 0 => k \in JobItem(R[n]).ids
    BY <1>8, <1>11 DEF Z
  <2> QED
    BY <2>1, <2>2, <2>4, <2>5 DEF Items
<1> QED
  BY <1>11, <1>12, <1>19, <1>20, <1>21, <1>22 DEF Released, SameOperations, R

\* The release goes to the front of the queue.
LEMMA PushLine ==
  ASSUME NEW pd, NEW v, NEW k, NEW J, NEW D, NEW x, NEW q,
         Ready(pd, v, k, J, D, x, q), ~IsReleaseOf(x, v),
         \A i \in 1..Len(q) : ~IsReleaseOf(q[i], v)
  PROVE  /\ Released(pd, v, k, J, D, x, q, x, Pushed(q, v, k))
         /\ Elems(Pushed(q, v, k)) = Elems(q) \cup {NewRelease(v, k)}
         /\ IsReleaseOf(NewRelease(v, k), v)
<1> DEFINE h == NewRelease(v, k)
           R == <<h>> \o q
           Z == JobItem(h)
<1> USE DEF Ready
<1>19. h \in Job /\ h.vfo = v /\ h.on = FALSE /\ h.pends = <<k>>
  BY DEF Job, NewRelease
<1>20. IsReleaseOf(h, v)
  BY <1>19, JobType DEF IsReleaseOf
<1> HIDE DEF h
<1>1. /\ R \in Seq(Job) /\ Len(R) = Len(q) + 1 /\ Len(q) \in Nat
      /\ R[1] = h /\ 1 \in 1..Len(R)
      /\ \A i \in 1..Len(R) : i = 1 \/ (i - 1 \in 1..Len(q) /\ R[i] = q[i - 1])
      /\ Elems(R) = Elems(q) \cup {h}
  BY <1>19, PushElems
<1>2. Elems(h.pends) = {k} /\ Len(h.pends) = 1 /\ h.pends[1] = k
  BY <1>19 DEF Elems
<1>3. Z.vfo = v /\ Z.on = FALSE /\ Z.ids = {k} \ {0}
  BY <1>2, <1>19 DEF JobItem
<1>4. Bare(v).vfo = v /\ Bare(v).on = FALSE /\ Bare(v).ids = {}
  BY DEF Bare
<1> HIDE DEF R, Z
<1>5. Grown(Bare(v), Z, v, k)
  BY <1>3, <1>4 DEF Grown
<1>6. JobItems(R) = JobItems(q) \cup {Z}
  BY <1>1 DEF JobItems, Z
<1>7. \A X : InOrder(pd, X, Bare(v)) /\ InOrder(pd, Bare(v), X)
  BY <1>4 DEF InOrder
<1>8. \A X \in JobItems(q) : Before(X, v, k)
  <2>1. \A X \in JobItems(q) : ~(X.on /\ X.vfo = v)
    BY DEF JobItems, JobItem
  <2> QED
    BY <2>1 DEF Before, Behind, Items
<1>9. \A X \in Items(J, D, x, q) : InOrder(pd, X, Z)
  BY <1>5, <1>7, GrownOrder
<1>10. \A X \in JobItems(q) : InOrder(pd, Z, X)
  BY <1>5, <1>7, <1>8, GrownOrder
<1>11. JobsInOrder(pd, R)
  <2> SUFFICES ASSUME NEW a \in 1..Len(R), NEW b \in 1..Len(R), a < b
               PROVE  InOrder(pd, JobItem(R[a]), JobItem(R[b]))
    BY DEF JobsInOrder
  <2>1. b - 1 \in 1..Len(q) /\ R[b] = q[b - 1]
    BY <1>1
  <2>2. CASE a = 1
    <3>1. JobItem(R[b]) \in JobItems(q)
      BY <2>1 DEF JobItems, Elems
    <3> QED
      BY <1>1, <1>10, <2>2, <3>1 DEF Z
  <2>3. CASE a # 1
    <3>1. a - 1 \in 1..Len(q) /\ R[a] = q[a - 1] /\ a - 1 < b - 1
      BY <1>1, <2>3
    <3> QED
      BY <2>1, <3>1 DEF Line, JobsInOrder
  <2> QED
    BY <2>2, <2>3
<1>12. /\ Across(pd, ResultItems(J), {Z}) /\ Across(pd, ResultItems(D), {Z})
       /\ Across(pd, RunningItems(x), {Z})
  BY <1>9 DEF Across, Items
<1>13. Line(pd, J, D, x, R)
  BY <1>6, <1>11, <1>12, AcrossParts DEF Line
<1>14. JobSound(h)
  BY <1>2, <1>19 DEF JobSound
<1>15. WorkerSound(x, R)
  <2>0. \A i \in 1..Len(q) : q[i] # NoJob
    BY JobType
  <2>1. \A i \in 1..Len(q) : q[i].on \/ q[i].vfo # v
    BY <2>0 DEF IsReleaseOf
  <2>2. x # NoJob /\ ~x.on => x.vfo # v
    BY DEF IsReleaseOf
  <2>3. ASSUME NEW i \in 1..Len(R), NEW j \in 1..Len(R), ~R[i].on, ~R[j].on, R[i].vfo = R[j].vfo
        PROVE  i = j
    <3>1. CASE i = 1 /\ j # 1
      BY <1>1, <1>19, <2>1, <2>3, <3>1
    <3>2. CASE i # 1 /\ j = 1
      BY <1>1, <1>19, <2>1, <2>3, <3>2
    <3>3. CASE i # 1 /\ j # 1
      <4>1. /\ i - 1 \in 1..Len(q) /\ R[i] = q[i - 1]
            /\ j - 1 \in 1..Len(q) /\ R[j] = q[j - 1]
        BY <1>1, <3>3
      <4>2. i - 1 = j - 1
        BY <2>3, <4>1 DEF WorkerSound, OneRelease
      <4> QED
        BY <1>1, <4>2
    <3> QED
      BY <3>1, <3>2, <3>3
  <2>4. x # NoJob /\ ~x.on => \A i \in 1..Len(R) : ~R[i].on => R[i].vfo # x.vfo
    BY <1>1, <1>19, <2>2, ZenonT(60) DEF WorkerSound, OneRelease
  <2>5. OneRelease(x, R)
    BY <2>3, <2>4 DEF OneRelease
  <2> QED
    BY <1>1, <1>14, <2>5 DEF WorkerSound
<1>16. Items(J, D, x, R) = Items(J, D, x, q) \cup {Z}
  BY <1>6 DEF Items
<1>17. GrownFrom(Items(J, D, x, q) \cup {Bare(v)}, Items(J, D, x, R), v, k)
  BY <1>5, <1>16 DEF GrownFrom
<1>18. /\ \A X \in Items(J, D, x, q) : \E W \in Items(J, D, x, R) : X.ids \subseteq W.ids
       /\ k # 0 => \E W \in Items(J, D, x, R) : k \in W.ids
  BY <1>3, <1>16
<1> QED
  BY <1>1, <1>13, <1>15, <1>17, <1>18, <1>20 DEF Released, Pushed, R, h

\* What is with the worker after a release of v: that release, and every
\* release that was there before; a key-down that was running still is.
Kept(x, Q, y, R, v) ==
  /\ \E j \in Elems(R) \cup {y} : IsReleaseOf(j, v)
  /\ \A w : IsReleaseOf(x, w) => IsReleaseOf(y, w)
  /\ \A w : (\E j \in Elems(Q) : IsReleaseOf(j, w)) => \E j \in Elems(R) : IsReleaseOf(j, w)
  /\ y # NoJob /\ y.on => y = x /\ ((x.vfo = v) => \E j \in Elems(R) : IsReleaseOf(j, v))

\* The release goes to the worker once the key-downs of v have been cancelled.
LEMMA QueueAfterIs ==
  ASSUME NEW pd, NEW v, NEW k, NEW J, NEW D, NEW x, NEW q, Ready(pd, v, k, J, D, x, q)
  PROVE  /\ Released(pd, v, k, J, D, x, q, RunningAfter(x, v, k), QueueAfter(x, q, v, k))
         /\ Kept(x, q, RunningAfter(x, v, k), QueueAfter(x, q, v, k), v)
<1> DEFINE y == RunningAfter(x, v, k)
           R == QueueAfter(x, q, v, k)
<1>0. \A j \in Job : j # NoJob
  BY JobType
<1>4. v \in VFO /\ k \in Nat /\ x \in Job \cup {NoJob} /\ q \in Seq(Job)
  BY DEF Ready
<1>1. CASE IsReleaseOf(x, v)
  <2>1. x \in Job /\ ~x.on /\ x.vfo = v /\ x # NoJob
    BY <1>1, <1>4 DEF IsReleaseOf
  <2>2. JobSound(x)
    BY <2>1 DEF Ready, WorkerSound
  <2>3. Join(x, k) \in Job /\ Join(x, k).vfo = x.vfo /\ Join(x, k).on = x.on
    BY <1>4, <2>1, <2>2, JoinIs
  <2>4. y = Join(x, k) /\ R = q
    BY <1>1 DEF RunningAfter, QueueAfter
  <2> HIDE DEF y, R
  <2>5. Released(pd, v, k, J, D, x, q, y, R)
    BY <2>1, <2>4, JoinRunningLine
  <2>6. y # NoJob /\ y.vfo = x.vfo /\ y.on = x.on
    BY <1>0, <2>3, <2>4
  <2>7. Kept(x, q, y, R, v)
    BY <2>1, <2>4, <2>6 DEF Kept, IsReleaseOf
  <2> QED
    BY <2>5, <2>7 DEF y, R
<1>2. CASE ~IsReleaseOf(x, v) /\ \E i \in 1..Len(q) : IsReleaseOf(q[i], v)
  <2>1. PICK n \in 1..Len(q) : IsReleaseOf(q[n], v)
    BY <1>2
  <2>2. ~q[n].on /\ q[n].vfo = v
    BY <2>1 DEF IsReleaseOf
  <2>3. y = x /\ R = JoinIn(q, v, k)
    BY <1>2 DEF RunningAfter, QueueAfter
  <2> HIDE DEF y, R
  <2>4. /\ Released(pd, v, k, J, D, x, q, y, R) /\ Len(R) = Len(q)
        /\ \A i \in 1..Len(q) : R[i].vfo = q[i].vfo /\ R[i].on = q[i].on
    <3>1. /\ Released(pd, v, k, J, D, x, q, x, JoinIn(q, v, k))
          /\ SameOperations(q, JoinIn(q, v, k))
      BY <1>2, <2>2, JoinQueueLine, Zenon
    <3> QED
      BY <2>3, <3>1 DEF SameOperations
  <2>5. \A i \in 1..Len(q) : R[i] \in Job /\ R[i] \in Elems(R)
    BY <2>4 DEF Released, Elems
  <2>6. \A i \in 1..Len(q) : \A w : IsReleaseOf(q[i], w) => IsReleaseOf(R[i], w)
    BY <1>0, <2>4, <2>5 DEF IsReleaseOf
  <2>7. \A w : (\E j \in Elems(q) : IsReleaseOf(j, w)) => \E j \in Elems(R) : IsReleaseOf(j, w)
    BY <2>5, <2>6 DEF Elems
  <2>8. \E j \in Elems(R) : IsReleaseOf(j, v)
    BY <2>1, <2>5, <2>6
  <2>9. Kept(x, q, y, R, v)
    BY <2>3, <2>7, <2>8 DEF Kept
  <2> QED
    BY <2>4, <2>9 DEF y, R
<1>3. CASE ~IsReleaseOf(x, v) /\ ~\E i \in 1..Len(q) : IsReleaseOf(q[i], v)
  <2>1. \A i \in 1..Len(q) : ~IsReleaseOf(q[i], v)
    BY <1>3
  <2>2. y = x /\ R = Pushed(q, v, k)
    BY <1>3 DEF RunningAfter, QueueAfter
  <2> HIDE DEF y, R
  <2>3. /\ Released(pd, v, k, J, D, x, q, x, Pushed(q, v, k))
        /\ Elems(Pushed(q, v, k)) = Elems(q) \cup {NewRelease(v, k)}
        /\ IsReleaseOf(NewRelease(v, k), v)
    BY <1>3, <2>1, PushLine, Zenon
  <2>4. Released(pd, v, k, J, D, x, q, y, R) /\ Elems(R) = Elems(q) \cup {NewRelease(v, k)}
    BY <2>2, <2>3
  <2>5. Kept(x, q, y, R, v)
    BY <2>2, <2>3, <2>4 DEF Kept
  <2> QED
    BY <2>4, <2>5 DEF y, R
<1> QED
  BY <1>1, <1>2, <1>3

\* A release of v with completion k can be submitted to the worker of rig r:
\* its request, if there is one, is pending and overtakes the key-downs of v.
\* A release without a completion shares no release that has one.
ReleaseFits(pd, r, v, k, J, D, x, Q) ==
  /\ r \in Rigs /\ v \in VFO /\ k \in Nat
  /\ D \in Seq(Result) /\ x \in Job \cup {NoJob} /\ Q \in Seq(Job)
  /\ Line(pd, J, D, x, Q) /\ Matched(pd, r, Items(J, D, x, Q)) /\ WorkerSound(x, Q)
  /\ \A y \in Elems(D) : y.rig = r
  /\ \A X \in Items(J, D, x, Q) : Behind(pd, X, v, k)
  /\ k # 0 => \E p \in Elems(pd) : p.id = k /\ p.rig = r /\ p.vfo = v /\ p.on = FALSE
  /\ k = 0 => \A X \in RunningItems(x) \cup JobItems(Q) : ~X.on /\ X.vfo = v => X.ids = {}

\* What the submission makes of (D, x, Q).
AfterRelease(pd, r, v, k, J, D, x, Q, E, y, R) ==
  /\ E \in Seq(Result) /\ y \in Job \cup {NoJob} /\ R \in Seq(Job)
  /\ Line(pd, J, E, y, R) /\ Matched(pd, r, Items(J, E, y, R)) /\ WorkerSound(y, R)
  /\ \A z \in Elems(E) : z.rig = r
  /\ \A X \in Items(J, D, x, Q) : \A m \in X.ids : \E Z \in Items(J, E, y, R) : m \in Z.ids
  /\ k # 0 => \E Z \in Items(J, E, y, R) : k \in Z.ids
  /\ Kept(x, Q, y, R, v) /\ Elems(D) \subseteq Elems(E)

\* The line of a rig once a release has been submitted to its worker.
LEMMA ReleaseSound ==
  ASSUME NEW pd, NEW r, NEW v, NEW k, NEW J, NEW D, NEW x, NEW Q,
         ReleaseFits(pd, r, v, k, J, D, x, Q)
  PROVE  AfterRelease(pd, r, v, k, J, D, x, Q,
                      D \o Cancelled(r, Q, v), RunningAfter(x, v, k),
                      QueueAfter(x, Without(Q, Cut(Q, v)), v, k))
<1> DEFINE E == D \o Cancelled(r, Q, v)
           q == Without(Q, Cut(Q, v))
           y == RunningAfter(x, v, k)
           R == QueueAfter(x, q, v, k)
           S == Items(J, D, x, Q)
           T == Items(J, E, y, R)
<1>1. /\ r \in Rigs /\ v \in VFO /\ k \in Nat
      /\ D \in Seq(Result) /\ x \in Job \cup {NoJob} /\ Q \in Seq(Job)
      /\ Line(pd, J, D, x, Q) /\ Matched(pd, r, S) /\ WorkerSound(x, Q)
      /\ \A z \in Elems(D) : z.rig = r
      /\ \A X \in S : Behind(pd, X, v, k)
  BY DEF ReleaseFits
<1>2. \A j \in Elems(Q) : JobSound(j)
  BY <1>1 DEF WorkerSound
<1>3. \/ \A X \in JobItems(Q) : X.on /\ X.vfo = v => \A m \in X.ids : Overtaken(pd, m)
      \/ \A X \in RunningItems(x) \cup JobItems(Q) : ~X.on /\ X.vfo = v => X.ids = {}
  <2>1. CASE k = 0
    BY <2>1 DEF ReleaseFits
  <2>2. CASE k # 0
    BY <1>1, <2>2 DEF Behind, Items
  <2> QED
    BY <2>1, <2>2
<1>4. /\ Line(pd, J, E, x, q)
      /\ Items(J, E, x, q) = S
      /\ E \in Seq(Result) /\ q \in Seq(Job)
      /\ Elems(q) = Elems(Q) \ Cut(Q, v)
      /\ Elems(D) \subseteq Elems(E)
      /\ \A z \in Elems(E) : z.rig = r
  <2>1. CancelFits(pd, r, v, J, D, x, Q)
    BY <1>1, <1>2, <1>3 DEF CancelFits
  <2>2. AfterCancel(pd, r, v, J, D, x, Q, E, q)
    BY <2>1, CancelLine, Zenon
  <2> HIDE DEF E, q
  <2> QED
    BY <1>1, <2>2 DEF AfterCancel
<1>5. WorkerSound(x, q)
  <2>1. \A a, b \in 1..Len(q) : a < b =>
          \E i, j \in 1..Len(Q) : /\ i < j /\ q[a] = Q[i] /\ q[b] = Q[j]
                                  /\ Q[i] \notin Cut(Q, v) /\ Q[j] \notin Cut(Q, v)
    <3>1. Q \in Seq(Job)
      BY <1>1
    <3> QED
      BY <3>1, WithoutOrder
  <2>2. \A a \in 1..Len(q) : \E i \in 1..Len(Q) : q[a] = Q[i]
    BY <1>4 DEF Elems
  <2> HIDE DEF q
  <2>3. /\ \A i, j \in 1..Len(Q) : ~Q[i].on /\ ~Q[j].on /\ Q[i].vfo = Q[j].vfo => i = j
        /\ x # NoJob /\ ~x.on => \A i \in 1..Len(Q) : ~Q[i].on => Q[i].vfo # x.vfo
        /\ x # NoJob => JobSound(x)
    BY <1>1 DEF WorkerSound, OneRelease
  <2>4. ASSUME NEW a \in 1..Len(q), NEW b \in 1..Len(q), a < b, ~q[a].on, ~q[b].on
        PROVE  q[a].vfo # q[b].vfo
    <3>1. PICK i, j \in 1..Len(Q) : i < j /\ q[a] = Q[i] /\ q[b] = Q[j]
      BY <2>1, <2>4
    <3> QED
      BY <2>3, <2>4, <3>1
  <2>5. ASSUME NEW a \in 1..Len(q), NEW b \in 1..Len(q), ~q[a].on, ~q[b].on,
               q[a].vfo = q[b].vfo
        PROVE  a = b
    <3>1. Len(q) \in Nat
      BY <1>4
    <3>2. a < b \/ b < a \/ a = b
      BY <3>1
    <3> QED
      BY <2>4, <2>5, <3>2
  <2>6. x # NoJob /\ ~x.on => \A a \in 1..Len(q) : ~q[a].on => q[a].vfo # x.vfo
    BY <2>2, <2>3
  <2>7. \A j \in Elems(q) : JobSound(j)
    BY <1>2, <1>4
  <2> QED
    BY <2>3, <2>5, <2>6, <2>7 DEF WorkerSound, OneRelease
<1>6. \A j \in Elems(q) : ~(j.on /\ j.vfo = v)
  BY <1>4 DEF Cut
<1> HIDE DEF E, q
<1>7. Ready(pd, v, k, J, E, x, q)
  BY <1>1, <1>4, <1>5, <1>6 DEF Ready
<1>8. Released(pd, v, k, J, E, x, q, y, R) /\ Kept(x, q, y, R, v)
  BY <1>7, QueueAfterIs, Zenon
<1> HIDE DEF y, R, S, T
<1>9. Kept(x, Q, y, R, v)
  <2>1. \A j \in Elems(Q) : \A w : IsReleaseOf(j, w) => j \in Elems(q)
    BY <1>4 DEF IsReleaseOf, Cut
  <2> QED
    BY <1>8, <2>1 DEF Kept
<1>10. GrownFrom(S \cup {Bare(v)}, T, v, k)
  BY <1>4, <1>8 DEF Released, T
<1>11. Matched(pd, r, T)
  <2> SUFFICES ASSUME NEW Z \in T, NEW m \in Z.ids
               PROVE  \E p \in Elems(pd) : p.id = m /\ p.rig = r /\ p.vfo = Z.vfo /\ p.on = Z.on
    BY DEF Matched
  <2>1. CASE Z \in S
    BY <1>1, <2>1 DEF Matched
  <2>2. CASE Z = Bare(v)
    BY <2>2 DEF Bare
  <2>3. ASSUME NEW Y \in S \cup {Bare(v)}, Grown(Y, Z, v, k)
        PROVE  \E p \in Elems(pd) : p.id = m /\ p.rig = r /\ p.vfo = Z.vfo /\ p.on = Z.on
    <3>1. Z.vfo = Y.vfo /\ Z.on = Y.on /\ Z.vfo = v /\ Z.on = FALSE
      BY <2>3 DEF Grown
    <3>2. CASE m = k /\ k # 0
      BY <3>1, <3>2 DEF ReleaseFits
    <3>3. CASE m \in Y.ids
      <4>1. Bare(v).ids = {}
        BY DEF Bare
      <4>2. Y \in S
        BY <3>3, <4>1
      <4> QED
        <5>1. Matched(pd, r, S)
          BY <1>1
        <5>2. PICK p \in Elems(pd) : p.id = m /\ p.rig = r /\ p.vfo = Y.vfo /\ p.on = Y.on
          BY <3>3, <4>2, <5>1 DEF Matched
        <5> QED
          BY <3>1, <5>2
    <3> QED
      BY <2>3, <3>2, <3>3 DEF Grown
  <2> QED
    BY <1>10, <2>1, <2>2, <2>3 DEF GrownFrom
<1>12. /\ \A X \in S : \A m \in X.ids : \E Z \in T : m \in Z.ids
       /\ k # 0 => \E Z \in T : k \in Z.ids
  BY <1>4, <1>8 DEF Released, T
<1>13. y \in Job \cup {NoJob} /\ R \in Seq(Job) /\ Line(pd, J, E, y, R) /\ WorkerSound(y, R)
  BY <1>8 DEF Released
<1>14. AfterRelease(pd, r, v, k, J, D, x, Q, E, y, R)
  BY <1>4, <1>9, <1>11, <1>12, <1>13 DEF AfterRelease, S, T
<1> QED
  BY <1>14 DEF E, y, R, q

----------------------------------------------------------------------------
(* The newest request *)

\* One of the items S answers request m, a release of v of r, and m is newer
\* than every key-down of it.
AnsweredBy(pd, r, v, S, m) ==
  /\ \E Y \in S : m \in Y.ids /\ Y.vfo = v /\ Y.on = FALSE
  /\ \A p \in Elems(pd) : p.rig = r /\ p.vfo = v /\ p.on => Newer(pd, m, p.id)

\* A release that is the newest request of its VFO is in the line.
LEMMA NewestCarried ==
  ASSUME NEW pd \in Seq(Pending), Unique(pd), NEW r, NEW v, ReleaseNewest(pd, r, v),
         NEW J, NEW D, NEW x, NEW Q, RigSound(pd, r, J, D, x, Q)
  PROVE  \E m : AnsweredBy(pd, r, v, Items(J, D, x, Q), m)
<1>1. PICK i \in 1..Len(pd) :
        /\ pd[i].rig = r /\ pd[i].vfo = v /\ ~pd[i].on
        /\ \A k \in 1..(i - 1) : ~(pd[k].rig = r /\ pd[k].vfo = v)
  BY DEF ReleaseNewest
<1>2. pd[i] \in Elems(pd) /\ pd[i].on \in BOOLEAN
  <2>1. pd[i] \in Pending
    OBVIOUS
  <2> QED
    BY <2>1 DEF Elems, Pending
<1>3. PICK Y \in Items(J, D, x, Q) : pd[i].id \in Y.ids
  BY <1>1, <1>2 DEF RigSound, Carried
<1>4. PICK p \in Elems(pd) : p.id = pd[i].id /\ p.vfo = Y.vfo /\ p.on = Y.on
  BY <1>3 DEF RigSound, Matched
<1>5. p = pd[i]
  BY <1>4 DEF Elems, Unique
<1>6. Y.vfo = v /\ Y.on = FALSE
  BY <1>1, <1>2, <1>4, <1>5
<1>7. ASSUME NEW e \in 1..Len(pd), pd[e].rig = r, pd[e].vfo = v, pd[e].on
      PROVE  Newer(pd, pd[i].id, pd[e].id)
  <2>1. e \notin 1..(i - 1) /\ e # i
    BY <1>1, <1>7
  <2>2. i < e
    BY <2>1
  <2> QED
    BY <2>2 DEF Newer
<1>8. \A z \in Elems(pd) : z.rig = r /\ z.vfo = v /\ z.on => Newer(pd, pd[i].id, z.id)
  BY <1>7 DEF Elems
<1> QED
  BY <1>3, <1>6, <1>8 DEF AnsweredBy

\* Some item of S is a release of v.
HoldsRelease(S, v) == \E Y \in S : Y.on = FALSE /\ Y.vfo = v

\* The worker executes key-down x of v.
Keys(x, v) == x \in Job /\ x.on /\ x.vfo = v

\* It is behind every key-down of its VFO that the worker has.
LEMMA NewestBehind ==
  ASSUME NEW pd \in Seq(Pending), Unique(pd), NEW r, NEW v, ReleaseNewest(pd, r, v),
         NEW J, NEW D, NEW x, NEW Q, RigSound(pd, r, J, D, x, Q), Keys(x, v)
  PROVE  HoldsRelease(JobItems(Q), v)
<1> x \in Job /\ x.on /\ x.vfo = v
  BY DEF Keys
<1>0. PICK m : AnsweredBy(pd, r, v, Items(J, D, x, Q), m)
  BY NewestCarried
<1>1. /\ \E Y \in Items(J, D, x, Q) : m \in Y.ids /\ Y.vfo = v /\ Y.on = FALSE
      /\ \A p \in Elems(pd) : p.rig = r /\ p.vfo = v /\ p.on => Newer(pd, m, p.id)
  BY <1>0 DEF AnsweredBy
<1>2. PICK Y \in Items(J, D, x, Q) : m \in Y.ids /\ Y.vfo = v /\ Y.on = FALSE
  BY <1>1
<1> DEFINE X == JobItem(x)
<1>3. x # NoJob /\ RunningItems(x) = {X} /\ x.on = TRUE
  <2>1. x # NoJob /\ x.on \in BOOLEAN /\ RunningItems(x) = {X}
    BY JobType
  <2> QED
    BY <2>1
<1>4. X.vfo = v /\ X.on = TRUE /\ X.ids = Elems(x.pends) \ {0}
  BY <1>3 DEF JobItem
<1>5. x.pends[1] \in X.ids
  <2>1. JobSound(x)
    BY <1>3 DEF RigSound, WorkerSound
  <2>2. 1 \in 1..Len(x.pends) /\ x.pends[1] # 0
    BY <2>1 DEF JobSound
  <2> QED
    BY <1>4, <2>2 DEF Elems
<1> DEFINE k == x.pends[1]
<1> HIDE DEF X, k
<1>6. X \in Items(J, D, x, Q) /\ k \in X.ids
  BY <1>3, <1>5 DEF Items, k
<1>7. PICK p \in Elems(pd) : p.id = k /\ p.rig = r /\ p.vfo = v /\ p.on = TRUE
  BY <1>4, <1>6 DEF RigSound, Matched
<1>8. Newer(pd, m, k)
  BY <1>1, <1>7
<1>9. ~Newer(pd, k, m)
  BY <1>8, NewerAsymmetric
<1>10. Y \notin ResultItems(J) /\ Y \notin ResultItems(D)
  <2>1. ~InOrder(pd, Y, X)
    BY <1>2, <1>4, <1>6, <1>9 DEF InOrder
  <2> QED
    BY <1>3, <2>1 DEF RigSound, Line, Across
<1>11. Y # X
  BY <1>2, <1>4
<1> QED
  BY <1>2, <1>3, <1>10, <1>11 DEF Items, HoldsRelease

\* When the result of a key-down is replayed whose request was not superseded,
\* no release of its VFO behind it answers anybody.
LEMMA NoneBehind ==
  ASSUME NEW pd \in Seq(Pending), Unique(pd), OvertakenSuperseded(pd),
         NEW p \in Elems(pd), p.on, ~p.superseded,
         NEW S, \A Y \in S : InOrder(pd, [vfo |-> p.vfo, on |-> TRUE, ids |-> {p.id}], Y)
  PROVE  ~Overtaken(pd, p.id) /\ \A Y \in S : ~Y.on /\ Y.vfo = p.vfo => Y.ids = {}
<1>1. ~Overtaken(pd, p.id)
  <2> SUFFICES ASSUME Overtaken(pd, p.id) PROVE FALSE
    OBVIOUS
  <2>1. PICK i, j \in 1..Len(pd) :
          /\ i < j /\ pd[j].id = p.id
          /\ ~pd[i].on /\ pd[i].rig = pd[j].rig /\ pd[i].vfo = pd[j].vfo
    BY DEF Overtaken
  <2>2. pd[j] = p
    BY <2>1 DEF Elems, Unique
  <2> QED
    BY <2>1, <2>2 DEF OvertakenSuperseded
<1>2. ASSUME NEW Y \in S, ~Y.on, Y.vfo = p.vfo PROVE Y.ids = {}
  <2> DEFINE X == [vfo |-> p.vfo, on |-> TRUE, ids |-> {p.id}]
  <2>1. X.vfo = p.vfo /\ X.on /\ p.id \in X.ids /\ InOrder(pd, X, Y)
    OBVIOUS
  <2> HIDE DEF X
  <2> QED
    BY <1>1, <1>2, <2>1 DEF InOrder
<1> QED
  BY <1>1, <1>2

\* A new request gets an id that no pending request has.
LEMMA NewIdFresh ==
  ASSUME pending \in Seq(Pending)
  PROVE  NewId \in Nat \ {0} /\ \A p \in Elems(pending) : p.id # NewId
<1> DEFINE n == Len(pending)
           I == {i \in 1..(n + 1) : \A p \in Elems(pending) : p.id # i}
<1>1. n \in Nat
  OBVIOUS
<1>2. IsFiniteSet(1..(n + 1)) /\ Cardinality(1..(n + 1)) = n + 1
  BY <1>1, IntervalSize
<1>3. IsFiniteSet(1..n) /\ Cardinality(1..n) = n
  BY <1>1, IntervalSize
<1>4. I # {}
  <2> SUFFICES ASSUME I = {} PROVE FALSE
    OBVIOUS
  <2>1. \A i \in 1..(n + 1) : \E a \in 1..n : pending[a].id = i
    BY DEF Elems
  <2> DEFINE f == [i \in 1..(n + 1) |-> CHOOSE a \in 1..n : pending[a].id = i]
  <2>2. \A i \in 1..(n + 1) : f[i] \in 1..n /\ pending[f[i]].id = i
    BY <2>1
  <2>3. f \in [1..(n + 1) -> 1..n]
    BY <2>2
  <2> HIDE DEF f, n
  <2>4. f \in Injection(1..(n + 1), 1..n)
    BY <2>2, <2>3 DEF Injection, IsInjective
  <2>5. Cardinality(1..(n + 1)) <= Cardinality(1..n)
    BY <1>3, <2>4, FS_Injection
  <2> QED
    BY <1>1, <1>2, <1>3, <2>5
<1> HIDE DEF n
<1>5. IsFiniteSet(I) /\ I \in SUBSET Nat
  BY <1>1, <1>2, FS_Subset
<1> HIDE DEF I
<1>6. Cardinality(I) \in Nat /\ Cardinality(I) # 0
  BY <1>4, <1>5, FS_CardinalityType, FS_EmptySet
<1>7. Nth(I, 1) \in I
  <2>1. 1 \in 1..Cardinality(I)
    BY <1>6
  <2> QED
    BY <1>5, <2>1, NthExists
<1>8. NewId = Nth(I, 1)
  BY DEF NewId, I, n
<1> QED
  BY <1>7, <1>8 DEF I

----------------------------------------------------------------------------
(* The lines of all rigs *)

\* The results being replayed belong to one rig.
JobsOf(J, r) == IF J # <<>> /\ J[1].rig = r THEN J ELSE <<>>

OneRig(J) == \A a, b \in 1..Len(J) : J[a].rig = J[b].rig

\* The lines of all rigs, with pending requests pd, results J being replayed,
\* finished results d, running jobs x and queues q.
Lines(pd, J, d, x, q) ==
  /\ pd \in Seq(Pending) /\ J \in Seq(Result) /\ d \in [Rigs -> Seq(Result)]
  /\ x \in [Rigs -> Job \cup {NoJob}] /\ q \in [Rigs -> Seq(Job)]
  /\ Unique(pd) /\ OvertakenSuperseded(pd) /\ OneRig(J)
  /\ \A r \in Rigs : RigSound(pd, r, JobsOf(J, r), d[r], x[r], q[r])

\* The results of one rig are results.
LEMMA JobsOfType ==
  ASSUME NEW J \in Seq(Result), NEW r
  PROVE  JobsOf(J, r) \in Seq(Result)
  BY DEF JobsOf

\* Requests are marked superseded.
LEMMA LinesRelabel ==
  ASSUME NEW pd, NEW J, NEW d, NEW x, NEW q, Lines(pd, J, d, x, q),
         NEW pe \in Seq(Pending), Len(pe) = Len(pd),
         \A i \in 1..Len(pd) :
           /\ pe[i].id = pd[i].id /\ pe[i].rig = pd[i].rig
           /\ pe[i].vfo = pd[i].vfo /\ pe[i].on = pd[i].on
           /\ pd[i].superseded => pe[i].superseded
  PROVE  /\ Lines(pe, J, d, x, q)
         /\ \A r, v : ReleaseNewest(pe, r, v) <=> ReleaseNewest(pd, r, v)
<1>1. /\ \A r, K, D, y, Q : RigSound(pd, r, K, D, y, Q) => RigSound(pe, r, K, D, y, Q)
      /\ Unique(pd) => Unique(pe)
      /\ \A r, v : ReleaseNewest(pe, r, v) <=> ReleaseNewest(pd, r, v)
  BY RelabelSound
<1>2. OvertakenSuperseded(pe)
  BY DEF Lines, OvertakenSuperseded
<1> QED
  BY <1>1, <1>2 DEF Lines

\* The worker of rig r takes a job.
LEMMA LinesTake ==
  ASSUME NEW pd, NEW J, NEW d, NEW x, NEW q, Lines(pd, J, d, x, q),
         NEW r \in Rigs, x[r] = NoJob, q[r] # <<>>
  PROVE  Lines(pd, J, d, [x EXCEPT ![r] = Head(q[r])], [q EXCEPT ![r] = Tail(q[r])])
<1>1. q[r] \in Seq(Job) /\ RigSound(pd, r, JobsOf(J, r), d[r], NoJob, q[r])
  BY DEF Lines
<1>2. RigSound(pd, r, JobsOf(J, r), d[r], Head(q[r]), Tail(q[r]))
  BY <1>1, TakeSound
<1>3. Head(q[r]) \in Job /\ Tail(q[r]) \in Seq(Job)
  BY <1>1, TailElems
<1> QED
  BY <1>2, <1>3 DEF Lines

\* The worker of rig r finishes its job.
LEMMA LinesExecute ==
  ASSUME NEW pd, NEW J, NEW d, NEW x, NEW q, Lines(pd, J, d, x, q),
         NEW r \in Rigs, x[r] # NoJob, NEW f, f \in BOOLEAN
  PROVE  /\ Lines(pd, J, [d EXCEPT ![r] = d[r] \o Finished(r, x[r], f)],
                  [x EXCEPT ![r] = NoJob], q)
         /\ ResultsOf(Finished(r, x[r], f), r, x[r])
<1> DEFINE F == Finished(r, x[r], f)
<1>1. x[r] \in Job /\ d[r] \in Seq(Result)
  BY DEF Lines
<1>2. RigSound(pd, r, JobsOf(J, r), d[r], x[r], q[r])
  BY DEF Lines
<1>3. RigSound(pd, r, JobsOf(J, r), d[r] \o F, NoJob, q[r])
  BY <1>1, <1>2, ExecuteSound, Zenon
<1>4. ResultsOf(F, r, x[r])
  BY <1>1, FinishedItems, Zenon
<1> HIDE DEF F
<1>5. d[r] \o F \in Seq(Result)
  BY <1>1, <1>4, ConcatElems DEF ResultsOf
<1> QED
  BY <1>3, <1>4, <1>5 DEF Lines, F

\* The results of rig r are detached.
LEMMA LinesDrain ==
  ASSUME NEW pd, NEW d, NEW x, NEW q, Lines(pd, <<>>, d, x, q), NEW r \in Rigs, d[r] # <<>>
  PROVE  Lines(pd, d[r], [d EXCEPT ![r] = <<>>], x, q)
<1>1. d[r] \in Seq(Result) /\ RigSound(pd, r, <<>>, d[r], x[r], q[r])
  BY DEF Lines, JobsOf
<1>2. RigSound(pd, r, d[r], <<>>, x[r], q[r])
  BY <1>1, DrainSound
<1>3. \A i \in 1..Len(d[r]) : d[r][i].rig = r
  BY <1>1 DEF RigSound, Elems
<1>4. 1 \in 1..Len(d[r])
  BY <1>1
<1>5. JobsOf(d[r], r) = d[r] /\ \A s \in Rigs : s # r => JobsOf(d[r], s) = <<>>
  BY <1>3, <1>4 DEF JobsOf
<1>6. OneRig(d[r])
  BY <1>3 DEF OneRig
<1>7. \A s \in Rigs : s # r => RigSound(pd, s, <<>>, d[s], x[s], q[s])
  BY DEF Lines, JobsOf
<1> QED
  BY <1>1, <1>2, <1>5, <1>6, <1>7 DEF Lines

\* The first result leaves the line of its rig and the others as they are.
LEMMA JobsOfTail ==
  ASSUME NEW J \in Seq(Result), J # <<>>, OneRig(J), NEW s
  PROVE  /\ Tail(J) \in Seq(Result) /\ Head(J) \in Result /\ Head(J) = J[1] /\ OneRig(Tail(J))
         /\ JobsOf(J, Head(J).rig) = J
         /\ JobsOf(Tail(J), Head(J).rig) = Tail(J)
         /\ s # Head(J).rig => JobsOf(J, s) = <<>> /\ JobsOf(Tail(J), s) = <<>>
<1> DEFINE t == Tail(J)
<1>1. /\ t \in Seq(Result) /\ Head(J) \in Result /\ Head(J) = J[1]
      /\ Len(J) \in Nat \ {0} /\ Len(t) = Len(J) - 1
      /\ \A i \in 1..Len(t) : t[i] = J[i + 1] /\ i + 1 \in 1..Len(J)
  BY TailElems
<1> HIDE DEF t
<1>2. \A i \in 1..Len(t) : t[i].rig = Head(J).rig
  BY <1>1 DEF OneRig
<1>3. t # <<>> => t[1].rig = Head(J).rig
  <2>1. t # <<>> => 1 \in 1..Len(t)
    BY <1>1
  <2> QED
    BY <1>2, <2>1
<1>4. OneRig(t)
  BY <1>2 DEF OneRig
<1> QED
  BY <1>1, <1>3, <1>4 DEF JobsOf, t

\* A result without a completion is replayed.
LEMMA LinesReplay ==
  ASSUME NEW pd, NEW J, NEW d, NEW x, NEW q, Lines(pd, J, d, x, q), J # <<>>, Head(J).pend = 0
  PROVE  Lines(pd, Tail(J), d, x, q) /\ Head(J).rig \in Rigs
<1> DEFINE r == Head(J).rig
<1>1. J \in Seq(Result) /\ OneRig(J)
  BY DEF Lines
<1>2. /\ Tail(J) \in Seq(Result) /\ Head(J) \in Result /\ OneRig(Tail(J))
      /\ JobsOf(J, r) = J /\ JobsOf(Tail(J), r) = Tail(J)
      /\ \A s : s # r => JobsOf(J, s) = <<>> /\ JobsOf(Tail(J), s) = <<>>
  BY <1>1, JobsOfTail
<1>3. r \in Rigs
  BY <1>2 DEF Result
<1> HIDE DEF r
<1>4. RigSound(pd, r, J, d[r], x[r], q[r])
  BY <1>2, <1>3 DEF Lines
<1>5. RigSound(pd, r, Tail(J), d[r], x[r], q[r])
  BY <1>1, <1>4, ReplaySound
<1>6. \A s \in Rigs : RigSound(pd, s, JobsOf(Tail(J), s), d[s], x[s], q[s])
  BY <1>2, <1>5 DEF Lines
<1> QED
  BY <1>2, <1>3, <1>6 DEF Lines, r

\* Unlinking the request p that result h answers, rig r: requests that pd and w
\* hold, and what the worker still has to do.
Unlinked(pd, w, p, x, Q) ==
  /\ \A s \in Rigs : \A v : ReleaseNewest(w, s, v) => ReleaseNewest(pd, s, v)
  /\ \A s, v : ReleaseNewest(pd, s, v) => ReleaseNewest(w, s, v) \/ (~p.on /\ p.rig = s /\ p.vfo = v)
  /\ p.on /\ ~p.superseded =>
       \A X \in RunningItems(x) \cup JobItems(Q) : ~X.on /\ X.vfo = p.vfo => X.ids = {}

\* A result is replayed and its request unlinked.  No release becomes the
\* newest request of its VFO by that: had a key-down been in front of it in the
\* list, the release would have been ahead of it in the line.
LEMMA LinesUnlink ==
  ASSUME NEW pd, NEW J, NEW d, NEW x, NEW q, Lines(pd, J, d, x, q), J # <<>>,
         NEW p \in Elems(pd), Head(J).pend = p.id
  PROVE  /\ Lines(Without(pd, {p}), Tail(J), d, x, q)
         /\ Head(J).rig \in Rigs /\ p.rig = Head(J).rig
         /\ p.vfo = Head(J).vfo /\ p.on = Head(J).on
         /\ Unlinked(pd, Without(pd, {p}), p, x[p.rig], q[p.rig])
<1> DEFINE r == Head(J).rig
           w == Without(pd, {p})
           T == Items(Tail(J), d[r], x[r], q[r])
           h == ResultItem(Head(J))
<1>1. J \in Seq(Result) /\ OneRig(J) /\ pd \in Seq(Pending) /\ Unique(pd) /\ OvertakenSuperseded(pd)
  BY DEF Lines
<1>2. /\ Tail(J) \in Seq(Result) /\ Head(J) \in Result /\ OneRig(Tail(J))
      /\ JobsOf(J, r) = J /\ JobsOf(Tail(J), r) = Tail(J)
      /\ \A s : s # r => JobsOf(J, s) = <<>> /\ JobsOf(Tail(J), s) = <<>>
  BY <1>1, JobsOfTail
<1>3. r \in Rigs
  BY <1>2 DEF Result
<1>4. p.id \in Nat \ {0} /\ p.on \in BOOLEAN
  <2>1. PICK i \in 1..Len(pd) : p = pd[i]
    BY DEF Elems
  <2>2. p \in Pending
    BY <1>1, <2>1
  <2> QED
    BY <2>2 DEF Pending
<1>h. h.vfo = Head(J).vfo /\ h.on = Head(J).on /\ h.ids = {p.id}
  BY <1>4 DEF ResultItem
<1> HIDE DEF r, w, T, h
<1>5. RigSound(pd, r, J, d[r], x[r], q[r])
  BY <1>2, <1>3 DEF Lines
<1>6. /\ RigSound(w, r, Tail(J), d[r], x[r], q[r])
      /\ p.rig = r /\ p.vfo = Head(J).vfo /\ p.on = Head(J).on
  <2>1. J \in Seq(Result) /\ pd \in Seq(Pending) /\ Unique(pd) /\ p.id # 0
    BY <1>1, <1>4
  <2> DEFINE D == d[r]
             y == x[r]
             Q == q[r]
  <2>2. RigSound(pd, r, J, D, y, Q)
    BY <1>5
  <2> HIDE DEF D, y, Q
  <2>3. RigSound(Without(pd, {p}), r, Tail(J), D, y, Q)
    BY <2>1, <2>2, UnlinkSound
  <2>4. p.rig = r /\ p.vfo = Head(J).vfo /\ p.on = Head(J).on
    <3>1. Head(J) \in Elems(J)
      BY <2>1, TailElems
    <3>2. h \in Items(J, D, y, Q)
      BY <3>1 DEF Items, ResultItems, h
    <3>3. PICK z \in Elems(pd) : z.id = p.id /\ z.rig = r /\ z.vfo = h.vfo /\ z.on = h.on
      BY <1>h, <2>2, <3>2 DEF RigSound, Matched
    <3>4. z = p
      BY <2>1, <3>3 DEF Elems, Unique
    <3> QED
      BY <1>h, <3>3, <3>4
  <2> QED
    BY <2>3, <2>4 DEF w, D, y, Q
<1>7. /\ w \in Seq(Pending) /\ Elems(w) = Elems(pd) \ {p} /\ Unique(w) /\ OvertakenSuperseded(w)
  BY <1>1, UnlinkOrder DEF w
<1>8. ASSUME NEW s \in Rigs PROVE RigSound(w, s, JobsOf(Tail(J), s), d[s], x[s], q[s])
  <2>1. CASE s = r
    BY <1>2, <1>6, <2>1
  <2>2. CASE s # r
    <3>1. RigSound(pd, s, <<>>, d[s], x[s], q[s])
      BY <1>2, <2>2 DEF Lines
    <3>2. RigSound(w, s, <<>>, d[s], x[s], q[s])
      BY <1>1, <1>6, <2>2, <3>1, UnlinkOtherSound DEF w
    <3> QED
      BY <1>2, <2>2, <3>2
  <2> QED
    BY <2>1, <2>2
<1>9. Lines(w, Tail(J), d, x, q)
  BY <1>2, <1>7, <1>8 DEF Lines
<1>10. \A Y \in T : InOrder(pd, h, Y)
  <2>1. Line(pd, J, d[r], x[r], q[r])
    BY <1>5 DEF RigSound
  <2> QED
    BY <1>1, <2>1, ReplayLine DEF T, h
<1>11. ASSUME NEW s \in Rigs, NEW v, ReleaseNewest(w, s, v) PROVE ReleaseNewest(pd, s, v)
  <2> SUFFICES ASSUME ~ReleaseNewest(pd, s, v) PROVE FALSE
    OBVIOUS
  <2>1. /\ p.on /\ p.rig = s /\ p.vfo = v /\ ~Overtaken(pd, p.id)
        /\ \E z \in Elems(w) : z.rig = s /\ z.vfo = v /\ ~z.on
    BY <1>1, <1>11, UnlinkNewest DEF w
  <2>2. PICK z \in Elems(w) : z.rig = s /\ z.vfo = v /\ ~z.on
    BY <2>1
  <2>3. s = r
    BY <1>6, <2>1
  <2>4. PICK Y \in T : z.id \in Y.ids
    BY <1>6, <2>2, <2>3 DEF RigSound, Carried, T
  <2>5. PICK y \in Elems(w) : y.id = z.id /\ y.vfo = Y.vfo /\ y.on = Y.on
    BY <1>6, <2>4 DEF RigSound, Matched, T
  <2>6. y = z
    BY <1>7, <2>5 DEF Elems, Unique
  <2>7. h.vfo = Y.vfo /\ h.on /\ ~Y.on /\ p.id \in h.ids /\ z.id \in Y.ids
    BY <1>6, <1>h, <2>1, <2>2, <2>4, <2>5, <2>6
  <2>8. Overtaken(pd, p.id)
    BY <1>10, <2>7 DEF InOrder
  <2> QED
    BY <2>1, <2>8
<1>12. \A s, v : ReleaseNewest(pd, s, v) => ReleaseNewest(w, s, v) \/ (~p.on /\ p.rig = s /\ p.vfo = v)
  BY <1>1, UnlinkNewest DEF w
<1>13. ASSUME p.on, ~p.superseded
       PROVE  \A X \in RunningItems(x[r]) \cup JobItems(q[r]) : ~X.on /\ X.vfo = p.vfo => X.ids = {}
  <2>1. h = [vfo |-> p.vfo, on |-> TRUE, ids |-> {p.id}]
    <3>1. p.on = TRUE
      BY <1>4, <1>13
    <3> QED
      BY <1>4, <1>6, <3>1 DEF h, ResultItem
  <2>2. \A Y \in T : ~Y.on /\ Y.vfo = p.vfo => Y.ids = {}
    BY <1>1, <1>10, <1>13, <2>1, NoneBehind
  <2> QED
    BY <2>2 DEF T, Items
<1>14. Unlinked(pd, w, p, x[r], q[r])
  BY <1>11, <1>12, <1>13 DEF Unlinked
<1> QED
  BY <1>3, <1>6, <1>9, <1>14 DEF r, w

\* p is a new key-down request and j the job that will carry it out.
NewKeyDown(pd, p, j) ==
  /\ p \in Pending /\ p.on = TRUE /\ \A z \in Elems(pd) : z.id # p.id
  /\ j \in Job /\ j.vfo = p.vfo /\ j.on = TRUE /\ j.pends = <<p.id>>

\* What the request adds to the list pd, and the job to queue Q.
KeyDownAdded(pd, p, j, Q) ==
  /\ \A s, v : ReleaseNewest(<<p>> \o pd, s, v) => ReleaseNewest(pd, s, v)
  /\ \A s, v : ReleaseNewest(pd, s, v) /\ s # p.rig => ReleaseNewest(<<p>> \o pd, s, v)
  /\ Elems(Append(Q, j)) = Elems(Q) \cup {j}

\* A key-down is requested.
LEMMA LinesKeyDown ==
  ASSUME NEW pd, NEW J, NEW d, NEW x, NEW q, Lines(pd, J, d, x, q),
         NEW p, NEW j, NewKeyDown(pd, p, j)
  PROVE  /\ Lines(<<p>> \o pd, J, d, x, [q EXCEPT ![p.rig] = Append(q[p.rig], j)])
         /\ KeyDownAdded(pd, p, j, q[p.rig])
<1> DEFINE pe == <<p>> \o pd
           r == p.rig
           Q == Append(q[r], j)
<1>0. /\ p \in Pending /\ p.on = TRUE /\ \A z \in Elems(pd) : z.id # p.id
      /\ j \in Job /\ j.vfo = p.vfo /\ j.on = TRUE /\ j.pends = <<p.id>>
  BY DEF NewKeyDown
<1>1. pd \in Seq(Pending) /\ Unique(pd) /\ OvertakenSuperseded(pd) /\ r \in Rigs
  BY <1>0 DEF Lines, Pending
<1>2. /\ pe \in Seq(Pending) /\ Unique(pe) /\ OvertakenSuperseded(pe)
      /\ \A s, v : IF r = s /\ p.vfo = v
                     THEN ReleaseNewest(pe, s, v) <=> ~p.on
                     ELSE ReleaseNewest(pe, s, v) <=> ReleaseNewest(pd, s, v)
  BY <1>0, <1>1, AddOrder
<1>3. q[r] \in Seq(Job) /\ RigSound(pd, r, JobsOf(J, r), d[r], x[r], q[r])
  BY <1>1 DEF Lines
<1>4. RigSound(pe, r, JobsOf(J, r), d[r], x[r], Q)
  BY <1>0, <1>1, <1>3, KeyDownSound
<1>5. Q \in Seq(Job) /\ Elems(Q) = Elems(q[r]) \cup {j}
  BY <1>0, <1>3, AppendElems
<1> HIDE DEF Q, pe, r
<1>6. ASSUME NEW s \in Rigs, s # r PROVE RigSound(pe, s, JobsOf(J, s), d[s], x[s], q[s])
  <2>1. RigSound(pd, s, JobsOf(J, s), d[s], x[s], q[s])
    BY DEF Lines
  <2> QED
    BY <1>0, <1>1, <1>6, <2>1, AddLine DEF pe, r
<1>7. Lines(pe, J, d, x, [q EXCEPT ![r] = Q])
  BY <1>0, <1>1, <1>2, <1>4, <1>5, <1>6 DEF Lines
<1>8. ~(~p.on)
  BY <1>0
<1>9. \A s, v : ReleaseNewest(pe, s, v) => ReleaseNewest(pd, s, v)
  BY <1>2, <1>8
<1>10. \A s, v : ReleaseNewest(pd, s, v) /\ s # r => ReleaseNewest(pe, s, v)
  BY <1>2
<1> QED
  BY <1>5, <1>7, <1>9, <1>10 DEF KeyDownAdded, Q, pe, r

\* The lines of all rigs are sound, but that of r has no release for request k yet.
LinesBut(pd, r, v, k, J, d, x, q) ==
  /\ pd \in Seq(Pending) /\ J \in Seq(Result) /\ d \in [Rigs -> Seq(Result)]
  /\ x \in [Rigs -> Job \cup {NoJob}] /\ q \in [Rigs -> Seq(Job)]
  /\ Unique(pd) /\ OvertakenSuperseded(pd) /\ OneRig(J)
  /\ \A s \in Rigs : s # r => RigSound(pd, s, JobsOf(J, s), d[s], x[s], q[s])
  /\ r \in Rigs /\ ReleaseFits(pd, r, v, k, JobsOf(J, r), d[r], x[r], q[r])
  /\ \A p \in Elems(pd) : p.rig = r =>
       \/ p.id = k /\ k # 0
       \/ \E X \in Items(JobsOf(J, r), d[r], x[r], q[r]) : p.id \in X.ids

\* A release is submitted to the worker of r.
LEMMA LinesSubmit ==
  ASSUME NEW pd, NEW r, NEW v, NEW k, NEW J, NEW d, NEW x, NEW q,
         LinesBut(pd, r, v, k, J, d, x, q),
         NEW dd, NEW xx, NEW qq, Submitted(r, v, k, d, x, q, dd, xx, qq)
  PROVE  /\ Lines(pd, J, dd, xx, qq)
         /\ Kept(x[r], q[r], xx[r], qq[r], v) /\ Elems(d[r]) \subseteq Elems(dd[r])
<1> DEFINE K == JobsOf(J, r)
           D == d[r]
           y == x[r]
           Q == q[r]
           E == D \o Cancelled(r, Q, v)
           z == RunningAfter(y, v, k)
           R == QueueAfter(y, Without(Q, Cut(Q, v)), v, k)
<1>1. r \in Rigs /\ ReleaseFits(pd, r, v, k, K, D, y, Q)
  BY DEF LinesBut
<1>2. AfterRelease(pd, r, v, k, K, D, y, Q, E, z, R)
  BY <1>1, ReleaseSound, Zenon
<1>3. \A p \in Elems(pd) : p.rig = r =>
        (p.id = k /\ k # 0) \/ \E X \in Items(K, D, y, Q) : p.id \in X.ids
  BY DEF LinesBut
<1>4. /\ dd[r] = E /\ xx[r] = z /\ qq[r] = R
      /\ \A s \in Rigs : s # r => dd[s] = d[s] /\ xx[s] = x[s] /\ qq[s] = q[s]
      /\ dd = [d EXCEPT ![r] = E] /\ xx = [x EXCEPT ![r] = z] /\ qq = [q EXCEPT ![r] = R]
  BY <1>1 DEF LinesBut, Submitted
<1> HIDE DEF K, E, z, R
<1>5. Carried(pd, r, Items(K, E, z, R))
  BY <1>2, <1>3 DEF Carried, AfterRelease
<1>6. RigSound(pd, r, K, E, z, R)
  BY <1>2, <1>5 DEF RigSound, AfterRelease
<1>7. E \in Seq(Result) /\ z \in Job \cup {NoJob} /\ R \in Seq(Job)
  BY <1>2 DEF AfterRelease
<1>8. /\ dd \in [Rigs -> Seq(Result)] /\ xx \in [Rigs -> Job \cup {NoJob}]
      /\ qq \in [Rigs -> Seq(Job)]
  BY <1>4, <1>7 DEF LinesBut
<1>9. \A s \in Rigs : RigSound(pd, s, JobsOf(J, s), dd[s], xx[s], qq[s])
  BY <1>4, <1>6 DEF LinesBut, K
<1>10. Lines(pd, J, dd, xx, qq)
  BY <1>8, <1>9 DEF Lines, LinesBut
<1> QED
  BY <1>2, <1>4, <1>10 DEF AfterRelease

\* A release is requested: it is pending and with the worker.
LEMMA LinesRelease ==
  ASSUME NEW pd, NEW J, NEW d, NEW x, NEW q, Lines(pd, J, d, x, q),
         NEW p \in Pending, p.on = FALSE, \A z \in Elems(pd) : z.id # p.id,
         \A z \in Elems(pd) : z.on /\ z.rig = p.rig /\ z.vfo = p.vfo => z.superseded,
         NEW dd, NEW xx, NEW qq, Submitted(p.rig, p.vfo, p.id, d, x, q, dd, xx, qq)
  PROVE  /\ Lines(<<p>> \o pd, J, dd, xx, qq)
         /\ Kept(x[p.rig], q[p.rig], xx[p.rig], qq[p.rig], p.vfo)
         /\ Elems(d[p.rig]) \subseteq Elems(dd[p.rig])
         /\ \A s, v : ReleaseNewest(<<p>> \o pd, s, v) <=>
                        ReleaseNewest(pd, s, v) \/ (s = p.rig /\ v = p.vfo)
<1> DEFINE pe == <<p>> \o pd
           r == p.rig
           v == p.vfo
           k == p.id
           S == Items(JobsOf(J, r), d[r], x[r], q[r])
<1>1. pd \in Seq(Pending) /\ Unique(pd) /\ OvertakenSuperseded(pd)
  BY DEF Lines
<1>2. r \in Rigs /\ v \in VFO /\ k \in Nat /\ k # 0
  BY DEF Pending
<1>3. /\ pe \in Seq(Pending) /\ Elems(pe) = Elems(pd) \cup {p} /\ Unique(pe)
  BY <1>1, AddOrder
<1>4. OvertakenSuperseded(pe)
  BY <1>1, AddOrder
<1>5. \A s, w : IF r = s /\ v = w
                  THEN ReleaseNewest(pe, s, w) <=> ~p.on
                  ELSE ReleaseNewest(pe, s, w) <=> ReleaseNewest(pd, s, w)
  BY <1>1, AddOrder
<1>6. RigSound(pd, r, JobsOf(J, r), d[r], x[r], q[r])
  BY <1>2 DEF Lines
<1>7. /\ Line(pe, JobsOf(J, r), d[r], x[r], q[r]) /\ Matched(pe, r, S)
      /\ \A X \in S : \A m \in X.ids : /\ m # k
                                       /\ v = X.vfo => Overtaken(pe, m)
  BY <1>1, <1>6, AddLine
<1> HIDE DEF pe, S
<1>8. ASSUME NEW s \in Rigs, s # r PROVE RigSound(pe, s, JobsOf(J, s), d[s], x[s], q[s])
  <2>1. RigSound(pd, s, JobsOf(J, s), d[s], x[s], q[s])
    BY DEF Lines
  <2> QED
    BY <1>1, <1>8, <2>1, AddLine DEF pe
<1>9. \A X \in S : Behind(pe, X, v, k)
  BY <1>7 DEF Behind
<1>10. ReleaseFits(pe, r, v, k, JobsOf(J, r), d[r], x[r], q[r])
  <2>1. d[r] \in Seq(Result) /\ x[r] \in Job \cup {NoJob} /\ q[r] \in Seq(Job)
    BY <1>2 DEF Lines
  <2>2. WorkerSound(x[r], q[r]) /\ \A y \in Elems(d[r]) : y.rig = r
    BY <1>6 DEF RigSound
  <2>3. \E z \in Elems(pe) : z.id = k /\ z.rig = r /\ z.vfo = v /\ z.on = FALSE
    BY <1>3
  <2> HIDE DEF r, v, k
  <2> QED
    BY <1>2, <1>7, <1>9, <2>1, <2>2, <2>3 DEF ReleaseFits, S
<1>11. LinesBut(pe, r, v, k, J, d, x, q)
  <2>1. \A z \in Elems(pd) : z.rig = r => \E X \in S : z.id \in X.ids
    BY <1>6 DEF RigSound, Carried, S
  <2>2. \A z \in Elems(pe) : z.rig = r =>
          (z.id = k /\ k # 0) \/ \E X \in S : z.id \in X.ids
    BY <1>2, <1>3, <2>1
  <2> HIDE DEF r, v, k
  <2> QED
    BY <1>2, <1>3, <1>4, <1>8, <1>10, <2>2 DEF LinesBut, Lines, S
<1>12. /\ Lines(pe, J, dd, xx, qq)
       /\ Kept(x[r], q[r], xx[r], qq[r], v) /\ Elems(d[r]) \subseteq Elems(dd[r])
  BY <1>11, LinesSubmit, Zenon
<1>13. \A s, w : ReleaseNewest(pe, s, w) <=> ReleaseNewest(pd, s, w) \/ (s = r /\ w = v)
  BY <1>5
<1> QED
  BY <1>12, <1>13 DEF pe

\* A key-down whose result was replayed is taken back without a completion.
LEMMA LinesUntracked ==
  ASSUME NEW pd, NEW J, NEW d, NEW x, NEW q, Lines(pd, J, d, x, q),
         NEW r \in Rigs, NEW v \in VFO,
         \A X \in RunningItems(x[r]) \cup JobItems(q[r]) : ~X.on /\ X.vfo = v => X.ids = {},
         NEW dd, NEW xx, NEW qq, Submitted(r, v, 0, d, x, q, dd, xx, qq)
  PROVE  /\ Lines(pd, J, dd, xx, qq)
         /\ Kept(x[r], q[r], xx[r], qq[r], v) /\ Elems(d[r]) \subseteq Elems(dd[r])
<1> DEFINE k == 0
           S == Items(JobsOf(J, r), d[r], x[r], q[r])
<1>1. k = 0 /\ k \in Nat
  OBVIOUS
<1>2. Submitted(r, v, k, d, x, q, dd, xx, qq)
  OBVIOUS
<1> HIDE DEF k, S
<1>3. RigSound(pd, r, JobsOf(J, r), d[r], x[r], q[r])
  BY DEF Lines
<1>4. \A X \in S : Behind(pd, X, v, k)
  BY <1>1 DEF Behind
<1>5. d[r] \in Seq(Result) /\ x[r] \in Job \cup {NoJob} /\ q[r] \in Seq(Job)
  BY DEF Lines
<1>6. ReleaseFits(pd, r, v, k, JobsOf(J, r), d[r], x[r], q[r])
  BY <1>1, <1>3, <1>4, <1>5 DEF ReleaseFits, RigSound, S
<1>7. LinesBut(pd, r, v, k, J, d, x, q)
  BY <1>3, <1>6 DEF LinesBut, Lines, RigSound, Carried
<1> QED
  BY <1>2, <1>7, LinesSubmit, Zenon

----------------------------------------------------------------------------
(* The invariant *)

\* A release of v is with the worker (x, Q).
InHand(x, Q, v) == \E j \in Elems(Q) \cup {x} : IsReleaseOf(j, v)

\* Loop o, on rig t, has yet to request the release of v of r.
Covers(o, t, r, v) == o # NoLoop /\ t = r /\ o.next <= v

\* The VFOs of r whose newest pending request is a release.
ReleasedVfos(pd, r) == {v \in VFO : ReleaseNewest(pd, r, v)}

Typed ==
  /\ talker \in Client /\ (talker # NoClient => ptt_vfo \in VFO)
  /\ ptt_rig \in Rigs \cup {NoRig} /\ off \in Loop \cup {NoLoop}
  /\ (off # NoLoop /\ off.why \in {"trip", "reset"} => ptt_rig \in Rigs)
  /\ outstanding \in [Rigs -> Int] /\ halted \in [Rigs -> BOOLEAN]
  /\ tx \in [Rigs -> [VFO -> BOOLEAN]] /\ failed_last \in [Rigs -> [VFO -> BOOLEAN]]

\* What the server counts as outstanding: normal jobs up to the limit, and
\* more only for VFOs whose newest pending request is a release.
Counted ==
  \A r \in Rigs : outstanding[r] <= QueueLimit + Cardinality(ReleasedVfos(pending, r))

\* A request for which another is accepted without a job silences its VFO.
NewestSilences ==
  \A r \in Rigs, v \in VFO : ReleaseNewest(pending, r, v) /\ tx[r][v] =>
    InHand(running[r], queue[r], v) \/ failed_last[r][v]

\* The emergency stop silences what is on the air ...
HaltedOff ==
  \A r \in Rigs, v \in VFO : halted[r] /\ tx[r][v] =>
    InHand(running[r], queue[r], v) \/ failed_last[r][v] \/ Covers(off, Target, r, v)

\* ... and what the key-down that the worker is executing will put there.
HaltedRunning ==
  \A r \in Rigs : halted[r] /\ running[r] # NoJob /\ running[r].on =>
    \/ \E j \in Elems(queue[r]) : IsReleaseOf(j, running[r].vfo)
    \/ Covers(off, Target, r, running[r].vfo)

\* Every VFO the loop has been through has a release underway.
LoopReleases ==
  off # NoLoop => \A v \in VFO : v < off.next =>
    \/ InHand(running[Target], queue[Target], v)
    \/ \E x \in Elems(done[Target]) \cup Elems(jobs) : x.rig = Target /\ x.vfo = v /\ ~x.on

Ordered == Lines(pending, jobs, done, running, queue)

PInv ==
  /\ Typed /\ Ordered /\ Counted /\ ReleaseAccepted
  /\ NewestSilences /\ HaltedOff /\ HaltedRunning /\ LoopReleases

----------------------------------------------------------------------------
(* What the actions have in common *)

\* A loop or a request without a rig of its own goes to a registered rig.
LEMMA TargetRig ==
  ASSUME Typed
  PROVE  Target \in Rigs
  BY PttAssumption DEF Typed, Target

\* The worker goes from (x, Q) to (y, R): no release is lost, and with the
\* emergency stop no key-down starts.
Steady(x, Q, y, R, halt) ==
  /\ \A w : InHand(x, Q, w) => InHand(y, R, w)
  /\ halt /\ y # NoJob /\ y.on =>
       /\ y = x
       /\ \A w : (\E j \in Elems(Q) : IsReleaseOf(j, w)) => \E j \in Elems(R) : IsReleaseOf(j, w)

AllSteady ==
  \A r \in Rigs : Steady(running[r], queue[r], running'[r], queue'[r], halted[r])

\* Submitting a release loses none and starts nothing.
LEMMA KeptSteady ==
  ASSUME NEW x, NEW Q, NEW y, NEW R, NEW v, NEW halt, Kept(x, Q, y, R, v)
  PROVE  Steady(x, Q, y, R, halt) /\ InHand(y, R, v)
<1>1. ASSUME NEW w, InHand(x, Q, w) PROVE InHand(y, R, w)
  <2>1. CASE IsReleaseOf(x, w)
    BY <2>1 DEF Kept, InHand
  <2>2. CASE \E j \in Elems(Q) : IsReleaseOf(j, w)
    BY <2>2 DEF Kept, InHand
  <2> QED
    BY <1>1, <2>1, <2>2 DEF InHand
<1> QED
  BY <1>1 DEF Kept, Steady, InHand

\* Nor does an idle worker.
LEMMA SameSteady ==
  ASSUME NEW x, NEW Q, NEW halt
  PROVE  Steady(x, Q, x, Q, halt)
  BY DEF Steady

\* What SubmitRelease does to the workers.
LEMMA SubmitIs ==
  ASSUME Ordered, NEW r \in Rigs, NEW v, NEW k, NEW n, SubmitRelease(r, v, k, n)
  PROVE  /\ Submitted(r, v, k, done, running, queue, done', running', queue')
         /\ outstanding' = [outstanding EXCEPT ![r] = n + 1]
<1>1. /\ queue \in [Rigs -> Seq(Job)] /\ running \in [Rigs -> Job \cup {NoJob}]
      /\ done \in [Rigs -> Seq(Result)]
  BY DEF Ordered, Lines
<1> QED
  BY <1>1, SubmitReleaseIs, Zenon

\* NewestSilences survives what keeps the releases.
LEMMA NewestKept ==
  ASSUME NewestSilences, AllSteady, tx' = tx, failed_last' = failed_last,
         \A r \in Rigs, v \in VFO : ReleaseNewest(pending', r, v) =>
           ReleaseNewest(pending, r, v) \/ InHand(running'[r], queue'[r], v)
  PROVE  NewestSilences'
<1> SUFFICES ASSUME NEW r \in Rigs, NEW v \in VFO, ReleaseNewest(pending', r, v), tx'[r][v]
             PROVE  InHand(running'[r], queue'[r], v) \/ failed_last'[r][v]
  BY DEF NewestSilences
<1>1. CASE ReleaseNewest(pending, r, v)
  <2>1. InHand(running[r], queue[r], v) \/ failed_last[r][v]
    BY <1>1 DEF NewestSilences
  <2>2. InHand(running[r], queue[r], v) => InHand(running'[r], queue'[r], v)
    BY DEF AllSteady, Steady
  <2> QED
    BY <2>1, <2>2
<1> QED
  BY <1>1

\* So does the rest, as long as the loop stands still.
LEMMA HandKept ==
  ASSUME Typed, HaltedOff, HaltedRunning, LoopReleases, AllSteady,
         tx' = tx, failed_last' = failed_last, halted' = halted, off' = off,
         off # NoLoop => /\ ptt_rig' = ptt_rig /\ jobs' = jobs
                         /\ \A r \in Rigs : Elems(done[r]) \subseteq Elems(done'[r])
  PROVE  HaltedOff' /\ HaltedRunning' /\ LoopReleases'
<1>1. \A r, v : Covers(off, Target, r, v) => Covers(off', Target', r, v)
  BY DEF Covers, Target
<1>2. HaltedOff'
  <2> SUFFICES ASSUME NEW r \in Rigs, NEW v \in VFO, halted[r], tx[r][v]
               PROVE  InHand(running'[r], queue'[r], v) \/ failed_last[r][v] \/ Covers(off', Target', r, v)
    BY DEF HaltedOff
  <2>1. InHand(running[r], queue[r], v) \/ failed_last[r][v] \/ Covers(off, Target, r, v)
    BY DEF HaltedOff
  <2>2. InHand(running[r], queue[r], v) => InHand(running'[r], queue'[r], v)
    BY DEF AllSteady, Steady
  <2> QED
    BY <1>1, <2>1, <2>2
<1>3. HaltedRunning'
  <2> SUFFICES ASSUME NEW r \in Rigs, halted[r], running'[r] # NoJob, running'[r].on
               PROVE  \/ \E j \in Elems(queue'[r]) : IsReleaseOf(j, running'[r].vfo)
                      \/ Covers(off', Target', r, running'[r].vfo)
    BY DEF HaltedRunning
  <2>1. /\ running'[r] = running[r]
        /\ \A w : (\E j \in Elems(queue[r]) : IsReleaseOf(j, w)) =>
                    \E j \in Elems(queue'[r]) : IsReleaseOf(j, w)
    BY DEF AllSteady, Steady
  <2>2. \/ \E j \in Elems(queue[r]) : IsReleaseOf(j, running[r].vfo)
        \/ Covers(off, Target, r, running[r].vfo)
    BY <2>1 DEF HaltedRunning
  <2>3. CASE \E j \in Elems(queue[r]) : IsReleaseOf(j, running[r].vfo)
    BY <2>1, <2>3
  <2>4. CASE Covers(off, Target, r, running[r].vfo)
    BY <1>1, <2>1, <2>4
  <2> QED
    BY <2>2, <2>3, <2>4
<1>4. LoopReleases'
  <2> SUFFICES ASSUME off # NoLoop, NEW v \in VFO, v < off.next
               PROVE  \/ InHand(running'[Target'], queue'[Target'], v)
                      \/ \E x \in Elems(done'[Target']) \cup Elems(jobs') :
                           x.rig = Target' /\ x.vfo = v /\ ~x.on
    BY DEF LoopReleases
  <2>1. Target' = Target /\ Target \in Rigs
    BY TargetRig DEF Target
  <2>2. InHand(running[Target], queue[Target], v) => InHand(running'[Target], queue'[Target], v)
    BY <2>1 DEF AllSteady, Steady
  <2>3. Elems(done[Target]) \subseteq Elems(done'[Target]) /\ jobs' = jobs
    BY <2>1
  <2> QED
    BY <2>1, <2>2, <2>3 DEF LoopReleases
<1> QED
  BY <1>2, <1>3, <1>4

\* Counting VFOs.
LEMMA VfoSets ==
  ASSUME NEW A \in SUBSET VFO, NEW B \in SUBSET VFO, NEW v \in VFO
  PROVE  /\ Cardinality(A) \in Nat /\ Cardinality(B) \in Nat /\ Cardinality(A) <= MaxVfos
         /\ A \subseteq B => Cardinality(A) <= Cardinality(B)
         /\ v \notin A => Cardinality(A) + 1 <= MaxVfos
         /\ v \notin A /\ A \cup {v} \subseteq B => Cardinality(A) + 1 <= Cardinality(B)
         /\ A \ {v} \subseteq B => Cardinality(A) <= Cardinality(B) + 1
<1>1. MaxVfos \in Nat
  BY LogAssumption
<1>2. IsFiniteSet(VFO) /\ Cardinality(VFO) = MaxVfos
  <2>1. 0 \in Int /\ MaxVfos - 1 \in Int
    BY <1>1
  <2>2. /\ IsFiniteSet(0..(MaxVfos - 1))
        /\ Cardinality(0..(MaxVfos - 1)) = IF 0 > MaxVfos - 1 THEN 0 ELSE (MaxVfos - 1) - 0 + 1
    BY <2>1, FS_Interval
  <2> QED
    BY <1>1, <2>2 DEF VFO
<1>3. ASSUME NEW C \in SUBSET VFO
      PROVE  IsFiniteSet(C) /\ Cardinality(C) \in Nat /\ Cardinality(C) <= MaxVfos
  <2>1. IsFiniteSet(C) /\ Cardinality(C) <= Cardinality(VFO)
    BY <1>2, FS_Subset
  <2>2. Cardinality(C) \in Nat
    BY <2>1, FS_CardinalityType
  <2> QED
    BY <1>2, <2>1, <2>2
<1>4. \A C, D \in SUBSET VFO : C \subseteq D => Cardinality(C) <= Cardinality(D)
  <2> TAKE C, D \in SUBSET VFO
  <2>1. IsFiniteSet(D)
    BY <1>3
  <2> QED
    BY <2>1, FS_Subset
<1>5. ASSUME NEW C \in SUBSET VFO, v \notin C PROVE Cardinality(C \cup {v}) = Cardinality(C) + 1
  BY <1>3, <1>5, FS_AddElement
<1>6. v \notin A => Cardinality(A) + 1 <= MaxVfos
  BY <1>3, <1>5
<1>7. ASSUME v \notin A, A \cup {v} \subseteq B PROVE Cardinality(A) + 1 <= Cardinality(B)
  <2>1. A \cup {v} \in SUBSET VFO
    OBVIOUS
  <2>2. Cardinality(A \cup {v}) <= Cardinality(B)
    BY <1>4, <1>7, <2>1
  <2>3. Cardinality(A \cup {v}) = Cardinality(A) + 1
    BY <1>5, <1>7
  <2> QED
    BY <2>2, <2>3
<1>8. ASSUME A \ {v} \subseteq B PROVE Cardinality(A) <= Cardinality(B) + 1
  <2> DEFINE C == A \ {v}
  <2>1. C \in SUBSET VFO /\ v \notin C /\ C \cup {v} \in SUBSET VFO /\ A \subseteq C \cup {v}
    OBVIOUS
  <2>2. C \subseteq B
    BY <1>8
  <2> HIDE DEF C
  <2>3. Cardinality(A) <= Cardinality(C \cup {v}) /\ Cardinality(C \cup {v}) = Cardinality(C) + 1
    BY <1>4, <1>5, <2>1
  <2>4. Cardinality(C) <= Cardinality(B)
    BY <1>4, <2>1, <2>2
  <2>5. Cardinality(A) \in Nat /\ Cardinality(B) \in Nat /\ Cardinality(C) \in Nat
    BY <1>3, <2>1
  <2> QED
    BY <2>3, <2>4, <2>5
<1> QED
  BY <1>3, <1>4, <1>6, <1>7, <1>8

\* List pe is pd with requests marked superseded or orphaned.
Relabelled(pd, pe) ==
  /\ pe \in Seq(Pending) /\ Len(pe) = Len(pd)
  /\ \A i \in 1..Len(pd) :
       /\ pe[i].id = pd[i].id /\ pe[i].rig = pd[i].rig
       /\ pe[i].vfo = pd[i].vfo /\ pe[i].on = pd[i].on
       /\ pd[i].superseded => pe[i].superseded

\* A release marks the key-downs of its VFO as superseded.
LEMMA SupersedeIs ==
  ASSUME NEW q \in Seq(Pending), NEW r, NEW v
  PROVE  /\ Relabelled(q, Supersede(q, r, v))
         /\ \A z \in Elems(Supersede(q, r, v)) : z.on /\ z.rig = r /\ z.vfo = v => z.superseded
<1> DEFINE E(i) == [id |-> q[i].id, rig |-> q[i].rig, vfo |-> q[i].vfo, on |-> q[i].on,
                    owner |-> q[i].owner,
                    superseded |-> q[i].superseded \/ (q[i].rig = r /\ q[i].vfo = v /\ q[i].on)]
           s == Supersede(q, r, v)
<1>1. s = [i \in 1..Len(q) |-> E(i)]
  BY DEF Supersede
<1>2. Len(q) \in Nat /\ \A i \in 1..Len(q) : q[i] \in Pending
  OBVIOUS
<1>3. \A i \in 1..Len(q) : E(i) \in Pending
  <2> TAKE i \in 1..Len(q)
  <2>1. /\ q[i].id \in Nat \ {0} /\ q[i].rig \in Rigs /\ q[i].vfo \in VFO
        /\ q[i].on \in BOOLEAN /\ q[i].owner \in Client
    BY <1>2 DEF Pending
  <2>2. (q[i].superseded \/ (q[i].rig = r /\ q[i].vfo = v /\ q[i].on)) \in BOOLEAN
    OBVIOUS
  <2> QED
    BY <2>1, <2>2 DEF Pending
<1>4. \A i \in 1..Len(q) :
        /\ E(i).id = q[i].id /\ E(i).rig = q[i].rig /\ E(i).vfo = q[i].vfo /\ E(i).on = q[i].on
        /\ q[i].superseded => E(i).superseded
        /\ q[i].on /\ q[i].rig = r /\ q[i].vfo = v => E(i).superseded
  OBVIOUS
<1> HIDE DEF E, s
<1>5. s \in Seq(Pending) /\ Len(s) = Len(q) /\ \A i \in 1..Len(q) : s[i] = E(i)
  BY <1>1, <1>2, <1>3
<1>6. Relabelled(q, s)
  BY <1>4, <1>5 DEF Relabelled
<1>7. \A z \in Elems(s) : z.on /\ z.rig = r /\ z.vfo = v => z.superseded
  BY <1>4, <1>5 DEF Elems
<1> QED
  BY <1>6, <1>7 DEF s

\* A connection that closes leaves its requests in the list, without owner.
LEMMA OrphanIs ==
  ASSUME NEW q \in Seq(Pending), NEW c
  PROVE  Relabelled(q, Orphan(q, c))
<1> DEFINE E(i) == [id |-> q[i].id, rig |-> q[i].rig, vfo |-> q[i].vfo, on |-> q[i].on,
                    owner |-> IF q[i].owner = c THEN NoClient ELSE q[i].owner,
                    superseded |-> q[i].superseded \/ (q[i].owner = c /\ q[i].on)]
           s == Orphan(q, c)
<1>1. s = [i \in 1..Len(q) |-> E(i)]
  BY DEF Orphan
<1>2. Len(q) \in Nat /\ \A i \in 1..Len(q) : q[i] \in Pending
  OBVIOUS
<1>3. \A i \in 1..Len(q) : E(i) \in Pending
  <2> TAKE i \in 1..Len(q)
  <2>1. /\ q[i].id \in Nat \ {0} /\ q[i].rig \in Rigs /\ q[i].vfo \in VFO
        /\ q[i].on \in BOOLEAN /\ q[i].owner \in Client
    BY <1>2 DEF Pending
  <2>2. (q[i].superseded \/ (q[i].owner = c /\ q[i].on)) \in BOOLEAN
    OBVIOUS
  <2>3. (IF q[i].owner = c THEN NoClient ELSE q[i].owner) \in Client
    BY <2>1 DEF Client
  <2> QED
    BY <2>1, <2>2, <2>3 DEF Pending
<1>4. \A i \in 1..Len(q) :
        /\ E(i).id = q[i].id /\ E(i).rig = q[i].rig /\ E(i).vfo = q[i].vfo /\ E(i).on = q[i].on
        /\ q[i].superseded => E(i).superseded
  OBVIOUS
<1> HIDE DEF E, s
<1>5. s \in Seq(Pending) /\ Len(s) = Len(q) /\ \A i \in 1..Len(q) : s[i] = E(i)
  BY <1>1, <1>2, <1>3
<1> QED
  BY <1>4, <1>5 DEF Relabelled, s

\* What a request to release v of rig t leaves behind.
Requested(t, v) ==
  /\ Lines(pending', jobs, done', running', queue')
  /\ outstanding' \in [Rigs -> Int]
  /\ \A r \in Rigs : outstanding'[r] <= QueueLimit + Cardinality(ReleasedVfos(pending', r))
  /\ AllSteady
  /\ \A r \in Rigs : Elems(done[r]) \subseteq Elems(done'[r])
  /\ ReleaseNewest(pending', t, v)
  /\ \A r \in Rigs, w \in VFO : ReleaseNewest(pending', r, w) =>
       ReleaseNewest(pending, r, w) \/ InHand(running'[r], queue'[r], w)

\* rr_ptt_request of a release is accepted: the newest request of the VFO is a
\* release already, or the reserve has room for one more VFO, and the job goes
\* to the worker in front of everything that could key the VFO again.
LEMMA RequestReleaseStep ==
  ASSUME Typed, Ordered, Counted, NEW q, Relabelled(pending, q), NEW v \in VFO,
         NEW owner \in Client, NEW rejected, RequestRelease(q, v, owner, rejected)
  PROVE  ~rejected /\ Requested(Target, v)
<1> DEFINE t == Target
<1>1. t \in Rigs
  BY TargetRig
<1>2. Duplicate(t, v) <=> ReleaseNewest(pending, t, v)
  BY DEF Duplicate, ReleaseNewest
<1>3. outstanding \in [Rigs -> Int] /\ QueueLimit \in Nat /\ MaxVfos \in Nat
  BY PttAssumption, LogAssumption DEF Typed
<1>4. Lines(pending, jobs, done, running, queue)
  BY DEF Ordered
<1>5. /\ Lines(q, jobs, done, running, queue) /\ q \in Seq(Pending)
      /\ \A r, w : ReleaseNewest(q, r, w) <=> ReleaseNewest(pending, r, w)
  <2>1. q \in Seq(Pending) /\ Len(q) = Len(pending)
    BY DEF Relabelled
  <2>2. \A i \in 1..Len(pending) :
           /\ q[i].id = pending[i].id /\ q[i].rig = pending[i].rig
           /\ q[i].vfo = pending[i].vfo /\ q[i].on = pending[i].on
           /\ pending[i].superseded => q[i].superseded
    BY DEF Relabelled
  <2> QED
    BY <1>4, <2>1, <2>2, LinesRelabel
<1>6. \A r \in Rigs : ReleasedVfos(pending, r) \in SUBSET VFO /\ ReleasedVfos(pending', r) \in SUBSET VFO
  BY DEF ReleasedVfos
<1> HIDE DEF t
<1>7. CASE ReleaseNewest(pending, t, v)
  <2>1. ~rejected /\ pending' = q /\ UNCHANGED worker
    BY <1>2, <1>7 DEF RequestRelease, t
  <2>2. queue' = queue /\ running' = running /\ done' = done /\ outstanding' = outstanding
    BY <2>1 DEF worker
  <2>3. \A r \in Rigs : ReleasedVfos(pending', r) = ReleasedVfos(pending, r)
    BY <1>5, <2>1 DEF ReleasedVfos
  <2>4. AllSteady
    BY <2>2, SameSteady DEF AllSteady
  <2> QED
    BY <1>3, <1>5, <1>7, <2>1, <2>2, <2>3, <2>4 DEF Requested, Counted, t
<1>8. CASE ~ReleaseNewest(pending, t, v)
  <2> DEFINE s == Supersede(q, t, v)
             p == NewPending(t, v, FALSE, owner)
             n == outstanding[t]
  <2>1. v \notin ReleasedVfos(pending, t)
    BY <1>8 DEF ReleasedVfos
  <2>2. Cardinality(ReleasedVfos(pending, t)) + 1 <= MaxVfos /\ Cardinality(ReleasedVfos(pending, t)) \in Nat
    BY <1>1, <1>6, <2>1, VfoSets
  <2>3. n \in Int /\ n <= QueueLimit + Cardinality(ReleasedVfos(pending, t))
    BY <1>1, <1>3 DEF Counted
  <2>4. ReleaseRoom(n)
    BY <1>3, <2>2, <2>3 DEF ReleaseRoom
  <2>5. ~rejected /\ pending' = <<p>> \o s /\ SubmitRelease(t, v, NewId, n)
    BY <1>2, <1>8, <2>4 DEF RequestRelease, t
  <2>6. /\ Submitted(t, v, NewId, done, running, queue, done', running', queue')
        /\ outstanding' = [outstanding EXCEPT ![t] = n + 1]
    BY <1>1, <2>5, SubmitIs
  <2>7. pending \in Seq(Pending)
    BY <1>4 DEF Lines
  <2>8. NewId \in Nat \ {0} /\ \A z \in Elems(pending) : z.id # NewId
    BY <2>7, NewIdFresh
  <2>9. Relabelled(q, s) /\ \A z \in Elems(s) : z.on /\ z.rig = t /\ z.vfo = v => z.superseded
    BY <1>5, SupersedeIs
  <2>10. p \in Pending /\ p.id = NewId /\ p.rig = t /\ p.vfo = v /\ p.on = FALSE
    BY <1>1, <2>8 DEF NewPending, Pending
  <2> HIDE DEF s, p, n
  <2>11. s \in Seq(Pending) /\ Len(s) = Len(q) /\ Len(q) = Len(pending)
    BY <2>9 DEF Relabelled
  <2>12. \A z \in Elems(s) : z.id # p.id
    <3> SUFFICES ASSUME NEW i \in 1..Len(s) PROVE s[i].id # p.id
      BY DEF Elems
    <3>1. s[i].id = q[i].id /\ q[i].id = pending[i].id
      BY <2>9, <2>11 DEF Relabelled
    <3>2. pending[i] \in Elems(pending)
      BY <2>11 DEF Elems
    <3> QED
      BY <2>8, <2>10, <3>1, <3>2
  <2>13. /\ Lines(s, jobs, done, running, queue)
         /\ \A r, w : ReleaseNewest(s, r, w) <=> ReleaseNewest(q, r, w)
    <3>1. \A i \in 1..Len(q) :
             /\ s[i].id = q[i].id /\ s[i].rig = q[i].rig
             /\ s[i].vfo = q[i].vfo /\ s[i].on = q[i].on
             /\ q[i].superseded => s[i].superseded
      BY <2>9 DEF Relabelled
    <3> QED
      BY <1>5, <2>11, <3>1, LinesRelabel
  <2>14. /\ Lines(pending', jobs, done', running', queue')
         /\ Kept(running[t], queue[t], running'[t], queue'[t], v)
         /\ Elems(done[t]) \subseteq Elems(done'[t])
         /\ \A r, w : ReleaseNewest(pending', r, w) <=> ReleaseNewest(s, r, w) \/ (r = t /\ w = v)
    <3>1. Submitted(p.rig, p.vfo, p.id, done, running, queue, done', running', queue')
      BY <2>6, <2>10
    <3>2. \A z \in Elems(s) : z.on /\ z.rig = p.rig /\ z.vfo = p.vfo => z.superseded
      BY <2>9, <2>10
    <3>3. /\ Lines(<<p>> \o s, jobs, done', running', queue')
          /\ Kept(running[p.rig], queue[p.rig], running'[p.rig], queue'[p.rig], p.vfo)
          /\ Elems(done[p.rig]) \subseteq Elems(done'[p.rig])
          /\ \A r, w : ReleaseNewest(<<p>> \o s, r, w) <=>
                         ReleaseNewest(s, r, w) \/ (r = p.rig /\ w = p.vfo)
      BY <2>10, <2>12, <2>13, <3>1, <3>2, LinesRelease
    <3> QED
      BY <2>5, <2>10, <3>3
  <2>15. \A r \in Rigs : r # t => /\ running'[r] = running[r] /\ queue'[r] = queue[r]
                                  /\ done'[r] = done[r] /\ outstanding'[r] = outstanding[r]
    BY <1>3, <1>4, <2>6 DEF Submitted, Lines
  <2>16. AllSteady
    <3> SUFFICES ASSUME NEW r \in Rigs
                 PROVE  Steady(running[r], queue[r], running'[r], queue'[r], halted[r])
      BY DEF AllSteady
    <3>1. CASE r = t
      BY <2>14, <3>1, KeptSteady
    <3>2. CASE r # t
      BY <2>15, <3>2, SameSteady
    <3> QED
      BY <3>1, <3>2
  <2>17. InHand(running'[t], queue'[t], v)
    BY <2>14 DEF Kept, InHand
  <2>18. \A r, w : ReleaseNewest(pending', r, w) <=> ReleaseNewest(pending, r, w) \/ (r = t /\ w = v)
    BY <1>5, <2>13, <2>14
  <2>19. outstanding' \in [Rigs -> Int]
    BY <1>1, <1>3, <2>3, <2>6
  <2>20. ASSUME NEW r \in Rigs
         PROVE  outstanding'[r] <= QueueLimit + Cardinality(ReleasedVfos(pending', r))
    <3>1. CASE r = t
      <4>1. ReleasedVfos(pending, t) \cup {v} \subseteq ReleasedVfos(pending', t)
        BY <2>18 DEF ReleasedVfos
      <4>2. Cardinality(ReleasedVfos(pending, t)) + 1 <= Cardinality(ReleasedVfos(pending', t))
        BY <1>1, <1>6, <2>1, <4>1, VfoSets
      <4>3. Cardinality(ReleasedVfos(pending', t)) \in Nat
        BY <1>1, <1>6, VfoSets
      <4>4. outstanding'[t] = n + 1
        BY <1>1, <1>3, <2>6
      <4> QED
        BY <1>3, <2>2, <2>3, <3>1, <4>2, <4>3, <4>4
    <3>2. CASE r # t
      <4>1. ReleasedVfos(pending', r) = ReleasedVfos(pending, r)
        BY <2>18, <3>2 DEF ReleasedVfos
      <4> QED
        BY <2>15, <3>2, <4>1 DEF Counted
    <3> QED
      BY <3>1, <3>2
  <2>21. \A r \in Rigs : Elems(done[r]) \subseteq Elems(done'[r])
    BY <2>14, <2>15
  <2>22. Requested(t, v)
    BY <2>14, <2>16, <2>17, <2>18, <2>19, <2>20, <2>21 DEF Requested
  <2> QED
    BY <2>5, <2>22 DEF t
<1> QED
  BY <1>7, <1>8

\* An unchanged list is a relabelled one.
LEMMA SameRelabelled ==
  ASSUME NEW q \in Seq(Pending)
  PROVE  Relabelled(q, q)
  BY DEF Relabelled

\* The parts of the invariant that a request to release keeps by itself.
LEMMA RequestKeeps ==
  ASSUME PInv, NEW v, Requested(Target, v), jobs' = jobs,
         tx' = tx, failed_last' = failed_last, halted' = halted
  PROVE  /\ Ordered' /\ Counted' /\ NewestSilences'
         /\ off' = off /\ ptt_rig' = ptt_rig => HaltedOff' /\ HaltedRunning' /\ LoopReleases'
<1>1. Ordered' /\ Counted'
  BY DEF Ordered, Counted, Requested
<1>2. AllSteady /\ \A r \in Rigs : Elems(done[r]) \subseteq Elems(done'[r])
  BY DEF Requested
<1>3. NewestSilences'
  <2>1. \A r \in Rigs, w \in VFO : ReleaseNewest(pending', r, w) =>
           ReleaseNewest(pending, r, w) \/ InHand(running'[r], queue'[r], w)
    BY DEF Requested
  <2> QED
    BY <1>2, <2>1, NewestKept DEF PInv
<1>4. ASSUME off' = off, ptt_rig' = ptt_rig PROVE HaltedOff' /\ HaltedRunning' /\ LoopReleases'
  BY <1>2, <1>4, HandKept DEF PInv
<1> QED
  BY <1>1, <1>3, <1>4

----------------------------------------------------------------------------
(* The actions preserve the invariant *)

\* The talker releases.
LEMMA KeyUpStep ==
  ASSUME PInv, KeyUp
  PROVE  PInv'
<1>1. PICK rejected \in BOOLEAN :
        /\ RequestRelease(pending, ptt_vfo, NoClient, rejected)
        /\ IF rejected THEN UNCHANGED <<talker, ptt_vfo>>
                       ELSE talker' = NoClient /\ ptt_vfo' = NoVfo
  BY DEF KeyUp
<1>2. /\ off = NoLoop /\ talker # NoClient /\ ptt_rig' = ptt_rig /\ off' = off /\ jobs' = jobs
      /\ halted' = halted /\ tx' = tx /\ failed_last' = failed_last
  BY DEF KeyUp, Idle, radio, history
<1>3. ptt_vfo \in VFO /\ NoClient \in Client
  BY <1>2 DEF PInv, Typed, Client
<1>4. Relabelled(pending, pending)
  BY SameRelabelled DEF PInv, Ordered, Lines
<1>5. ~rejected /\ Requested(Target, ptt_vfo)
  BY <1>1, <1>3, <1>4, RequestReleaseStep DEF PInv
<1>6. Ordered' /\ Counted' /\ NewestSilences' /\ HaltedOff' /\ HaltedRunning' /\ LoopReleases'
  BY <1>2, <1>5, RequestKeeps
<1>7. outstanding' \in [Rigs -> Int] /\ talker' = NoClient
  BY <1>1, <1>5 DEF Requested
<1>8. Typed' /\ ReleaseAccepted'
  BY <1>2, <1>3, <1>7 DEF PInv, Typed, ReleaseAccepted
<1> QED
  BY <1>6, <1>8 DEF PInv

\* A connection closes.
LEMMA DisconnectStep ==
  ASSUME PInv, NEW c \in Clients, Disconnect(c)
  PROVE  PInv'
<1> DEFINE q == Orphan(pending, c)
<1>1. /\ off = NoLoop /\ ptt_rig' = ptt_rig /\ off' = off /\ jobs' = jobs
      /\ halted' = halted /\ tx' = tx /\ failed_last' = failed_last
  BY DEF Disconnect, Idle, radio, history
<1>2. pending \in Seq(Pending) /\ c # NoClient
  BY LogAssumption DEF PInv, Ordered, Lines
<1>3. Relabelled(pending, q)
  BY <1>2, OrphanIs
<1>4. NoClient \in Client
  BY DEF Client
<1> HIDE DEF q
<1>5. CASE c = talker
  <2>1. PICK rejected \in BOOLEAN : RequestRelease(q, ptt_vfo, NoClient, rejected)
    BY <1>5 DEF Disconnect, q
  <2>2. ptt_vfo \in VFO
    BY <1>2, <1>5 DEF PInv, Typed
  <2>3. ~rejected /\ Requested(Target, ptt_vfo)
    BY <1>3, <1>4, <2>1, <2>2, RequestReleaseStep DEF PInv
  <2>4. Ordered' /\ Counted' /\ NewestSilences' /\ HaltedOff' /\ HaltedRunning' /\ LoopReleases'
    BY <1>1, <2>3, RequestKeeps
  <2>5. outstanding' \in [Rigs -> Int] /\ talker' = NoClient
    BY <1>5, <2>3 DEF Requested, Disconnect
  <2>6. Typed' /\ ReleaseAccepted'
    BY <1>1, <1>4, <2>5 DEF PInv, Typed, ReleaseAccepted
  <2> QED
    BY <2>4, <2>6 DEF PInv
<1>6. CASE c # talker
  <2>1. pending' = q /\ talker' = talker /\ ptt_vfo' = ptt_vfo /\ UNCHANGED worker
    BY <1>6 DEF Disconnect, q
  <2>2. queue' = queue /\ running' = running /\ done' = done /\ outstanding' = outstanding
    BY <2>1 DEF worker
  <2>3. /\ Lines(pending', jobs, done, running, queue)
        /\ \A r, w : ReleaseNewest(pending', r, w) <=> ReleaseNewest(pending, r, w)
    <3>1. \A i \in 1..Len(pending) :
             /\ q[i].id = pending[i].id /\ q[i].rig = pending[i].rig
             /\ q[i].vfo = pending[i].vfo /\ q[i].on = pending[i].on
             /\ pending[i].superseded => q[i].superseded
      BY <1>3 DEF Relabelled
    <3>2. q \in Seq(Pending) /\ Len(q) = Len(pending)
      BY <1>3 DEF Relabelled
    <3>3. Lines(pending, jobs, done, running, queue)
      BY DEF PInv, Ordered
    <3> QED
      BY <2>1, <3>1, <3>2, <3>3, LinesRelabel
  <2>4. \A r \in Rigs : ReleasedVfos(pending', r) = ReleasedVfos(pending, r)
    BY <2>3 DEF ReleasedVfos
  <2>5. AllSteady
    BY <2>2, SameSteady DEF AllSteady
  <2>6. Ordered' /\ Counted'
    BY <1>1, <2>2, <2>3, <2>4 DEF PInv, Ordered, Counted
  <2>7. NewestSilences'
    BY <1>1, <2>3, <2>5, NewestKept DEF PInv
  <2>8. HaltedOff' /\ HaltedRunning' /\ LoopReleases'
    BY <1>1, <2>2, <2>5, HandKept DEF PInv
  <2>9. Typed' /\ ReleaseAccepted'
    BY <1>1, <2>1, <2>2 DEF PInv, Typed, ReleaseAccepted
  <2> QED
    BY <2>6, <2>7, <2>8, <2>9 DEF PInv
<1> QED
  BY <1>5, <1>6

\* A client keys.
LEMMA KeyDownStep ==
  ASSUME PInv, NEW c \in Clients, NEW r \in Rigs, NEW v \in VFO, KeyDown(c, r, v)
  PROVE  PInv'
<1>1. /\ off = NoLoop /\ ptt_rig' = r /\ off' = off /\ jobs' = jobs
      /\ halted' = halted /\ tx' = tx /\ failed_last' = failed_last
  BY DEF KeyDown, Idle, radio, history
<1>2. PICK denied \in BOOLEAN :
        IF KeyDownBarred(r, denied) \/ KeyDownRefused(r)
          THEN UNCHANGED <<talker, ptt_vfo, pending, worker>>
          ELSE /\ talker' = c /\ ptt_vfo' = v
               /\ SubmitKeyDown(r, v, NewId)
               /\ pending' = <<NewPending(r, v, TRUE, c)>> \o pending
  BY DEF KeyDown
<1>3. Lines(pending, jobs, done, running, queue)
  BY DEF PInv, Ordered
<1>4. CASE KeyDownBarred(r, denied) \/ KeyDownRefused(r)
  <2>1. UNCHANGED <<talker, ptt_vfo, pending, worker>>
    BY <1>2, <1>4
  <2>2. /\ queue' = queue /\ running' = running /\ done' = done /\ outstanding' = outstanding
        /\ talker' = talker /\ ptt_vfo' = ptt_vfo /\ pending' = pending
    BY <2>1 DEF worker
  <2>3. AllSteady
    BY <2>2, SameSteady DEF AllSteady
  <2>4. Ordered' /\ Counted'
    BY <1>1, <2>2 DEF PInv, Ordered, Counted
  <2>5. NewestSilences'
    BY <1>1, <2>2, <2>3, NewestKept DEF PInv
  <2>6. HaltedOff' /\ HaltedRunning' /\ LoopReleases'
    BY <1>1, <2>2, <2>3, HandKept DEF PInv
  <2>7. Typed' /\ ReleaseAccepted'
    BY <1>1, <2>2 DEF PInv, Typed, ReleaseAccepted
  <2> QED
    BY <2>4, <2>5, <2>6, <2>7 DEF PInv
<1>5. CASE ~(KeyDownBarred(r, denied) \/ KeyDownRefused(r))
  <2> DEFINE p == NewPending(r, v, TRUE, c)
             j == [vfo |-> v, on |-> TRUE, pends |-> <<NewId>>]
  <2>1. /\ talker' = c /\ ptt_vfo' = v /\ SubmitKeyDown(r, v, NewId) /\ pending' = <<p>> \o pending
    BY <1>2, <1>5
  <2>2. /\ queue' = [queue EXCEPT ![r] = Append(queue[r], j)]
        /\ outstanding' = [outstanding EXCEPT ![r] = outstanding[r] + 1]
        /\ running' = running /\ done' = done
    BY <2>1 DEF SubmitKeyDown
  <2>3. NewId \in Nat \ {0} /\ \A z \in Elems(pending) : z.id # NewId
    BY <1>3, NewIdFresh DEF Lines
  <2>4. /\ p \in Pending /\ p.id = NewId /\ p.rig = r /\ p.vfo = v /\ p.on = TRUE
    BY <2>3 DEF NewPending, Pending, Client
  <2> HIDE DEF p
  <2>5. j \in Job /\ j.vfo = p.vfo /\ j.on = TRUE /\ j.pends = <<p.id>>
    <3>1. <<NewId>> \in Seq(Nat)
      BY <2>3
    <3>2. j \in Job
      BY <3>1 DEF Job
    <3>3. j.vfo = v /\ j.on = TRUE /\ j.pends = <<NewId>>
      OBVIOUS
    <3> QED
      BY <2>4, <3>2, <3>3
  <2> HIDE DEF j
  <2>6. /\ Lines(<<p>> \o pending, jobs, done, running, [queue EXCEPT ![p.rig] = Append(queue[p.rig], j)])
        /\ KeyDownAdded(pending, p, j, queue[p.rig])
    <3>1. NewKeyDown(pending, p, j)
      BY <2>3, <2>4, <2>5 DEF NewKeyDown
    <3> QED
      BY <1>3, <3>1, LinesKeyDown, Zenon
  <2>7. /\ Lines(pending', jobs, done, running, queue')
        /\ \A s, w : ReleaseNewest(pending', s, w) => ReleaseNewest(pending, s, w)
        /\ \A s, w : ReleaseNewest(pending, s, w) /\ s # r => ReleaseNewest(pending', s, w)
        /\ Elems(Append(queue[r], j)) = Elems(queue[r]) \cup {j}
    BY <2>1, <2>2, <2>4, <2>6 DEF KeyDownAdded
  <2>8. /\ queue'[r] = Append(queue[r], j) /\ \A s \in Rigs : s # r => queue'[s] = queue[s]
    BY <1>3, <2>2 DEF Lines
  <2>9. \A s \in Rigs : Elems(queue[s]) \subseteq Elems(queue'[s])
    BY <2>7, <2>8
  <2>10. AllSteady
    BY <2>2, <2>9 DEF AllSteady, Steady, InHand
  <2>11. outstanding \in [Rigs -> Int] /\ QueueLimit \in Nat
    BY PttAssumption DEF PInv, Typed
  <2>12. Ordered'
    BY <1>1, <2>2, <2>7 DEF Ordered
  <2>13. Counted'
    <3> SUFFICES ASSUME NEW s \in Rigs
                 PROVE  outstanding'[s] <= QueueLimit + Cardinality(ReleasedVfos(pending', s))
      BY DEF Counted
    <3>1. CASE s = r
      <4>1. outstanding[r] < QueueLimit
        BY <1>5, <2>11 DEF KeyDownRefused
      <4>2. ReleasedVfos(pending', r) \in SUBSET VFO
        BY DEF ReleasedVfos
      <4>3. Cardinality(ReleasedVfos(pending', r)) \in Nat
        BY <4>2, VfoSets
      <4> QED
        BY <2>2, <2>11, <3>1, <4>1, <4>3
    <3>2. CASE s # r
      <4>1. ReleasedVfos(pending', s) = ReleasedVfos(pending, s)
        BY <2>7, <3>2 DEF ReleasedVfos
      <4>2. outstanding'[s] = outstanding[s]
        BY <2>2, <2>11, <3>2
      <4> QED
        BY <4>1, <4>2 DEF PInv, Counted
    <3> QED
      BY <3>1, <3>2
  <2>14. NewestSilences'
    BY <1>1, <2>7, <2>10, NewestKept DEF PInv
  <2>15. HaltedOff' /\ HaltedRunning' /\ LoopReleases'
    BY <1>1, <2>2, <2>10, HandKept DEF PInv
  <2>16. Typed' /\ ReleaseAccepted'
    <3>1. outstanding' \in [Rigs -> Int]
      BY <2>2, <2>11
    <3> QED
      BY <1>1, <2>1, <3>1 DEF PInv, Typed, ReleaseAccepted, Client
  <2> QED
    BY <2>12, <2>13, <2>14, <2>15, <2>16 DEF PInv
<1> QED
  BY <1>4, <1>5

\* rr_ptt_set_all_off_reason starts.  The emergency stop of rig r is latched
\* in the same step, and the loop has all VFOs of r before it.
LEMMA StartOffStep ==
  ASSUME PInv, NEW why \in AllCauses, NEW r \in Rigs \cup {NoRig}, StartOff(why, r),
         why \in {"trip", "reset"} => r \in Rigs,
         halted' \in [Rigs -> BOOLEAN],
         \A s \in Rigs : halted'[s] => halted[s] \/ s = r
  PROVE  PInv'
<1>1. /\ off = NoLoop /\ ptt_rig' = r
      /\ off' = [why |-> why, next |-> 0, failed |-> FALSE, previous |-> ptt_rig]
      /\ talker' = talker /\ ptt_vfo' = ptt_vfo /\ pending' = pending /\ jobs' = jobs
      /\ tx' = tx /\ UNCHANGED worker /\ UNCHANGED history
  BY DEF StartOff
<1>2. /\ queue' = queue /\ running' = running /\ done' = done /\ outstanding' = outstanding
      /\ failed_last' = failed_last
  BY <1>1 DEF worker, history
<1>3. 0 \in 0..MaxVfos /\ \A v \in VFO : v \in Int /\ 0 <= v
  BY LogAssumption DEF VFO
<1>4. off' \in Loop /\ off'.why = why /\ off'.next = 0 /\ off'.failed = FALSE /\ off' # NoLoop
  <2>1. ptt_rig \in Rigs \cup {NoRig}
    BY DEF PInv, Typed
  <2>2. off' \in Loop /\ off'.why = why /\ off'.next = 0 /\ off'.failed = FALSE
    BY <1>1, <1>3, <2>1 DEF Loop
  <2>3. why # "none" /\ NoLoop.why = "none"
    BY DEF AllCauses, NoLoop
  <2> QED
    BY <2>2, <2>3
<1>5. Typed'
  BY <1>1, <1>2, <1>4 DEF PInv, Typed
<1>6. Ordered' /\ Counted' /\ ReleaseAccepted' /\ NewestSilences'
  BY <1>1, <1>2, <1>4 DEF PInv, Ordered, Counted, ReleaseAccepted, NewestSilences
<1>7. \A v \in VFO : r \in Rigs => Covers(off', Target', r, v)
  BY <1>1, <1>3, <1>4, PttAssumption DEF Covers, Target
<1>8. \A s, v : ~Covers(off, Target, s, v)
  BY <1>1 DEF Covers
<1>9. HaltedOff'
  <2> SUFFICES ASSUME NEW s \in Rigs, NEW v \in VFO, halted'[s], tx[s][v]
               PROVE  InHand(running[s], queue[s], v) \/ failed_last[s][v] \/ Covers(off', Target', s, v)
    BY <1>1, <1>2 DEF HaltedOff
  <2>1. CASE halted[s]
    BY <1>8, <2>1 DEF PInv, HaltedOff
  <2>2. CASE s = r
    BY <1>7, <2>2
  <2> QED
    BY <2>1, <2>2
<1>10. HaltedRunning'
  <2> SUFFICES ASSUME NEW s \in Rigs, halted'[s], running[s] # NoJob, running[s].on
               PROVE  \/ \E j \in Elems(queue[s]) : IsReleaseOf(j, running[s].vfo)
                      \/ Covers(off', Target', s, running[s].vfo)
    BY <1>2 DEF HaltedRunning
  <2>1. CASE halted[s]
    BY <1>8, <2>1 DEF PInv, HaltedRunning
  <2>2. CASE s = r
    <3>1. running[s].vfo \in VFO
      BY DEF PInv, Ordered, Lines, Job
    <3> QED
      BY <1>7, <2>2, <3>1
  <2> QED
    BY <2>1, <2>2
<1>11. LoopReleases'
  <2> SUFFICES ASSUME NEW v \in VFO, v < off'.next PROVE FALSE
    BY DEF LoopReleases
  <2> QED
    BY <1>3, <1>4
<1> QED
  BY <1>5, <1>6, <1>9, <1>10, <1>11 DEF PInv

\* The end of the loop: every VFO has been asked for.
LEMMA EndOffStep ==
  ASSUME PInv, EndOff
  PROVE  PInv'
<1>1. /\ off # NoLoop /\ off.next = MaxVfos /\ off' = NoLoop /\ ptt_rig' = off.previous
      /\ pending' = pending /\ jobs' = jobs /\ tx' = tx /\ UNCHANGED worker /\ UNCHANGED history
  BY DEF EndOff
<1>2. /\ queue' = queue /\ running' = running /\ done' = done /\ outstanding' = outstanding
      /\ failed_last' = failed_last
  BY <1>1 DEF worker, history
<1>3. talker' = NoClient
  BY <1>1 DEF EndOff, PInv, ReleaseAccepted
<1>4. halted' \in [Rigs -> BOOLEAN] /\ \A r \in Rigs : halted'[r] => halted[r]
  <2>1. halted \in [Rigs -> BOOLEAN]
    BY DEF PInv, Typed
  <2>2. CASE halted' = halted
    BY <2>1, <2>2
  <2>3. CASE halted' = [halted EXCEPT ![ptt_rig] = FALSE]
    BY <2>1, <2>3
  <2> QED
    BY <2>2, <2>3 DEF EndOff
<1>5. off.previous \in Rigs \cup {NoRig}
  BY <1>1 DEF PInv, Typed, Loop
<1>6. Typed' /\ ReleaseAccepted'
  BY <1>1, <1>2, <1>3, <1>4, <1>5 DEF PInv, Typed, ReleaseAccepted, Client
<1>7. Ordered' /\ Counted' /\ NewestSilences'
  BY <1>1, <1>2 DEF PInv, Ordered, Counted, NewestSilences
<1>8. \A r, v : v \in VFO => ~Covers(off, Target, r, v)
  BY <1>1, LogAssumption DEF Covers, VFO
<1>9. HaltedOff'
  BY <1>1, <1>2, <1>4, <1>8 DEF PInv, HaltedOff
<1>10. HaltedRunning'
  <2> SUFFICES ASSUME NEW s \in Rigs, halted'[s], running[s] # NoJob, running[s].on
               PROVE  \E j \in Elems(queue[s]) : IsReleaseOf(j, running[s].vfo)
    BY <1>2 DEF HaltedRunning
  <2>1. running[s].vfo \in VFO
    BY DEF PInv, Ordered, Lines, Job
  <2> QED
    BY <1>4, <1>8, <2>1 DEF PInv, HaltedRunning
<1>11. LoopReleases'
  BY <1>1 DEF LoopReleases
<1> QED
  BY <1>6, <1>7, <1>9, <1>10, <1>11 DEF PInv

\* The item of a release in a queue comes from a job of the queue.
LEMMA QueueItem ==
  ASSUME NEW Q \in Seq(Job), NEW v, HoldsRelease(JobItems(Q), v)
  PROVE  \E j \in Elems(Q) : IsReleaseOf(j, v)
<1>1. PICK j \in Elems(Q) : JobItem(j).on = FALSE /\ JobItem(j).vfo = v
  BY DEF JobItems, HoldsRelease
<1>2. j \in Job
  BY DEF Elems
<1>3. JobItem(j).on = j.on /\ JobItem(j).vfo = j.vfo
  BY DEF JobItem
<1>4. j # NoJob
  BY <1>2, JobType
<1> QED
  BY <1>1, <1>3, <1>4 DEF IsReleaseOf

\* A release of v is with the worker or among results D and J.
InLine(J, D, x, Q, v) ==
  InHand(x, Q, v) \/ \E z \in Elems(D) \cup Elems(J) : z.vfo = v /\ ~z.on

\* That of a release in a line comes from a job or from a result.
LEMMA ReleaseItem ==
  ASSUME NEW J, NEW D, NEW x \in Job \cup {NoJob}, NEW Q \in Seq(Job), NEW v,
         HoldsRelease(Items(J, D, x, Q), v)
  PROVE  InLine(J, D, x, Q, v)
<1>1. PICK Y \in Items(J, D, x, Q) : Y.on = FALSE /\ Y.vfo = v
  BY DEF HoldsRelease
<1>2. CASE Y \in JobItems(Q)
  <2>1. HoldsRelease(JobItems(Q), v)
    BY <1>1, <1>2 DEF HoldsRelease
  <2> QED
    BY <2>1, QueueItem DEF InHand, InLine
<1>3. CASE Y \in RunningItems(x)
  <2>1. x \in Job /\ Y = JobItem(x)
    BY <1>3 DEF RunningItems
  <2>2. JobItem(x).on = x.on /\ JobItem(x).vfo = x.vfo /\ x # NoJob
    BY <2>1, JobType DEF JobItem
  <2> QED
    BY <1>1, <2>1, <2>2 DEF InHand, IsReleaseOf, InLine
<1>4. CASE Y \in ResultItems(D) \cup ResultItems(J)
  <2>1. PICK z \in Elems(D) \cup Elems(J) : Y = ResultItem(z)
    BY <1>4 DEF ResultItems
  <2>2. z.vfo = v /\ ~z.on
    BY <1>1, <2>1 DEF ResultItem
  <2> QED
    BY <2>2 DEF InLine
<1> QED
  BY <1>2, <1>3, <1>4 DEF Items

\* The release that is the newest request of v is underway on rig r, and behind
\* a key-down of v that the worker is executing.
ReleaseComes(r, v, J, D, x, Q) ==
  /\ \/ InHand(x, Q, v)
     \/ \E z \in Elems(D) \cup Elems(J) : z.rig = r /\ z.vfo = v /\ ~z.on
  /\ x # NoJob /\ x.on /\ x.vfo = v => \E j \in Elems(Q) : IsReleaseOf(j, v)

\* A release that is the newest request of its VFO is underway.
LEMMA LinesNewest ==
  ASSUME NEW pd, NEW J, NEW d, NEW x, NEW q, Lines(pd, J, d, x, q),
         NEW r \in Rigs, NEW v, ReleaseNewest(pd, r, v)
  PROVE  ReleaseComes(r, v, J, d[r], x[r], q[r])
<1> DEFINE K == JobsOf(J, r)
           D == d[r]
           y == x[r]
           Q == q[r]
           S == Items(K, D, y, Q)
<1>1. /\ pd \in Seq(Pending) /\ Unique(pd) /\ RigSound(pd, r, K, D, y, Q)
      /\ y \in Job \cup {NoJob} /\ Q \in Seq(Job) /\ J \in Seq(Result) /\ OneRig(J)
  BY DEF Lines
<1>2. \A z \in Elems(K) : z.rig = r /\ z \in Elems(J)
  <2>1. CASE K = <<>>
    BY <2>1, NoItems
  <2>2. CASE K = J /\ J # <<>> /\ J[1].rig = r
    <3>1. 1 \in 1..Len(J)
      BY <1>1, <2>2
    <3>2. \A i \in 1..Len(J) : J[i].rig = r
      BY <1>1, <2>2, <3>1 DEF OneRig
    <3> QED
      BY <2>2, <3>2 DEF Elems
  <2> QED
    BY <2>1, <2>2 DEF JobsOf
<1>3. \A z \in Elems(D) : z.rig = r
  BY <1>1 DEF RigSound
<1> HIDE DEF K, D, y, Q
<1>4. PICK m : AnsweredBy(pd, r, v, S, m)
  BY <1>1, NewestCarried, Zenon
<1>5. HoldsRelease(S, v)
  BY <1>4 DEF AnsweredBy, HoldsRelease
<1>6. InLine(K, D, y, Q, v)
  BY <1>1, <1>5, ReleaseItem, Zenon DEF S
<1>7. ASSUME y # NoJob, y.on, y.vfo = v PROVE \E j \in Elems(Q) : IsReleaseOf(j, v)
  <2>1. Keys(y, v)
    BY <1>1, <1>7 DEF Keys
  <2>2. HoldsRelease(JobItems(Q), v)
    BY <1>1, <2>1, NewestBehind, Zenon
  <2> QED
    BY <1>1, <2>2, QueueItem
<1>8. ReleaseComes(r, v, J, D, y, Q)
  BY <1>2, <1>3, <1>6, <1>7 DEF ReleaseComes, InLine
<1> QED
  BY <1>8 DEF D, y, Q

\* One VFO of the loop.
LEMMA OffVfoStep ==
  ASSUME PInv, OffVfo
  PROVE  PInv'
<1> DEFINE n == off.next
           t == Target
<1>1. PICK rejected \in BOOLEAN :
        /\ RequestRelease(pending, n, talker, rejected)
        /\ off' = [why |-> off.why, next |-> n + 1, failed |-> off.failed \/ rejected,
                   previous |-> off.previous]
  BY DEF OffVfo
<1>2. /\ off # NoLoop /\ n < MaxVfos /\ ptt_rig' = ptt_rig /\ talker' = talker /\ ptt_vfo' = ptt_vfo
      /\ jobs' = jobs /\ halted' = halted /\ tx' = tx /\ failed_last' = failed_last
  BY DEF OffVfo, radio, history
<1>3. /\ off \in Loop /\ MaxVfos \in Nat /\ n \in 0..MaxVfos /\ n \in VFO /\ n + 1 \in 0..MaxVfos
      /\ off.why \in AllCauses /\ off.previous \in Rigs \cup {NoRig} /\ off.failed = FALSE
  <2>1. off \in Loop /\ ~off.failed /\ MaxVfos \in Nat
    BY <1>2, LogAssumption DEF PInv, Typed, ReleaseAccepted
  <2>2. n \in 0..MaxVfos /\ off.why \in AllCauses /\ off.previous \in Rigs \cup {NoRig} /\ off.failed \in BOOLEAN
    BY <2>1 DEF Loop
  <2> QED
    BY <1>2, <2>1, <2>2 DEF VFO
<1>4. t \in Rigs /\ talker \in Client
  BY TargetRig DEF PInv, Typed
<1>5. Relabelled(pending, pending)
  BY SameRelabelled DEF PInv, Ordered, Lines
<1>6. ~rejected /\ Requested(t, n)
  BY <1>1, <1>3, <1>4, <1>5, RequestReleaseStep DEF PInv
<1>7. Ordered' /\ Counted' /\ NewestSilences'
  BY <1>2, <1>6, RequestKeeps
<1>8. /\ off' \in Loop /\ off'.why = off.why /\ off'.next = n + 1 /\ off'.failed = FALSE /\ off' # NoLoop
  <2>1. (off.failed \/ rejected) = FALSE
    BY <1>3, <1>6
  <2>2. off' = [why |-> off.why, next |-> n + 1, failed |-> FALSE, previous |-> off.previous]
    BY <1>1, <2>1
  <2>3. off' \in Loop /\ off'.why = off.why /\ off'.next = n + 1 /\ off'.failed = FALSE
    BY <1>3, <2>2 DEF Loop
  <2>4. off.why # "none" /\ NoLoop.why = "none"
    BY <1>3 DEF AllCauses, NoLoop
  <2> QED
    BY <2>3, <2>4
<1>9. Target' = t
  BY <1>2 DEF Target, t
<1>10. Typed' /\ ReleaseAccepted'
  <2>1. outstanding' \in [Rigs -> Int]
    BY <1>6 DEF Requested
  <2> QED
    BY <1>2, <1>8, <2>1 DEF PInv, Typed, ReleaseAccepted
<1>11. ASSUME NEW r, NEW v \in VFO, Covers(off, t, r, v)
       PROVE  Covers(off', Target', r, v) \/ (r = t /\ v = n)
  <2>1. v \in Int /\ n \in Int /\ t = r /\ n <= v
    BY <1>3, <1>11 DEF Covers, VFO
  <2> QED
    BY <1>8, <1>9, <2>1 DEF Covers
<1>12. /\ AllSteady /\ ReleaseNewest(pending', t, n)
       /\ \A r \in Rigs : Elems(done[r]) \subseteq Elems(done'[r])
       /\ Lines(pending', jobs, done', running', queue')
  BY <1>6 DEF Requested
<1>13. ReleaseComes(t, n, jobs, done'[t], running'[t], queue'[t])
  BY <1>4, <1>12, LinesNewest, Zenon
<1> HIDE DEF n, t
<1>14. HaltedOff'
  <2> SUFFICES ASSUME NEW r \in Rigs, NEW v \in VFO, halted[r], tx[r][v]
               PROVE  InHand(running'[r], queue'[r], v) \/ failed_last[r][v] \/ Covers(off', Target', r, v)
    BY <1>2 DEF HaltedOff
  <2>1. InHand(running[r], queue[r], v) \/ failed_last[r][v] \/ Covers(off, t, r, v)
    BY DEF PInv, HaltedOff, t
  <2>2. InHand(running[r], queue[r], v) => InHand(running'[r], queue'[r], v)
    BY <1>12 DEF AllSteady, Steady
  <2>3. CASE Covers(off, t, r, v)
    <3>1. CASE r = t /\ v = n
      <4>1. ReleaseNewest(pending', r, v) /\ tx'[r][v]
        BY <1>2, <1>12, <3>1
      <4>2. InHand(running'[r], queue'[r], v) \/ failed_last'[r][v]
        BY <1>7, <4>1 DEF NewestSilences
      <4> QED
        BY <1>2, <4>2
    <3> QED
      BY <1>11, <2>3, <3>1
  <2> QED
    BY <2>1, <2>2, <2>3
<1>15. HaltedRunning'
  <2> SUFFICES ASSUME NEW r \in Rigs, halted[r], running'[r] # NoJob, running'[r].on
               PROVE  \/ \E j \in Elems(queue'[r]) : IsReleaseOf(j, running'[r].vfo)
                      \/ Covers(off', Target', r, running'[r].vfo)
    BY <1>2 DEF HaltedRunning
  <2>1. /\ running'[r] = running[r]
        /\ \A w : (\E j \in Elems(queue[r]) : IsReleaseOf(j, w)) =>
                    \E j \in Elems(queue'[r]) : IsReleaseOf(j, w)
    BY <1>12 DEF AllSteady, Steady
  <2>2. \/ \E j \in Elems(queue[r]) : IsReleaseOf(j, running[r].vfo)
        \/ Covers(off, t, r, running[r].vfo)
    BY <2>1 DEF PInv, HaltedRunning, t
  <2>3. CASE \E j \in Elems(queue[r]) : IsReleaseOf(j, running[r].vfo)
    BY <2>1, <2>3
  <2>4. CASE Covers(off, t, r, running[r].vfo)
    <3>1. running'[r] \in Job /\ running'[r].vfo \in VFO
      BY <1>12 DEF Lines, Job
    <3>2. CASE r = t /\ running'[r].vfo = n
      <4>1. \E j \in Elems(queue'[t]) : IsReleaseOf(j, n)
        BY <1>13, <3>2 DEF ReleaseComes
      <4> QED
        BY <3>2, <4>1
    <3> QED
      BY <1>11, <2>1, <2>4, <3>1, <3>2
  <2> QED
    BY <2>2, <2>3, <2>4
<1>16. LoopReleases'
  <2> SUFFICES ASSUME NEW v \in VFO, v < off'.next
               PROVE  \/ InHand(running'[t], queue'[t], v)
                      \/ \E x \in Elems(done'[t]) \cup Elems(jobs) : x.rig = t /\ x.vfo = v /\ ~x.on
    BY <1>2, <1>9 DEF LoopReleases
  <2>1. v < n \/ v = n
    BY <1>3, <1>8 DEF VFO
  <2>2. CASE v < n
    <3>1. \/ InHand(running[t], queue[t], v)
          \/ \E x \in Elems(done[t]) \cup Elems(jobs) : x.rig = t /\ x.vfo = v /\ ~x.on
      BY <1>2, <2>2 DEF PInv, LoopReleases, n, t
    <3>2. InHand(running[t], queue[t], v) => InHand(running'[t], queue'[t], v)
      BY <1>4, <1>12 DEF AllSteady, Steady, t
    <3>3. Elems(done[t]) \subseteq Elems(done'[t])
      BY <1>4, <1>12 DEF t
    <3> QED
      BY <3>1, <3>2, <3>3
  <2>3. CASE v = n
    BY <1>13, <2>3 DEF ReleaseComes
  <2> QED
    BY <2>1, <2>2, <2>3
<1> QED
  BY <1>7, <1>10, <1>14, <1>15, <1>16 DEF PInv

\* The server detaches the results of rig r.
LEMMA DrainStep ==
  ASSUME PInv, NEW r \in Rigs, Drain(r)
  PROVE  PInv'
<1>1. /\ off = NoLoop /\ jobs = <<>> /\ done[r] # <<>>
      /\ jobs' = done[r] /\ done' = [done EXCEPT ![r] = <<>>]
      /\ talker' = talker /\ ptt_vfo' = ptt_vfo /\ ptt_rig' = ptt_rig /\ pending' = pending
      /\ off' = off /\ queue' = queue /\ running' = running /\ outstanding' = outstanding
      /\ halted' = halted /\ tx' = tx /\ failed_last' = failed_last
  BY DEF Drain, radio, history
<1>2. Ordered'
  <2>1. Lines(pending, <<>>, done, running, queue)
    BY <1>1 DEF PInv, Ordered
  <2>2. Lines(pending, done[r], [done EXCEPT ![r] = <<>>], running, queue)
    BY <1>1, <2>1, LinesDrain, Zenon
  <2> QED
    BY <1>1, <2>2 DEF Ordered
<1>3. AllSteady
  BY <1>1, SameSteady DEF AllSteady
<1>4. NewestSilences'
  BY <1>1, <1>3, NewestKept DEF PInv
<1>5. HaltedOff' /\ HaltedRunning' /\ LoopReleases'
  BY <1>1, <1>3, HandKept DEF PInv
<1>6. Typed' /\ Counted' /\ ReleaseAccepted'
  BY <1>1 DEF PInv, Typed, Counted, ReleaseAccepted
<1> QED
  BY <1>2, <1>4, <1>5, <1>6 DEF PInv

\* The worker of rig r takes its next job.
LEMMA TakeStep ==
  ASSUME PInv, NEW r \in Rigs, Take(r)
  PROVE  PInv'
<1> DEFINE Q == queue[r]
           j == Head(queue[r])
<1>1. /\ running[r] = NoJob /\ Q # <<>> /\ queue' = [queue EXCEPT ![r] = Tail(Q)]
      /\ talker' = talker /\ ptt_vfo' = ptt_vfo /\ ptt_rig' = ptt_rig /\ pending' = pending
      /\ off' = off /\ jobs' = jobs /\ outstanding' = outstanding
      /\ halted' = halted /\ tx' = tx /\ failed_last' = failed_last
  BY DEF Take, radio, history
<1>2. /\ Lines(pending, jobs, done, running, queue) /\ Q \in Seq(Job)
      /\ running \in [Rigs -> Job \cup {NoJob}] /\ done \in [Rigs -> Seq(Result)]
      /\ queue \in [Rigs -> Seq(Job)]
  BY DEF PInv, Ordered, Lines
<1> DEFINE x == [running EXCEPT ![r] = j]
<1>3. Lines(pending, jobs, done, x, queue')
  BY <1>1, <1>2, LinesTake, Zenon
<1>4. j \in Job /\ Tail(Q) \in Seq(Job) /\ Elems(Q) = {j} \cup Elems(Tail(Q))
  BY <1>1, <1>2, TailElems
<1>5. j # NoJob
  BY <1>4, JobType
<1>6. queue'[r] = Tail(Q) /\ \A s \in Rigs : s # r => queue'[s] = queue[s]
  BY <1>1, <1>2
<1>7. /\ Ordered' /\ AllSteady /\ \A s \in Rigs : Elems(done[s]) \subseteq Elems(done'[s])
  <2>1. CASE j.on /\ halted[r]
    <3>1. done' = [done EXCEPT ![r] = done[r] \o Finished(r, j, TRUE)] /\ running' = running
      BY <2>1 DEF Take
    <3> DEFINE f == TRUE
    <3>2. f \in BOOLEAN /\ x[r] = j /\ x[r] # NoJob
      BY <1>2, <1>5
    <3> HIDE DEF f, x, j, Q
    <3>3. /\ Lines(pending, jobs, [done EXCEPT ![r] = done[r] \o Finished(r, x[r], f)],
                   [x EXCEPT ![r] = NoJob], queue')
          /\ ResultsOf(Finished(r, x[r], f), r, x[r])
      BY <1>3, <3>2, LinesExecute, Zenon
    <3>4. [x EXCEPT ![r] = NoJob] = running
      BY <1>1, <1>2 DEF x
    <3>5. Ordered'
      BY <1>1, <3>1, <3>2, <3>3, <3>4 DEF Ordered, f
    <3>6. Finished(r, j, TRUE) \in Seq(Result)
      BY <3>2, <3>3 DEF ResultsOf, f
    <3>7. \A s \in Rigs : Elems(done[s]) \subseteq Elems(done'[s])
      <4> DEFINE d == done[r]
                 F == Finished(r, j, TRUE)
      <4>1. d \in Seq(Result) /\ F \in Seq(Result)
        BY <1>2, <3>6
      <4>2. done'[r] = d \o F /\ \A s \in Rigs : s # r => done'[s] = done[s]
        BY <1>2, <3>1
      <4> HIDE DEF F, d
      <4>3. Elems(d) \subseteq Elems(d \o F)
        BY <4>1, ConcatElems
      <4>4. Elems(done[r]) \subseteq Elems(done'[r])
        BY <4>2, <4>3 DEF d
      <4> QED
        BY <4>2, <4>4
    <3>8. AllSteady
      <4> SUFFICES ASSUME NEW s \in Rigs
                   PROVE  Steady(running[s], queue[s], running'[s], queue'[s], halted[s])
        BY DEF AllSteady
      <4>1. CASE s # r
        BY <1>6, <3>1, <4>1, SameSteady
      <4>2. CASE s = r
        <5>1. \A w : ~IsReleaseOf(j, w)
          BY <2>1 DEF IsReleaseOf
        <5>2. running'[r] = NoJob
          BY <1>1, <3>1
        <5> QED
          BY <1>1, <1>4, <1>6, <3>1, <4>2, <5>1, <5>2 DEF Steady, InHand, Q
      <4> QED
        BY <4>1, <4>2
    <3> QED
      BY <3>5, <3>7, <3>8
  <2>2. CASE ~(j.on /\ halted[r])
    <3>1. running' = x /\ done' = done
      BY <2>2 DEF Take
    <3>2. Ordered'
      BY <1>1, <1>3, <3>1 DEF Ordered
    <3>3. running'[r] = j /\ \A s \in Rigs : s # r => running'[s] = running[s]
      BY <1>2, <3>1
    <3> HIDE DEF x, j, Q
    <3>4. AllSteady
      <4> SUFFICES ASSUME NEW s \in Rigs
                   PROVE  Steady(running[s], queue[s], running'[s], queue'[s], halted[s])
        BY DEF AllSteady
      <4>1. CASE s # r
        BY <1>6, <3>3, <4>1, SameSteady
      <4>2. CASE s = r
        <5>1. \A w : ~IsReleaseOf(NoJob, w)
          BY DEF IsReleaseOf
        <5> QED
          BY <1>1, <1>4, <1>6, <2>2, <3>3, <4>2, <5>1 DEF Steady, InHand, Q
      <4> QED
        BY <4>1, <4>2
    <3> QED
      BY <3>1, <3>2, <3>4
  <2> QED
    BY <2>1, <2>2
<1> HIDE DEF x, j, Q
<1>8. NewestSilences'
  BY <1>1, <1>7, NewestKept DEF PInv
<1>9. HaltedOff' /\ HaltedRunning' /\ LoopReleases'
  BY <1>1, <1>7, HandKept DEF PInv
<1>10. Typed' /\ Counted' /\ ReleaseAccepted'
  BY <1>1 DEF PInv, Typed, Counted, ReleaseAccepted
<1> QED
  BY <1>7, <1>8, <1>9, <1>10 DEF PInv

\* The worker of rig r finishes its job.
LEMMA ExecuteStep ==
  ASSUME PInv, NEW r \in Rigs, Execute(r)
  PROVE  PInv'
<1> DEFINE j == running[r]
           v == running[r].vfo
<1>1. PICK failed \in BOOLEAN :
        /\ tx' = [tx EXCEPT ![r][v] = j.on] \/ (failed /\ UNCHANGED tx)
        /\ done' = [done EXCEPT ![r] = done[r] \o Finished(r, j, failed)]
        /\ failed_last' = [failed_last EXCEPT ![r][v] = failed]
  BY DEF Execute
<1>2. /\ j # NoJob /\ running' = [running EXCEPT ![r] = NoJob]
      /\ talker' = talker /\ ptt_vfo' = ptt_vfo /\ ptt_rig' = ptt_rig /\ pending' = pending
      /\ off' = off /\ jobs' = jobs /\ queue' = queue /\ outstanding' = outstanding
      /\ halted' = halted
  BY DEF Execute
<1>3. /\ Lines(pending, jobs, done, running, queue) /\ j \in Job
      /\ running \in [Rigs -> Job \cup {NoJob}] /\ done \in [Rigs -> Seq(Result)]
      /\ queue \in [Rigs -> Seq(Job)] /\ WorkerSound(j, queue[r])
  <2>1. Lines(pending, jobs, done, running, queue)
    BY DEF PInv, Ordered
  <2>2. /\ running \in [Rigs -> Job \cup {NoJob}] /\ done \in [Rigs -> Seq(Result)]
        /\ queue \in [Rigs -> Seq(Job)]
    BY <2>1 DEF Lines
  <2>3. RigSound(pending, r, JobsOf(jobs, r), done[r], running[r], queue[r])
    BY <2>1 DEF Lines
  <2> QED
    BY <1>2, <2>1, <2>2, <2>3 DEF RigSound
<1>4. v \in VFO /\ j.on \in BOOLEAN
  BY <1>3, JobType
<1>5. /\ tx \in [Rigs -> [VFO -> BOOLEAN]] /\ failed_last \in [Rigs -> [VFO -> BOOLEAN]]
      /\ halted \in [Rigs -> BOOLEAN]
  BY DEF PInv, Typed
<1> DEFINE F == Finished(r, j, failed)
<1>6. ResultsOf(F, r, j) /\ Lines(pending, jobs, done', running', queue')
  BY <1>1, <1>2, <1>3, LinesExecute, Zenon
<1> HIDE DEF F, j, v
<1>7. Typed' /\ Counted' /\ ReleaseAccepted' /\ Ordered'
  <2>1. tx' \in [Rigs -> [VFO -> BOOLEAN]]
    <3>1. CASE tx' = [tx EXCEPT ![r][v] = j.on]
      BY <1>4, <1>5, <3>1
    <3> QED
      BY <1>1, <1>5, <3>1
  <2>2. failed_last' \in [Rigs -> [VFO -> BOOLEAN]]
    BY <1>1, <1>4, <1>5
  <2>3. Typed'
    BY <1>2, <2>1, <2>2 DEF PInv, Typed
  <2> QED
    BY <1>2, <1>6, <2>3 DEF PInv, Counted, ReleaseAccepted, Ordered
<1>8. \A s \in Rigs, w \in VFO : ~(s = r /\ w = v) =>
        (tx'[s][w] <=> tx[s][w]) /\ (failed_last'[s][w] <=> failed_last[s][w])
  <2>1. \A s \in Rigs, w \in VFO : ~(s = r /\ w = v) => (failed_last'[s][w] <=> failed_last[s][w])
    BY <1>1, <1>4, <1>5
  <2>2. \A s \in Rigs, w \in VFO : ~(s = r /\ w = v) => (tx'[s][w] <=> tx[s][w])
    <3>1. CASE tx' = [tx EXCEPT ![r][v] = j.on]
      BY <1>4, <1>5, <3>1
    <3> QED
      BY <1>1, <3>1
  <2> QED
    BY <2>1, <2>2
<1>9. tx'[r][v] => j.on \/ failed_last'[r][v]
  <2>1. CASE failed
    BY <1>1, <1>4, <1>5, <2>1
  <2>2. CASE tx' = [tx EXCEPT ![r][v] = j.on]
    BY <1>4, <1>5, <2>2
  <2> QED
    BY <1>1, <2>1, <2>2
<1>10. running'[r] = NoJob /\ \A s \in Rigs : s # r => running'[s] = running[s]
  BY <1>2, <1>3
<1>11. \A s \in Rigs, w \in VFO : ~(s = r /\ w = v) =>
         (InHand(running[s], queue[s], w) => InHand(running'[s], queue'[s], w))
  <2> SUFFICES ASSUME NEW s \in Rigs, NEW w \in VFO, ~(s = r /\ w = v), InHand(running[s], queue[s], w)
               PROVE  InHand(running'[s], queue'[s], w)
    OBVIOUS
  <2>1. CASE s # r
    BY <1>2, <1>10, <2>1
  <2>2. CASE s = r
    <3>1. ~IsReleaseOf(j, w)
      BY <2>2 DEF IsReleaseOf, v, j
    <3> QED
      BY <1>2, <2>2, <3>1 DEF InHand, j
  <2> QED
    BY <2>1, <2>2
<1>12. (\E i \in Elems(queue[r]) : IsReleaseOf(i, v)) => InHand(running'[r], queue'[r], v)
  BY <1>2 DEF InHand
<1>13. NewestSilences'
  <2> SUFFICES ASSUME NEW s \in Rigs, NEW w \in VFO, ReleaseNewest(pending, s, w), tx'[s][w]
               PROVE  InHand(running'[s], queue'[s], w) \/ failed_last'[s][w]
    BY <1>2 DEF NewestSilences
  <2>1. CASE ~(s = r /\ w = v)
    BY <1>8, <1>11, <2>1 DEF PInv, NewestSilences
  <2>2. CASE s = r /\ w = v
    <3>1. ReleaseComes(s, w, jobs, done[s], running[s], queue[s])
      BY <1>3, LinesNewest, Zenon
    <3>2. j.on => \E i \in Elems(queue[r]) : IsReleaseOf(i, v)
      BY <1>2, <2>2, <3>1 DEF ReleaseComes, j, v
    <3> QED
      BY <1>9, <1>12, <2>2, <3>2
  <2> QED
    BY <2>1, <2>2
<1>14. \A s, w : Covers(off, Target, s, w) => Covers(off', Target', s, w)
  BY <1>2 DEF Covers, Target
<1>15. HaltedOff'
  <2> SUFFICES ASSUME NEW s \in Rigs, NEW w \in VFO, halted[s], tx'[s][w]
               PROVE  InHand(running'[s], queue'[s], w) \/ failed_last'[s][w] \/ Covers(off', Target', s, w)
    BY <1>2 DEF HaltedOff
  <2>1. CASE ~(s = r /\ w = v)
    BY <1>8, <1>11, <1>14, <2>1 DEF PInv, HaltedOff
  <2>2. CASE s = r /\ w = v
    <3>1. j.on => (\E i \in Elems(queue[r]) : IsReleaseOf(i, v)) \/ Covers(off, Target, r, v)
      BY <1>2, <2>2 DEF PInv, HaltedRunning, j, v
    <3> QED
      BY <1>9, <1>12, <1>14, <2>2, <3>1
  <2> QED
    BY <2>1, <2>2
<1>16. HaltedRunning'
  <2> SUFFICES ASSUME NEW s \in Rigs, halted[s], running'[s] # NoJob, running'[s].on
               PROVE  \/ \E i \in Elems(queue'[s]) : IsReleaseOf(i, running'[s].vfo)
                      \/ Covers(off', Target', s, running'[s].vfo)
    BY <1>2 DEF HaltedRunning
  <2>1. s # r /\ running'[s] = running[s]
    BY <1>10
  <2> QED
    BY <1>2, <1>14, <2>1 DEF PInv, HaltedRunning
<1>17. LoopReleases'
  <2> SUFFICES ASSUME off # NoLoop, NEW w \in VFO, w < off.next
               PROVE  \/ InHand(running'[Target'], queue'[Target'], w)
                      \/ \E x \in Elems(done'[Target']) \cup Elems(jobs') :
                           x.rig = Target' /\ x.vfo = w /\ ~x.on
    BY <1>2 DEF LoopReleases
  <2>1. Target' = Target /\ Target \in Rigs
    BY <1>2, TargetRig DEF Target, PInv
  <2>2. \/ InHand(running[Target], queue[Target], w)
        \/ \E x \in Elems(done[Target]) \cup Elems(jobs) : x.rig = Target /\ x.vfo = w /\ ~x.on
    BY DEF PInv, LoopReleases
  <2>3. /\ \A s \in Rigs : s # r => done'[s] = done[s]
        /\ Elems(done'[r]) = Elems(done[r]) \cup Elems(F)
    <3> DEFINE d == done[r]
    <3>1. d \in Seq(Result) /\ F \in Seq(Result)
      BY <1>3, <1>6 DEF ResultsOf
    <3>2. done'[r] = d \o F /\ \A s \in Rigs : s # r => done'[s] = done[s]
      BY <1>1, <1>3 DEF F
    <3> HIDE DEF d
    <3>3. Elems(d \o F) = Elems(d) \cup Elems(F)
      BY <3>1, ConcatElems
    <3> QED
      BY <3>2, <3>3 DEF d
  <2>4. CASE \E x \in Elems(done[Target]) \cup Elems(jobs) : x.rig = Target /\ x.vfo = w /\ ~x.on
    BY <1>2, <2>1, <2>3, <2>4
  <2>5. CASE InHand(running[Target], queue[Target], w)
    <3>1. CASE ~(Target = r /\ w = v)
      BY <1>11, <2>1, <2>5, <3>1
    <3>2. CASE Target = r /\ w = v
      <4>1. CASE \E i \in Elems(queue[r]) : IsReleaseOf(i, v)
        BY <1>12, <2>1, <3>2, <4>1
      <4>2. CASE IsReleaseOf(j, v)
        <5>1. 1 \in 1..Len(F) /\ F[1].rig = r /\ F[1].vfo = v /\ ~F[1].on
          <6>1. JobSound(j)
            BY <1>2, <1>3 DEF WorkerSound
          <6>2. Len(F) \in Nat /\ Len(F) >= 1
            BY <1>6, <6>1 DEF JobSound, ResultsOf
          <6>3. 1 \in 1..Len(F)
            BY <6>2
          <6>4. ~j.on /\ j.vfo = v
            BY <4>2 DEF IsReleaseOf
          <6> QED
            BY <1>6, <6>3, <6>4 DEF ResultsOf
        <5>2. F[1] \in Elems(done'[r])
          BY <2>3, <5>1 DEF Elems
        <5> QED
          BY <2>1, <3>2, <5>1, <5>2
      <4> QED
        BY <2>5, <3>2, <4>1, <4>2 DEF InHand, j
    <3> QED
      BY <3>1, <3>2
  <2> QED
    BY <2>2, <2>4, <2>5
<1> QED
  BY <1>7, <1>13, <1>15, <1>16, <1>17 DEF PInv

\* What replaying the first result leaves behind.
Replayed ==
  /\ Lines(pending', Tail(jobs), done', running', queue')
  /\ outstanding' \in [Rigs -> Int]
  /\ \A r \in Rigs : outstanding'[r] <= QueueLimit + Cardinality(ReleasedVfos(pending', r))
  /\ AllSteady
  /\ \A r \in Rigs, w \in VFO : ReleaseNewest(pending', r, w) => ReleaseNewest(pending, r, w)

\* That is enough for the invariant.
LEMMA ReplayKeeps ==
  ASSUME PInv, NEW j, Replay(j), Replayed,
         talker' = NoClient \/ (talker' = talker /\ ptt_vfo' = ptt_vfo)
  PROVE  PInv'
<1>1. /\ off = NoLoop /\ off' = off /\ ptt_rig' = ptt_rig /\ jobs' = Tail(jobs)
      /\ halted' = halted /\ tx' = tx /\ failed_last' = failed_last
  BY DEF Replay, radio
<1>2. Ordered' /\ Counted' /\ outstanding' \in [Rigs -> Int] /\ AllSteady
  BY <1>1 DEF Replayed, Ordered, Counted
<1>3. NewestSilences'
  BY <1>1, <1>2, NewestKept DEF PInv, Replayed
<1>4. HaltedOff' /\ HaltedRunning' /\ LoopReleases'
  BY <1>1, <1>2, HandKept DEF PInv
<1>5. Typed' /\ ReleaseAccepted'
  BY <1>1, <1>2 DEF PInv, Typed, ReleaseAccepted, Client
<1> QED
  BY <1>2, <1>3, <1>4, <1>5 DEF PInv

\* The request that a result answers is pending.
LEMMA PendingOfIs ==
  ASSUME Ordered, jobs # <<>>, Head(jobs).pend # 0
  PROVE  PendingOf(Head(jobs).pend) \in Elems(pending) /\ PendingOf(Head(jobs).pend).id = Head(jobs).pend
<1> DEFINE h == Head(jobs)
           r == h.rig
           X == ResultItem(h)
<1>1. Lines(pending, jobs, done, running, queue) /\ jobs \in Seq(Result)
  BY DEF Ordered, Lines
<1>2. h \in Result /\ h \in Elems(jobs) /\ JobsOf(jobs, r) = jobs
  <2>1. h \in Result /\ h = jobs[1] /\ Elems(jobs) = Elems(Tail(jobs)) \cup {h}
    BY <1>1, TailElems
  <2> QED
    BY <2>1 DEF JobsOf
<1>3. r \in Rigs
  BY <1>2 DEF Result
<1>4. RigSound(pending, r, jobs, done[r], running[r], queue[r])
  BY <1>1, <1>2, <1>3 DEF Lines
<1>5. X \in Items(jobs, done[r], running[r], queue[r]) /\ h.pend \in X.ids
  BY <1>2 DEF Items, ResultItems, ResultItem
<1> HIDE DEF X, r
<1>6. \E p \in Elems(pending) : p.id = h.pend
  BY <1>4, <1>5 DEF RigSound, Matched
<1> QED
  BY <1>6 DEF PendingOf

\* A result that nobody waits for is counted out.
LEMMA ReplayBare ==
  ASSUME PInv, NEW j, Replay(j), j.pend = 0, pending' = pending, CountOut(j)
  PROVE  Replayed
<1>1. /\ jobs # <<>> /\ j = Head(jobs) /\ queue' = queue /\ running' = running /\ done' = done
      /\ outstanding' = [outstanding EXCEPT ![j.rig] = outstanding[j.rig] - 1]
  BY DEF Replay, CountOut
<1>2. Lines(pending, jobs, done, running, queue) /\ outstanding \in [Rigs -> Int]
  BY DEF PInv, Ordered, Typed
<1>3. Lines(pending, Tail(jobs), done, running, queue) /\ j.rig \in Rigs
  BY <1>1, <1>2, LinesReplay, Zenon
<1>4. AllSteady
  BY <1>1, SameSteady DEF AllSteady
<1>5. outstanding' \in [Rigs -> Int] /\ \A r \in Rigs : outstanding'[r] <= outstanding[r]
  BY <1>1, <1>2, <1>3
<1>6. ASSUME NEW r \in Rigs
      PROVE  outstanding'[r] <= QueueLimit + Cardinality(ReleasedVfos(pending', r))
  <2>1. outstanding[r] <= QueueLimit + Cardinality(ReleasedVfos(pending', r))
    BY DEF PInv, Counted
  <2>2. ReleasedVfos(pending', r) \in SUBSET VFO
    BY DEF ReleasedVfos
  <2>3. Cardinality(ReleasedVfos(pending', r)) \in Nat /\ QueueLimit \in Nat
    <3> DEFINE C == ReleasedVfos(pending', r)
    <3> HIDE DEF C
    <3>1. C \in SUBSET VFO
      BY <2>2 DEF C
    <3>2. VFO # {} => Cardinality(C) \in Nat
      BY <3>1, VfoSets
    <3>3. VFO = {} => C = {}
      BY <3>1
    <3> QED
      BY <3>2, <3>3, FS_EmptySet, PttAssumption DEF C
  <2>4. outstanding'[r] \in Int /\ outstanding[r] \in Int /\ outstanding'[r] <= outstanding[r]
    BY <1>2, <1>5
  <2> QED
    BY <2>1, <2>3, <2>4
<1> QED
  BY <1>1, <1>3, <1>4, <1>5, <1>6 DEF Replayed

\* The request of the first result is unlinked.
LEMMA UnlinkFirst ==
  ASSUME Ordered, NEW j, Replay(j), NEW p \in Elems(pending), p.id = j.pend
  PROVE  /\ Lines(Without(pending, {p}), Tail(jobs), done, running, queue)
         /\ j.rig \in Rigs /\ p.rig = j.rig /\ p.vfo = j.vfo /\ p.on = j.on /\ p.vfo \in VFO
         /\ Unlinked(pending, Without(pending, {p}), p, running[j.rig], queue[j.rig])
<1>1. jobs # <<>> /\ j = Head(jobs) /\ Lines(pending, jobs, done, running, queue)
  BY DEF Replay, Ordered
<1>2. /\ Lines(Without(pending, {p}), Tail(jobs), done, running, queue)
      /\ Head(jobs).rig \in Rigs /\ p.rig = Head(jobs).rig
      /\ p.vfo = Head(jobs).vfo /\ p.on = Head(jobs).on
      /\ Unlinked(pending, Without(pending, {p}), p, running[p.rig], queue[p.rig])
  BY <1>1, LinesUnlink, Zenon
<1>3. p.vfo \in VFO
  <2>1. pending \in Seq(Pending)
    BY <1>1 DEF Lines
  <2>2. p \in Pending
    BY <2>1 DEF Elems
  <2> QED
    BY <2>2 DEF Pending
<1> QED
  BY <1>1, <1>2, <1>3

\* The result of request p is counted out: the reserve of the VFO may go with
\* it, and so does the job.
LEMMA ReplayCounted ==
  ASSUME PInv, NEW j, Replay(j), NEW p \in Elems(pending), p.id = j.pend,
         pending' = Without(pending, {p}), CountOut(j)
  PROVE  Replayed
<1>1. /\ queue' = queue /\ running' = running /\ done' = done
      /\ outstanding' = [outstanding EXCEPT ![j.rig] = outstanding[j.rig] - 1]
  BY DEF CountOut
<1>2. outstanding \in [Rigs -> Int] /\ QueueLimit \in Nat
  BY PttAssumption DEF PInv, Typed
<1>3. /\ Lines(pending', Tail(jobs), done, running, queue)
      /\ j.rig \in Rigs /\ p.rig = j.rig /\ p.vfo = j.vfo /\ p.on = j.on /\ p.vfo \in VFO
      /\ Unlinked(pending, pending', p, running[j.rig], queue[j.rig])
  BY UnlinkFirst, Zenon DEF PInv
<1>4. /\ \A s \in Rigs : \A v : ReleaseNewest(pending', s, v) => ReleaseNewest(pending, s, v)
      /\ \A s, v : ReleaseNewest(pending, s, v) =>
           ReleaseNewest(pending', s, v) \/ (~p.on /\ p.rig = s /\ p.vfo = v)
  BY <1>3 DEF Unlinked
<1>5. AllSteady
  BY <1>1, SameSteady DEF AllSteady
<1>6. outstanding' \in [Rigs -> Int]
  BY <1>1, <1>2, <1>3
<1>7. ASSUME NEW r \in Rigs
      PROVE  outstanding'[r] <= QueueLimit + Cardinality(ReleasedVfos(pending', r))
  <2> DEFINE A == ReleasedVfos(pending, r)
             B == ReleasedVfos(pending', r)
  <2>1. A \in SUBSET VFO /\ B \in SUBSET VFO
    BY DEF ReleasedVfos
  <2>2. A \ {p.vfo} \subseteq B /\ (r # j.rig => A \subseteq B)
    BY <1>3, <1>4 DEF ReleasedVfos
  <2>3. outstanding[r] <= QueueLimit + Cardinality(A)
    BY DEF PInv, Counted
  <2> HIDE DEF A, B
  <2>4. Cardinality(A) \in Nat /\ Cardinality(B) \in Nat /\ Cardinality(A) <= Cardinality(B) + 1
    BY <1>3, <2>1, <2>2, VfoSets
  <2>5. CASE r = j.rig
    <3>1. outstanding'[r] = outstanding[r] - 1 /\ outstanding[r] \in Int
      BY <1>1, <1>2, <2>5
    <3> QED
      BY <1>2, <2>3, <2>4, <3>1 DEF B
  <2>6. CASE r # j.rig
    <3>1. outstanding'[r] = outstanding[r] /\ outstanding[r] \in Int
      BY <1>1, <1>2, <2>6
    <3>2. Cardinality(A) <= Cardinality(B)
      BY <1>3, <2>1, <2>2, <2>6, VfoSets
    <3> QED
      BY <1>2, <2>3, <2>4, <3>1, <3>2 DEF B
  <2> QED
    BY <2>5, <2>6
<1> QED
  BY <1>1, <1>3, <1>4, <1>5, <1>6, <1>7 DEF Replayed

\* A key-down whose request still counts is taken back.  Its own count makes
\* room for the release, and no release behind it answers anybody.
LEMMA ReplayUntracked ==
  ASSUME PInv, NEW j, Replay(j), NEW p \in Elems(pending), p.id = j.pend,
         p.on, ~p.superseded, pending' = Without(pending, {p}),
         UntrackedRelease(j.rig, j.vfo, outstanding[j.rig] - 1)
  PROVE  Replayed
<1> DEFINE t == j.rig
           n == outstanding[j.rig] - 1
<1>2. outstanding \in [Rigs -> Int] /\ QueueLimit \in Nat
  BY PttAssumption DEF PInv, Typed
<1>3. /\ Lines(pending', Tail(jobs), done, running, queue)
      /\ j.rig \in Rigs /\ p.rig = j.rig /\ p.vfo = j.vfo /\ p.on = j.on /\ p.vfo \in VFO
      /\ Unlinked(pending, pending', p, running[j.rig], queue[j.rig])
  BY UnlinkFirst, Zenon DEF PInv
<1>4. /\ \A s \in Rigs : \A v : ReleaseNewest(pending', s, v) => ReleaseNewest(pending, s, v)
      /\ \A s, v : ReleaseNewest(pending, s, v) => ReleaseNewest(pending', s, v)
      /\ \A X \in RunningItems(running[t]) \cup JobItems(queue[t]) :
           ~X.on /\ X.vfo = j.vfo => X.ids = {}
  BY <1>3 DEF Unlinked
<1>5. t \in Rigs /\ j.vfo \in VFO /\ n \in Int
  BY <1>2, <1>3
<1>6. ASSUME outstanding' \in [Rigs -> Int], \A r \in Rigs : outstanding'[r] <= outstanding[r]
      PROVE  \A r \in Rigs : outstanding'[r] <= QueueLimit + Cardinality(ReleasedVfos(pending', r))
  <2> TAKE r \in Rigs
  <2> DEFINE C == ReleasedVfos(pending, r)
  <2>1. C \in SUBSET VFO /\ ReleasedVfos(pending', r) = C
    BY <1>4 DEF ReleasedVfos
  <2>2. outstanding[r] <= QueueLimit + Cardinality(C)
    BY DEF PInv, Counted
  <2> HIDE DEF C
  <2>3. Cardinality(C) \in Nat
    BY <1>5, <2>1, VfoSets
  <2>4. outstanding[r] \in Int /\ outstanding'[r] \in Int /\ outstanding'[r] <= outstanding[r]
    BY <1>2, <1>6
  <2> QED
    BY <1>2, <2>1, <2>2, <2>3, <2>4
<1>7. CASE ReleaseRoom(n)
  <2>1. SubmitRelease(t, j.vfo, 0, n)
    BY <1>7 DEF UntrackedRelease
  <2>2. /\ Submitted(t, j.vfo, 0, done, running, queue, done', running', queue')
        /\ outstanding' = [outstanding EXCEPT ![t] = n + 1]
    BY <1>5, <2>1, SubmitIs DEF PInv
  <2>3. outstanding' = outstanding
    BY <1>2, <1>5, <2>2
  <2>4. /\ Lines(pending', Tail(jobs), done', running', queue')
        /\ Kept(running[t], queue[t], running'[t], queue'[t], j.vfo)
    BY <1>3, <1>4, <1>5, <2>2, LinesUntracked, Zenon
  <2>5. \A r \in Rigs : r # t => running'[r] = running[r] /\ queue'[r] = queue[r]
    BY <1>3, <2>2 DEF Submitted, Lines
  <2>6. AllSteady
    <3> SUFFICES ASSUME NEW r \in Rigs
                 PROVE  Steady(running[r], queue[r], running'[r], queue'[r], halted[r])
      BY DEF AllSteady
    <3>1. CASE r = t
      BY <2>4, <3>1, KeptSteady
    <3>2. CASE r # t
      BY <2>5, <3>2, SameSteady
    <3> QED
      BY <3>1, <3>2
  <2>7. \A r \in Rigs : outstanding'[r] <= outstanding[r]
    BY <1>2, <2>3
  <2> QED
    BY <1>2, <1>4, <1>6, <2>3, <2>4, <2>6, <2>7 DEF Replayed
<1>8. CASE ~ReleaseRoom(n)
  <2>1. /\ outstanding' = [outstanding EXCEPT ![t] = n]
        /\ queue' = queue /\ running' = running /\ done' = done
    BY <1>8 DEF UntrackedRelease
  <2>2. AllSteady
    BY <2>1, SameSteady DEF AllSteady
  <2>3. outstanding' \in [Rigs -> Int] /\ \A r \in Rigs : outstanding'[r] <= outstanding[r]
    BY <1>2, <1>5, <2>1
  <2> QED
    BY <1>3, <1>4, <1>6, <2>1, <2>2, <2>3 DEF Replayed
<1> QED
  BY <1>7, <1>8

\* A result is replayed.
LEMMA CompleteStep ==
  ASSUME PInv, Complete
  PROVE  PInv'
<1>1. PICK j \in Elems(jobs) :
        \/ DropResult(j)
        \/ \E p \in Elems(pending) :
             \/ CancelStale(j, p) \/ RejectKeyDown(j, p) \/ ConfirmKeyDown(j, p)
             \/ LockKeyDown(j, p) \/ FailRelease(j, p) \/ ConfirmRelease(j, p)
  BY DEF Complete
<1>2. ASSUME Replay(j), j.pend # 0
      PROVE  PendingOf(j.pend) \in Elems(pending) /\ PendingOf(j.pend).id = j.pend
  <2>1. jobs # <<>> /\ j = Head(jobs)
    BY <1>2 DEF Replay
  <2> QED
    BY <1>2, <2>1, PendingOfIs DEF PInv
<1>3. CASE DropResult(j)
  <2>1. Replay(j) /\ talker' = talker /\ ptt_vfo' = ptt_vfo /\ CountOut(j)
    BY <1>3 DEF DropResult
  <2>2. CASE j.pend = 0 /\ UNCHANGED pending
    <3>1. Replayed
      BY <2>1, <2>2, ReplayBare
    <3> QED
      BY <2>1, <3>1, ReplayKeeps
  <2>3. CASE j.pend # 0 /\ pending' = Without(pending, {PendingOf(j.pend)})
    <3>1. Replayed
      BY <1>2, <2>1, <2>3, ReplayCounted
    <3> QED
      BY <2>1, <3>1, ReplayKeeps
  <2> QED
    BY <1>3, <2>2, <2>3 DEF DropResult
<1>4. ASSUME NEW p \in Elems(pending), Completed(j, p), CountOut(j), talker' = talker, ptt_vfo' = ptt_vfo
      PROVE  PInv'
  <2>1. Replay(j) /\ p.id = j.pend /\ pending' = Without(pending, {p})
    BY <1>2, <1>4 DEF Completed
  <2>2. Replayed
    BY <1>4, <2>1, ReplayCounted
  <2> QED
    BY <1>4, <2>1, <2>2, ReplayKeeps
<1>5. ASSUME NEW p \in Elems(pending), Completed(j, p), p.on,
             UntrackedRelease(j.rig, j.vfo, outstanding[j.rig] - 1),
             talker' = NoClient \/ (talker' = talker /\ ptt_vfo' = ptt_vfo)
      PROVE  PInv'
  <2>1. Replay(j) /\ p.id = j.pend /\ ~p.superseded /\ pending' = Without(pending, {p})
    BY <1>2, <1>5 DEF Completed
  <2>2. Replayed
    BY <1>5, <2>1, ReplayUntracked
  <2> QED
    BY <1>5, <2>1, <2>2, ReplayKeeps
<1>6. ASSUME NEW p \in Elems(pending), CancelStale(j, p) PROVE PInv'
  BY <1>5, <1>6 DEF CancelStale
<1>7. ASSUME NEW p \in Elems(pending), RejectKeyDown(j, p) PROVE PInv'
  BY <1>5, <1>7 DEF RejectKeyDown
<1>8. ASSUME NEW p \in Elems(pending), ConfirmKeyDown(j, p) PROVE PInv'
  BY <1>4, <1>8 DEF ConfirmKeyDown
<1>9. ASSUME NEW p \in Elems(pending), LockKeyDown(j, p) PROVE PInv'
  BY <1>5, <1>9 DEF LockKeyDown
<1>10. ASSUME NEW p \in Elems(pending), FailRelease(j, p) PROVE PInv'
  BY <1>4, <1>10 DEF FailRelease
<1>11. ASSUME NEW p \in Elems(pending), ConfirmRelease(j, p) PROVE PInv'
  BY <1>4, <1>11 DEF ConfirmRelease
<1> QED
  BY <1>1, <1>3, <1>6, <1>7, <1>8, <1>9, <1>10, <1>11

\* The callers of rr_ptt_set_all_off_reason.
LEMMA LoopStarts ==
  ASSUME PInv,
         \/ ForceOff \/ Fault \/ TalkTimeout \/ RetryStop \/ Shutdown
         \/ \E r \in Rigs : EstopTrip(r) \/ EstopReset(r)
  PROVE  PInv'
<1>1. ptt_rig \in Rigs \cup {NoRig} /\ halted \in [Rigs -> BOOLEAN]
  BY DEF PInv, Typed
<1>2. ASSUME NEW why \in AllCauses \ {"trip", "reset"}, StartOff(why, ptt_rig), halted' = halted
      PROVE  PInv'
  <2>1. why \in AllCauses /\ (why \in {"trip", "reset"} => ptt_rig \in Rigs)
    OBVIOUS
  <2>2. halted' \in [Rigs -> BOOLEAN] /\ \A s \in Rigs : halted'[s] => halted[s] \/ s = ptt_rig
    BY <1>1, <1>2
  <2> QED
    BY <1>1, <1>2, <2>1, <2>2, StartOffStep
<1>3. ASSUME NEW r \in Rigs, NEW why \in {"trip", "reset"}, StartOff(why, r),
             halted' \in [Rigs -> BOOLEAN], \A s \in Rigs : halted'[s] => halted[s] \/ s = r
      PROVE  PInv'
  <2>1. why \in AllCauses /\ r \in Rigs \cup {NoRig}
    BY DEF AllCauses
  <2> QED
    BY <1>3, <2>1, StartOffStep
<1>4. CASE ForceOff
  BY <1>2, <1>4 DEF ForceOff, AllCauses
<1>5. CASE Fault
  BY <1>2, <1>5 DEF Fault, AllCauses
<1>6. CASE TalkTimeout
  BY <1>2, <1>6 DEF TalkTimeout, AllCauses
<1>7. CASE RetryStop
  BY <1>2, <1>7 DEF RetryStop, AllCauses
<1>8. CASE Shutdown
  BY <1>2, <1>8 DEF Shutdown, AllCauses
<1>9. ASSUME NEW r \in Rigs, EstopTrip(r) PROVE PInv'
  <2>1. StartOff("trip", r) /\ halted' = [halted EXCEPT ![r] = TRUE]
    BY <1>9 DEF EstopTrip
  <2>2. halted' \in [Rigs -> BOOLEAN] /\ \A s \in Rigs : halted'[s] => halted[s] \/ s = r
    BY <1>1, <2>1
  <2> QED
    BY <1>3, <2>1, <2>2
<1>10. ASSUME NEW r \in Rigs, EstopReset(r) PROVE PInv'
  <2>1. StartOff("reset", r) /\ halted' = halted
    BY <1>10 DEF EstopReset
  <2> QED
    BY <1>1, <1>3, <2>1
<1> QED
  BY <1>4, <1>5, <1>6, <1>7, <1>8, <1>9, <1>10

\* A step that touches nothing the invariant is about.
LEMMA QuietStep ==
  ASSUME PInv,
         UNCHANGED <<talker, ptt_vfo, ptt_rig, pending, off, jobs, queue, running, done,
                     outstanding, halted, tx, failed_last>>
  PROVE  PInv'
<1>1. /\ talker' = talker /\ ptt_vfo' = ptt_vfo /\ ptt_rig' = ptt_rig /\ pending' = pending
      /\ off' = off /\ jobs' = jobs /\ queue' = queue /\ running' = running /\ done' = done
      /\ outstanding' = outstanding /\ halted' = halted /\ tx' = tx /\ failed_last' = failed_last
  OBVIOUS
<1>2. AllSteady
  BY <1>1, SameSteady DEF AllSteady
<1>3. NewestSilences'
  BY <1>1, <1>2, NewestKept DEF PInv
<1>4. HaltedOff' /\ HaltedRunning' /\ LoopReleases'
  BY <1>1, <1>2, HandKept DEF PInv
<1>5. Typed' /\ Ordered' /\ Counted' /\ ReleaseAccepted'
  BY <1>1 DEF PInv, Typed, Ordered, Counted, ReleaseAccepted
<1> QED
  BY <1>3, <1>4, <1>5 DEF PInv

\* The invariant holds at the start.
LEMMA InitPInv ==
  ASSUME Init
  PROVE  PInv
<1>1. /\ talker = NoClient /\ ptt_rig = NoRig /\ off = NoLoop /\ pending = <<>> /\ jobs = <<>>
      /\ queue = [r \in Rigs |-> <<>>] /\ done = [r \in Rigs |-> <<>>]
      /\ running = [r \in Rigs |-> NoJob] /\ outstanding = [r \in Rigs |-> 0]
      /\ halted = [r \in Rigs |-> FALSE]
      /\ tx = [r \in Rigs |-> [v \in VFO |-> FALSE]]
      /\ failed_last = [r \in Rigs |-> [v \in VFO |-> FALSE]]
  BY DEF Init, All
<1>2. Typed
  BY <1>1 DEF Typed, Client
<1>3. Ordered
  <2>1. /\ <<>> \in Seq(Pending) /\ <<>> \in Seq(Result) /\ <<>> \in Seq(Job) /\ Len(<<>>) = 0
    OBVIOUS
  <2>2. /\ pending \in Seq(Pending) /\ jobs \in Seq(Result) /\ done \in [Rigs -> Seq(Result)]
        /\ running \in [Rigs -> Job \cup {NoJob}] /\ queue \in [Rigs -> Seq(Job)]
    BY <1>1, <2>1
  <2>3. Unique(<<>>) /\ OvertakenSuperseded(<<>>) /\ OneRig(<<>>)
    BY <2>1 DEF Unique, OvertakenSuperseded, OneRig
  <2>4. ASSUME NEW r \in Rigs PROVE RigSound(<<>>, r, <<>>, <<>>, NoJob, <<>>)
    <3>1. Elems(<<>>) = {} /\ Items(<<>>, <<>>, NoJob, <<>>) = {}
      BY NoItems DEF Items
    <3>2. Line(<<>>, <<>>, <<>>, NoJob, <<>>)
      BY <2>1, NoItems DEF Line, ResultsInOrder, JobsInOrder, Across
    <3>3. Matched(<<>>, r, {}) /\ Carried(<<>>, r, {})
      BY <3>1 DEF Matched, Carried
    <3>4. WorkerSound(NoJob, <<>>)
      BY <2>1, <3>1 DEF WorkerSound, OneRelease
    <3> QED
      BY <3>1, <3>2, <3>3, <3>4 DEF RigSound
  <2>5. \A r \in Rigs : /\ JobsOf(jobs, r) = <<>> /\ done[r] = <<>> /\ running[r] = NoJob
                        /\ queue[r] = <<>>
    BY <1>1 DEF JobsOf
  <2> QED
    BY <1>1, <2>2, <2>3, <2>4, <2>5 DEF Ordered, Lines
<1>4. Counted
  <2> SUFFICES ASSUME NEW r \in Rigs
               PROVE  outstanding[r] <= QueueLimit + Cardinality(ReleasedVfos(pending, r))
    BY DEF Counted
  <2>1. ReleasedVfos(pending, r) = {}
    <3>1. Len(pending) = 0
      BY <1>1
    <3> QED
      BY <3>1 DEF ReleasedVfos, ReleaseNewest
  <2>2. Cardinality({}) = 0 /\ QueueLimit \in Nat /\ outstanding[r] = 0
    BY <1>1, FS_EmptySet, PttAssumption
  <2> QED
    BY <2>1, <2>2
<1>5. ReleaseAccepted /\ LoopReleases
  BY <1>1 DEF ReleaseAccepted, LoopReleases
<1>6. NewestSilences /\ HaltedOff /\ HaltedRunning
  BY <1>1 DEF NewestSilences, HaltedOff, HaltedRunning
<1> QED
  BY <1>2, <1>3, <1>4, <1>5, <1>6 DEF PInv

\* Every action keeps the invariant.
LEMMA StepPInv ==
  ASSUME PInv, [Next]_vars
  PROVE  PInv'
<1>1. ASSUME NEW c \in Clients, NEW r \in Rigs, NEW v \in VFO, KeyDown(c, r, v) PROVE PInv'
  BY <1>1, KeyDownStep
<1>2. CASE KeyUp
  BY <1>2, KeyUpStep
<1>3. ASSUME NEW c \in Clients, Disconnect(c) PROVE PInv'
  BY <1>3, DisconnectStep
<1>4. CASE \/ ForceOff \/ Fault \/ TalkTimeout \/ RetryStop \/ Shutdown
           \/ \E r \in Rigs : EstopTrip(r) \/ EstopReset(r)
  BY <1>4, LoopStarts
<1>5. CASE OffVfo
  BY <1>5, OffVfoStep
<1>6. CASE EndOff
  BY <1>6, EndOffStep
<1>7. ASSUME NEW r \in Rigs, Drain(r) PROVE PInv'
  BY <1>7, DrainStep
<1>8. CASE Complete
  BY <1>8, CompleteStep
<1>9. CASE AccountingFailed
  BY <1>9, QuietStep DEF AccountingFailed, worker, radio, history
<1>10. ASSUME NEW r \in Rigs, Take(r) PROVE PInv'
  BY <1>10, TakeStep
<1>11. ASSUME NEW r \in Rigs, Execute(r) PROVE PInv'
  BY <1>11, ExecuteStep
<1>12. CASE UNCHANGED vars
  BY <1>12, QuietStep DEF vars, worker, radio, history
<1> QED
  BY <1>1, <1>2, <1>3, <1>4, <1>5, <1>6, <1>7, <1>8, <1>9, <1>10, <1>11, <1>12
     DEF Next, WorkerStep

----------------------------------------------------------------------------
(* Theorems *)

\* The line of every rig stays in order, whatever clients, timers, faults, the
\* emergency stop and the workers do, in whatever order: the inductive
\* invariant of transmit control.
THEOREM PttInvariant == Spec => []PInv
<1>1. Init => PInv
  BY InitPInv
<1>2. PInv /\ [Next]_vars => PInv'
  BY StepPInv
<1> QED
  BY <1>1, <1>2, PTL DEF Spec

\* A forced release is never refused, for any queue limit: what
\* rr_backend_worker_submit keeps in reserve, one job per VFO, suffices because
\* a VFO has a release beyond the limit only while its newest request is one.
THEOREM PttReleaseAccepted == Spec => []ReleaseAccepted
<1>1. PInv => ReleaseAccepted
  BY DEF PInv
<1> QED
  BY <1>1, PttInvariant, PTL

\* The emergency stop silences its rig in every interleaving with requests,
\* completions and the other loops.
THEOREM PttHaltSilences == Spec => []HaltSilences
<1>1. PInv => HaltSilences
  <2> SUFFICES ASSUME PInv, NEW r \in Rigs, NEW v \in VFO, halted[r], tx[r][v]
               PROVE  ReleaseUnderway(r, v) \/ failed_last[r][v]
    BY DEF HaltSilences
  <2>1. InHand(running[r], queue[r], v) \/ failed_last[r][v] \/ Covers(off, Target, r, v)
    BY DEF PInv, HaltedOff
  <2> QED
    BY <2>1 DEF InHand, Covers, ReleaseUnderway
<1> QED
  BY <1>1, PttInvariant, PTL

\* Lifting the emergency stop: rr_ptt_set_all_off_reason has been through every
\* VFO of the rig, so whatever is on the air has a release on its way.
THEOREM PttResetReleases == Spec => ResetReleases
<1> DEFINE Lift == \A r \in Rigs : halted[r] /\ ~halted'[r] =>
                     \A v \in VFO : tx[r][v] => ReleaseUnderway(r, v)
<1>1. PInv /\ [Next]_vars => [Lift]_vars
  <2> SUFFICES ASSUME PInv, Next, NEW r \in Rigs, halted[r], ~halted'[r], NEW v \in VFO
               PROVE  ReleaseUnderway(r, v)
    OBVIOUS
  <2>1. halted \in [Rigs -> BOOLEAN]
    BY DEF PInv, Typed
  <2>2. ~(halted' = halted)
    OBVIOUS
  <2>3. ~(\E s \in Rigs : halted' = [halted EXCEPT ![s] = TRUE])
    BY <2>1
  <2>4. EndOff
    <3>1. ASSUME Complete PROVE halted' = halted
      <4>1. \A j : DropResult(j) => Replay(j)
        BY DEF DropResult
      <4>2. \A j, p : CancelStale(j, p) \/ RejectKeyDown(j, p) \/ ConfirmKeyDown(j, p)
                       \/ LockKeyDown(j, p) \/ FailRelease(j, p) \/ ConfirmRelease(j, p) => Completed(j, p)
        BY ZenonT(60) DEF CancelStale, RejectKeyDown, ConfirmKeyDown, LockKeyDown, FailRelease, ConfirmRelease
      <4>3. \A j, p : Completed(j, p) => Replay(j)
        BY DEF Completed
      <4>4. \E j : Replay(j)
        BY <3>1, <4>1, <4>2, <4>3 DEF Complete
      <4> QED
        BY <4>4 DEF Replay, radio
    <3>2. /\ ForceOff \/ Fault \/ TalkTimeout \/ RetryStop \/ Shutdown => halted' = halted
          /\ (\E s \in Rigs : EstopReset(s)) => halted' = halted
      BY DEF ForceOff, Fault, TalkTimeout, RetryStop, Shutdown, EstopReset
    <3>3. ~(\E s \in Rigs : EstopTrip(s))
      BY <2>3 DEF EstopTrip
    <3>4. KeyUp \/ OffVfo \/ AccountingFailed \/ WorkerStep => halted' = halted
      BY DEF KeyUp, OffVfo, AccountingFailed, WorkerStep, Take, Execute, radio
    <3>5. /\ (\E c \in Clients, s \in Rigs, w \in VFO : KeyDown(c, s, w)) => halted' = halted
          /\ (\E c \in Clients : Disconnect(c)) => halted' = halted
          /\ (\E s \in Rigs : Drain(s)) => halted' = halted
      BY DEF KeyDown, Disconnect, Drain, radio
    <3> QED
      BY <2>2, <3>1, <3>2, <3>3, <3>4, <3>5 DEF Next
  <2>5. /\ off # NoLoop /\ off.next = MaxVfos /\ off.why = "reset"
        /\ halted' = [halted EXCEPT ![ptt_rig] = FALSE]
    BY <2>2, <2>4 DEF EndOff
  <2>6. ptt_rig = r
    BY <2>1, <2>5
  <2>7. Target = r
    BY <2>6, PttAssumption DEF Target
  <2>8. v < off.next
    BY <2>5, LogAssumption DEF VFO
  <2> QED
    BY <2>5, <2>7, <2>8 DEF PInv, LoopReleases, InHand, ReleaseUnderway
<1> QED
  BY <1>1, PttInvariant, PTL DEF Spec, ResetReleases
============================================================================
