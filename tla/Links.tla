------------------------------- MODULE Links -------------------------------
(***************************************************************************)
(* Server linking (link.c, link.native.c): servers dial each other, admit  *)
(* a link in a handshake that exchanges topology snapshots, and then keep  *)
(* their routing trees in step with introductions and withdrawals.         *)
(*                                                                         *)
(* A socket has two ends and each end belongs to a session of its server.  *)
(* The transport is a FIFO stream per direction that may break: fail()     *)
(* marks the session closing and aborts the transport, and close_session   *)
(* runs later, from the CLOSE callback of either end.  A closing session   *)
(* ignores what arrives (native_callback) and is sent nothing              *)
(* (send_message), so its incoming stream is dropped at once.  Closing may *)
(* overtake what the other end has not read yet.                           *)
(***************************************************************************)
EXTENDS LinkTree, Sequences

CONSTANTS
  Dials,        \* <<a, b>>: a has an autoconnect URL for b
  NoSocket,     \* the NULL session
  MaxDials,     \* bound: sockets ever opened
  MaxBreaks     \* bound: timeouts, transport errors and heartbeat failures

ASSUME LinksAssumption ==
  /\ Dials \subseteq Server \X Server
  /\ \A d \in Dials : d[1] # d[2]
  /\ NoSocket \notin Nat
  /\ MaxDials \in Nat /\ MaxBreaks \in Nat

Socket == 1 .. MaxDials
Side   == {"out", "in"}
End    == Socket \X Side

VARIABLES
  tree,         \* server -> its links.tree
  current,      \* server, server -> peer->session, as a socket
  blocked,      \* server -> the peers with policy_blocked set
  ends,         \* open socket -> <<initiator, acceptor>>
  session,      \* end -> link_session
  wire,         \* end -> the messages on their way to it
  dialed,       \* sockets opened so far
  breaks        \* breaks so far

vars == <<tree, current, blocked, ends, session, wire, dialed, breaks>>

\* phase: hello, snapshot/admitted and ready/established, in the order in
\* which a session sets them; "gone" before new_session and after free.
\* gave_way: the socket it lost the tie-break to (read by a property only).
\* behind: links.generation - session->generation, counted to 2.
Phase   == {"gone", "new", "hello", "admitted", "established"}
Session == [phase : Phase, closing : BOOLEAN, behind : 0 .. 2,
            gave_way : 0 .. MaxDials]
Gone    == [phase |-> "gone", closing |-> FALSE, behind |-> 0,
            gave_way |-> 0]
Opened  == [phase |-> "new", closing |-> FALSE, behind |-> 0,
            gave_way |-> 0]

Other(e)  == <<e[1], IF e[2] = "out" THEN "in" ELSE "out">>
Owner(e)  == IF e[2] = "out" THEN ends[e[1]][1] ELSE ends[e[1]][2]
Peer(e)   == Owner(Other(e))
Alive(e)  == session[e].phase # "gone"
Open(e)   == Alive(e) /\ ~session[e].closing
\* links.sessions of a server.
Sessions(n) == {e \in End : Alive(e) /\ Owner(e) = n}

\* Where broadcast(exclude, d) sends.
Audience(e) ==
  {f \in Sessions(Owner(e)) \ {e} : session[f].phase = "established" /\ Open(f)}

(***************************************************************************)
(* Messages.                                                               *)
(***************************************************************************)
NoNodes == [s \in {} |-> NoServer]
Message(op, node, parent, nodes) ==
  [op |-> op, node |-> node, parent |-> parent, nodes |-> nodes]
Hello           == Message("hello", NoServer, NoServer, NoNodes)
Ready           == Message("ready", NoServer, NoServer, NoNodes)
Snapshot(t)     == Message("snapshot", NoServer, NoServer,
                           [s \in Known(t) |-> t[s].parent])
Introduce(s, p) == Message("introduce", s, p, NoNodes)
Withdraw(s)     == Message("withdraw", s, NoServer, NoNodes)

\* The streams after the owner of each end in from sends it msgs.  What is
\* sent to a session that is gone or closing is never looked at.
Send(w, from, msgs) ==
  [e \in End |-> IF Other(e) \in from /\ Open(e) THEN w[e] \o msgs ELSE w[e]]

\* The stream of e after its first message was taken.
Taken(e) == [wire EXCEPT ![e] = Tail(@)]

(***************************************************************************)
(* Sessions.                                                               *)
(***************************************************************************)
\* The session tables and streams after fail() on the sessions of the set F.
Closing(ss, F, winner) ==
  [e \in End |-> IF e \in F
     THEN [ss[e] EXCEPT !.closing = TRUE, !.gave_way = winner] ELSE ss[e]]
Cut(w, F) == [e \in End |-> IF e \in F THEN <<>> ELSE w[e]]

Fail(e) ==
  /\ session' = Closing(session, {e}, 0)
  /\ wire' = Cut(wire, {e})

\* links.generation++ at server n, on top of the session table ss.  Only a
\* session that is still being admitted will compare generations again.
Bump(n, ss) ==
  [e \in End |->
     IF ss[e].phase \in {"hello", "admitted"} /\ Owner(e) = n
     THEN [ss[e] EXCEPT !.behind = IF @ = 2 THEN 2 ELSE @ + 1] ELSE ss[e]]

MayDial(a, b) ==
  /\ <<a, b>> \in Dials
  /\ current[a][b] = NoSocket
  /\ b \notin blocked[a]

\* rrserver_links_poll dials, the transport connects, both ends prove their
\* identity and the initiator sends its hello.  An inbound session has no
\* effect before its hello, so the delay of all this is the hello's.
Dial(a, b) ==
  /\ dialed < MaxDials
  /\ MayDial(a, b)
  /\ LET k == dialed + 1 IN
       /\ dialed' = k
       /\ ends' = [ends EXCEPT ![k] = <<a, b>>]
       /\ current' = [current EXCEPT ![a][b] = k]
       /\ session' = [session EXCEPT ![<<k, "out">>] = Opened,
                                     ![<<k, "in">>] = Opened]
       /\ wire' = [wire EXCEPT ![<<k, "in">>] = <<Hello>>]
  /\ UNCHANGED <<tree, blocked, breaks>>

\* A handshake or heartbeat timeout, a transport error, revoked trust.
Break(e) ==
  /\ breaks < MaxBreaks
  /\ Open(e)
  /\ breaks' = breaks + 1
  /\ Fail(e)
  /\ UNCHANGED <<tree, current, blocked, ends, dialed>>

\* Mutant: an admission that was not completed leaves its branch behind.
OwnsBranchLate(e) == session[e].phase = "established"

\* session->admitted.
OwnsBranch(e) == session[e].phase \in {"admitted", "established"}

\* The CLOSE callback: this end was aborted, or the other one was.
close_session(e) ==
  LET n == Owner(e)
      p == Peer(e)
      closed == [session EXCEPT ![e] = Gone]
      drained == [wire EXCEPT ![e] = <<>>]
  IN
  /\ Alive(e)
  /\ ~Open(e) \/ ~Open(Other(e))
  /\ tree' = IF OwnsBranch(e) /\ CanRemove(tree[n], p, p)
             THEN [tree EXCEPT ![n] = Remove(tree[n], p)] ELSE tree
  /\ session' = IF OwnsBranch(e) THEN Bump(n, closed) ELSE closed
  /\ wire' = IF session[e].phase = "established"
             THEN Send(drained, Audience(e), <<Withdraw(p)>>) ELSE drained
  /\ current' = IF current[n][p] = e[1]
                THEN [current EXCEPT ![n][p] = NoSocket] ELSE current
  /\ ends' = IF Alive(Other(e)) THEN ends
             ELSE [ends EXCEPT ![e[1]] = <<NoServer, NoServer>>]
  /\ UNCHANGED <<blocked, dialed, breaks>>

(***************************************************************************)
(* handle_frame: one action per message, its failures included.            *)
(***************************************************************************)
Received(e, op) == wire[e] # <<>> /\ Head(wire[e]).op = op

\* peer->session, when it is another session that is not closing.
Rival(e) ==
  {f \in Sessions(Owner(e)) \ {e} :
     f[1] = current[Owner(e)][Peer(e)] /\ Open(f)}

\* Mutant: each end prefers the socket it opened itself.
LosesToOwn(e, f) == f[2] = "out" \/ e[2] # "out"

\* Of two pending attempts the one whose initiator has the smaller UUID wins.
LosesTo(e, f) ==
  LET preferred == IF Owner(e) < Peer(e) THEN "out" ELSE "in" IN
  f[2] = preferred \/ e[2] # preferred

\* Another server is joining: admissions are serialized.
Joining(e, superseded) ==
  \E f \in Sessions(Owner(e)) \ {e} :
     \/ session[f].phase = "admitted"
     \/ session[f].phase = "hello" /\ Open(f) /\ f \notin superseded

\* Mutant: the hello is answered and the snapshots are never sent.
AnswerHelloOnly(e) == IF e[2] = "in" THEN <<Hello>> ELSE <<>>

\* The acceptor answers the hello; both ends send their snapshot.
Answer(e) ==
  IF e[2] = "in" THEN <<Hello, Snapshot(tree[Owner(e)])>>
  ELSE <<Snapshot(tree[Owner(e)])>>

handle_hello(e) ==
  LET n == Owner(e)
      p == Peer(e)
      invalid == session[e].phase # "new"
      linked == \E f \in Rival(e) : session[f].phase = "established"
      tie == \E f \in Rival(e) : LosesTo(e, f)
      superseded == Rival(e)
      others == Closing(session, superseded, e[1])
      cut == Cut(Taken(e), superseded)
  IN
  /\ Received(e, "hello")
  /\ \/ /\ invalid \/ linked
        /\ Fail(e)
        /\ UNCHANGED current
     \/ /\ ~invalid /\ ~linked /\ tie
        /\ session' = Closing(session, {e}, current[n][p])
        /\ wire' = Cut(wire, {e})
        /\ UNCHANGED current
     \/ /\ ~invalid /\ ~linked /\ ~tie
        /\ Joining(e, superseded)
        /\ session' = Closing(others, {e}, 0)
        /\ wire' = Cut(cut, {e})
        /\ UNCHANGED current
     \/ /\ ~invalid /\ ~linked /\ ~tie
        /\ ~Joining(e, superseded)
        /\ session' = [others EXCEPT ![e].phase = "hello"]
        /\ wire' = Send(cut, {e}, Answer(e))
        /\ current' = [current EXCEPT ![n][p] = e[1]]
  /\ UNCHANGED <<tree, blocked, ends, dialed, breaks>>

\* Mutant: the generation is not compared.
UnchangedSinceAny(e, own) == TRUE

\* The tree changed own times since this session's snapshot was sent.
UnchangedSince(e, own) == session[e].behind = own

handle_snapshot(e) ==
  LET n == Owner(e)
      p == Peer(e)
      nodes == Head(wire[e]).nodes
  IN
  /\ Received(e, "snapshot")
  /\ IF /\ session[e].phase = "hello" /\ UnchangedSince(e, 0)
        /\ CanAttach(tree[n], p, nodes)
     THEN /\ tree' = [tree EXCEPT ![n] = Attach(tree[n], n, p, nodes)]
          /\ session' = [Bump(n, session) EXCEPT ![e].phase = "admitted"]
          /\ wire' = Send(Taken(e), {e}, <<Ready>>)
     ELSE Fail(e) /\ UNCHANGED tree
  /\ UNCHANGED <<current, blocked, ends, dialed, breaks>>

\* Mutant: a child may be published before its parent.
AnyOrder(t, p) ==
  LET branch == {s \in Known(t) : Route(t, s) = p} IN
  {order \in [1 .. Cardinality(branch) -> branch] :
     \A s \in branch : \E i \in DOMAIN order : order[i] = s}

\* The orders in which establish() may publish the branch of peer p: parents
\* before children.  (Which of them depends on the array order of the tree.)
ParentFirst(t, p) ==
  LET branch == {s \in Known(t) : Route(t, s) = p}
      size == Cardinality(branch)
  IN {order \in [1 .. size -> branch] :
        \A s \in branch : \E i \in 1 .. size :
           /\ order[i] = s
           /\ t[s].parent \in branch =>
                \E j \in 1 .. i - 1 : order[j] = t[s].parent}

\* link.ready and establish(): the branch is announced to the other links.
handle_ready(e) ==
  LET n == Owner(e)
      t == tree[n]
  IN
  /\ Received(e, "ready")
  /\ IF session[e].phase = "admitted" /\ UnchangedSince(e, 1)
     THEN /\ session' = [session EXCEPT
               ![e] = [Opened EXCEPT !.phase = "established"]]
          /\ \E order \in ParentFirst(t, Peer(e)) :
               wire' = Send(Taken(e), Audience(e),
                            [i \in DOMAIN order |->
                               Introduce(order[i], t[order[i]].parent)])
     ELSE Fail(e)
  /\ UNCHANGED <<tree, current, blocked, ends, dialed, breaks>>

\* introduction_policy without configured limits: the walk from the parent
\* must reach the peer, otherwise topology_reject blocks reconnection.
PathToPeer(t, p, parent) == Route(t, parent) = p

handle_introduce(e) ==
  LET n == Owner(e)
      p == Peer(e)
      m == Head(wire[e])
      up == session[e].phase = "established"
      path == PathToPeer(tree[n], p, m.parent)
  IN
  /\ Received(e, "introduce")
  /\ IF up /\ path /\ CanAdd(tree[n], p, m.node, m.parent)
     THEN /\ tree' = [tree EXCEPT ![n] = Add(tree[n], p, m.node, m.parent)]
          /\ session' = Bump(n, session)
          /\ wire' = Send(Taken(e), Audience(e), <<m>>)
     ELSE Fail(e) /\ UNCHANGED tree
  /\ blocked' = IF up /\ ~path
                THEN [blocked EXCEPT ![n] = @ \cup {p}] ELSE blocked
  /\ UNCHANGED <<current, ends, dialed, breaks>>

handle_withdraw(e) ==
  LET n == Owner(e)
      p == Peer(e)
      m == Head(wire[e])
  IN
  /\ Received(e, "withdraw")
  /\ IF /\ session[e].phase = "established"
        /\ m.node # p
        /\ CanRemove(tree[n], p, m.node)
     THEN /\ tree' = [tree EXCEPT ![n] = Remove(tree[n], m.node)]
          /\ session' = Bump(n, session)
          /\ wire' = Send(Taken(e), Audience(e), <<m>>)
     ELSE Fail(e) /\ UNCHANGED tree
  /\ UNCHANGED <<current, blocked, ends, dialed, breaks>>

handle_frame(e) ==
  \/ handle_hello(e)
  \/ handle_snapshot(e)
  \/ handle_ready(e)
  \/ handle_introduce(e)
  \/ handle_withdraw(e)

Init ==
  /\ tree = [n \in Server |-> NewTree(n)]
  /\ current = [n \in Server |-> [p \in Server |-> NoSocket]]
  /\ blocked = [n \in Server |-> {}]
  /\ ends = [k \in Socket |-> <<NoServer, NoServer>>]
  /\ session = [e \in End |-> Gone]
  /\ wire = [e \in End |-> <<>>]
  /\ dialed = 0
  /\ breaks = 0

Next ==
  \/ \E a, b \in Server : Dial(a, b)
  \/ \E e \in End : handle_frame(e) \/ close_session(e) \/ Break(e)

Spec == Init /\ [][Next]_vars

(***************************************************************************)
(* Properties.                                                             *)
(***************************************************************************)
Op == {"hello", "ready", "snapshot", "introduce", "withdraw"}

\* Type invariant of trees, peers, sessions and streams.
TypeOK ==
  /\ \A n \in Server : tree[n] \in [Known(tree[n]) -> Node]
  /\ current \in [Server -> [Server -> Socket \cup {NoSocket}]]
  /\ blocked \in [Server -> SUBSET Server]
  /\ ends \in [Socket -> Dials \cup {<<NoServer, NoServer>>}]
  /\ session \in [End -> Session]
  /\ \A e \in End : \A i \in DOMAIN wire[e] : wire[e][i].op \in Op
  /\ dialed \in 0 .. MaxDials
  /\ breaks \in 0 .. MaxBreaks

\* Whatever its peers send, no server's routing table overflows or holds a
\* cycle, an orphan, or an entry routed through another peer than its parent
\* (link.tree.c; "preventing cycles", doc/server-linking.md).
TreesSound == \A n \in Server : TreeOK(tree[n], n)

\* A branch stands in a tree exactly as long as one admitted session owns it,
\* so close_session removes its own branch and never that of the session
\* which replaced it.  (With the type invariant of trees, peers and sessions.)
BranchesOwned ==
  /\ TypeOK
  /\ \A n \in Server : \A p \in Server \ {n} :
       LET owners == {e \in Sessions(n) : /\ Peer(e) = p
                        /\ session[e].phase \in {"admitted", "established"}}
       IN /\ Cardinality(owners) <= 1
          /\ (owners # {}) <=> (Route(tree[n], p) = p)

\* Two servers that dial each other at the same time agree which of the two
\* sockets to give up ("both ends retain the same socket"): no two attempts
\* each give way to the other, which would leave the servers unlinked.
TieBreakAgrees ==
  \A e, f \in End :
     ~(session[e].gave_way = f[1] /\ session[f].gave_way = e[1])

\* Servers that keep to the protocol never block each other: a policy block
\* needs an administrator's /link open to be lifted.
NeverBlocked == \A n \in Server : blocked[n] = {}

\* A handshake never just waits for its timeout: while it is not finished a
\* message is on its way to one of its ends or one end is closing.
HandshakeMoves ==
  \A k \in Socket :
     LET o == <<k, "out">>
         i == <<k, "in">>
     IN /\ Open(o) /\ Open(i)
        /\ wire[o] = <<>> /\ wire[i] = <<>>
        => session[o].phase = "established" /\ session[i].phase = "established"

Quiet ==
  \A e \in End : Alive(e) =>
     /\ Open(e) /\ wire[e] = <<>>
     /\ session[e].phase = "established"
     /\ Alive(Other(e))

Linked(a, b) == \E e \in End : Alive(e) /\ Owner(e) = a /\ Peer(e) = b

\* When nothing is in flight every server's tree is the component of the
\* network it is linked to: it knows both ends of a link or neither, and the
\* links among the servers it knows are its tree edges, so no two servers
\* are joined by a second path, however links were opened and lost before.
TreesAgree ==
  Quiet => \A n, a, b \in Server :
     LET t == tree[n] IN
     /\ Linked(a, b) => (a \in Known(t) <=> b \in Known(t))
     /\ a \in Known(t) /\ b \in Known(t) =>
          (Linked(a, b) <=> t[a].parent = b \/ t[b].parent = a)
=============================================================================
