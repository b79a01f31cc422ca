----------------------------- MODULE LinksProofs -----------------------------
(***************************************************************************)
(* Every server's routing tree stays sound, whatever the network delivers  *)
(* and in whatever order links are opened, admitted and lost.  The         *)
(* argument needs nothing about the messages: link.c changes a tree only   *)
(* through the operations of link.tree.c, and each of them checks what it  *)
(* is given (the first part).                                              *)
(*                                                                         *)
(* What a session does to the tree of its server, and to the sessions that *)
(* compete with it, does depend on the order of things: the second part    *)
(* sorts the steps of link.c by what they do to sessions and proves, for   *)
(* any number of servers, sockets and breaks, who owns a branch, which of  *)
(* two attempts gives way, and that no handshake falls silent.             *)
(*                                                                         *)
(* What servers tell each other matters to the third part only: the        *)
(* branch of a peer, followed through what is on its way, is what the peer *)
(* knows without this link (the mirror).  So no link is ever blocked, and  *)
(* at rest the trees of linked servers agree.                              *)
(***************************************************************************)
EXTENDS Links, ListsProofs

----------------------------------------------------------------------------
(* The operations of link.tree.c, for any capacity and any list of nodes a  *)
(* peer may send                                                            *)

\* A fresh tree (rr_link_tree_new) is sound.
LEMMA NewTreeOK ==
  ASSUME NEW local \in Server
  PROVE  TreeOK(NewTree(local), local)
<1>. DEFINE T == NewTree(local)
<1>1. Known(T) = {local} /\ T[local] = [parent |-> NoServer, peer |-> NoServer]
  BY DEF NewTree, Known
<1>2. Cardinality(Known(T)) <= TreeLimit
  <2>1. Cardinality({local}) = 1
    BY FS_Singleton
  <2>2. 1 <= TreeLimit
    BY LinkTreeAssumption
  <2>. QED
    BY <1>1, <2>1, <2>2
<1>3. T \in [Known(T) -> Node]
  BY <1>1 DEF NewTree, Known, Node
<1>. HIDE DEF T
<1>4. RootLocal(T, local) /\ BranchesOK(T, local) /\ NoCycle(T, local)
  BY <1>1 DEF RootLocal, BranchesOK, NoCycle
<1>. QED
  BY <1>1, <1>2, <1>3, <1>4 DEF TreeOK, T

\* Attaching a checked snapshot below a direct peer (rr_link_tree_attach)
\* keeps the tree sound: the list adds one whole branch, and what was known
\* stays as it was.
THEOREM AttachSound ==
  ASSUME NEW t0, NEW local \in Server, NEW peer, NEW nodes,
         TreeOK(t0, local), CanAttach(t0, peer, nodes)
  PROVE  TreeOK(Attach(t0, local, peer, nodes), local)
<1>. DEFINE T == Attach(t0, local, peer, nodes)
            K == Known(t0)
            D == DOMAIN nodes
<1>1. /\ K \subseteq Server /\ D \subseteq Server /\ D \cap K = {}
      /\ peer \in D /\ nodes[peer] = NoServer
      /\ local \in K
      /\ \A s \in K \ {local} : t0[s].parent \in K /\ t0[s].peer \in K
  BY DEF TreeOK, CanAttach, RootLocal, BranchesOK
<1>2. PICK steps \in [D -> 0 .. Cardinality(D)] :
        \A s \in D \ {peer} : nodes[s] \in D /\ steps[s] = steps[nodes[s]] + 1
  BY DEF CanAttach, EveryChainReaches
<1>3. IsFiniteSet(K) /\ IsFiniteSet(D)
  BY <1>1, FS_Subset, LinkTreeAssumption
<1>4. Cardinality(K) \in Nat /\ Cardinality(D) \in Nat
  BY <1>3, FS_CardinalityType
<1>5. \A s \in D : steps[s] \in Nat
  BY <1>2, <1>4
<1>6. Known(T) = K \cup D
  BY DEF Attach, Known
<1>7. /\ \A s \in K : T[s] = t0[s]
      /\ \A s \in D : T[s] = [parent |-> IF nodes[s] = NoServer THEN local
                                         ELSE nodes[s],
                              peer |-> peer]
  BY <1>1 DEF Attach, Known
<1>8. T = [s \in K \cup D |-> T[s]]
  BY DEF Attach, Known
<1>. HIDE DEF T, K, D
<1>9. T[peer] = [parent |-> local, peer |-> peer]
  BY <1>1, <1>7
<1>10. \A s \in D \ {peer} : /\ T[s] = [parent |-> nodes[s], peer |-> peer]
                            /\ T[s].parent = nodes[s]
                            /\ T[s].peer = peer
                            /\ T[s] \in Node
  <2>. SUFFICES ASSUME NEW s \in D \ {peer}
                PROVE  /\ T[s] = [parent |-> nodes[s], peer |-> peer]
                       /\ T[s].parent = nodes[s]
                       /\ T[s].peer = peer
                       /\ T[s] \in Node
    OBVIOUS
  <2>1. nodes[s] \in Server /\ nodes[s] # NoServer /\ peer \in Server
    BY <1>1, <1>2, LinkTreeAssumption
  <2>2. T[s] = [parent |-> nodes[s], peer |-> peer]
    BY <1>7, <2>1
  <2>. QED
    BY <2>1, <2>2 DEF Node
<1>11. \A s \in D : T[s].peer = peer
  <2>1. T[peer].peer = peer
    BY <1>9
  <2>. QED
    BY <1>10, <2>1
<1>12. Cardinality(Known(T)) <= TreeLimit
  <2>1. Cardinality(K \cup D) = Cardinality(K) + Cardinality(D) - Cardinality(K \cap D)
    BY <1>3, FS_Union
  <2>2. Cardinality(K \cap D) = 0
    BY <1>1, FS_EmptySet
  <2>3. Cardinality(D) <= TreeLimit - Cardinality(K)
    BY DEF CanAttach, K, D
  <2>. QED
    BY <1>4, <1>6, <2>1, <2>2, <2>3, LinkTreeAssumption
<1>13. T \in [Known(T) -> Node]
  <2>1. \A s \in K : T[s] \in Node
    BY <1>7 DEF TreeOK, K
  <2>2. T[peer] \in Node
    BY <1>1, <1>9 DEF Node
  <2>. QED
    BY <1>8, <1>6, <1>10, <2>1, <2>2
<1>14. RootLocal(T, local)
  BY <1>1, <1>6, <1>7 DEF TreeOK, RootLocal
<1>15. BranchesOK(T, local)
  <2>1. SUFFICES ASSUME NEW s \in (K \cup D) \ {local}
                 PROVE  /\ T[s].parent \in K \cup D
                        /\ T[s].peer \in (K \cup D) \ {local}
                        /\ T[s].parent = local <=> T[s].peer = s
                        /\ T[s].parent # local => T[T[s].parent].peer = T[s].peer
    BY <1>6 DEF BranchesOK
  <2>2. CASE s \in K
    BY <2>2, <1>1, <1>7 DEF TreeOK, BranchesOK, K
  <2>3. CASE s = peer
    BY <2>3, <1>1, <1>9
  <2>4. CASE s \in D \ {peer}
    <3>1. nodes[s] \in D /\ nodes[s] # local /\ T[s] = [parent |-> nodes[s], peer |-> peer]
      BY <2>4, <1>1, <1>2, <1>10
    <3>2. T[nodes[s]].peer = peer
      BY <3>1, <1>11
    <3>. QED
      BY <2>4, <3>1, <3>2, <1>1
  <2>. QED
    BY <2>2, <2>3, <2>4
<1>16. NoCycle(T, local)
  <2>1. SUFFICES ASSUME NEW S \in SUBSET ((K \cup D) \ {local}), S # {}
                 PROVE  \E s \in S : T[s].parent \notin S
    BY <1>6 DEF NoCycle
  <2>2. CASE S \cap K # {}
    <3>1. S \cap K \in SUBSET (K \ {local})
      OBVIOUS
    <3>2. PICK s \in S \cap K : t0[s].parent \notin S \cap K
      BY <2>2, <3>1 DEF TreeOK, NoCycle, K
    <3>3. s \in K \ {local}
      OBVIOUS
    <3>. QED
      BY <1>1, <1>7, <3>2, <3>3
  <2>3. CASE S \cap K = {}
    <3>. DEFINE N == {steps[s] : s \in S}
    <3>1. S \subseteq D
      BY <2>3
    <3>2. N \in SUBSET Nat /\ N # {}
      BY <2>1, <3>1, <1>5
    <3>3. PICK x \in N : \A y \in N : x <= y
      BY <3>2, LeastNatural
    <3>4. PICK s \in S : \A r \in S : steps[s] <= steps[r]
      BY <3>3
    <3>5. CASE s = peer
      BY <3>4, <3>5, <1>9
    <3>6. CASE s # peer
      <4>1. nodes[s] \in D /\ steps[s] = steps[nodes[s]] + 1 /\ T[s].parent = nodes[s]
        <5>1. s \in D \ {peer}
          BY <3>1, <3>6
        <5>. QED
          BY <5>1, <1>2, <1>10
      <4>2. steps[nodes[s]] < steps[s]
        BY <4>1, <1>5, <3>1
      <4>3. nodes[s] \notin S
        BY <3>4, <4>2, <4>1, <1>5, <3>1
      <4>. QED
        BY <4>1, <4>3
    <3>. QED
      BY <3>5, <3>6
  <2>. QED
    BY <2>2, <2>3
<1>. QED
  BY <1>1, <1>6, <1>12, <1>13, <1>14, <1>15, <1>16 DEF TreeOK, T

\* An introduction (rr_link_tree_add) extends one branch by one server and
\* keeps the tree sound.
THEOREM AddSound ==
  ASSUME NEW t0, NEW local \in Server, NEW peer, NEW server, NEW parent,
         TreeOK(t0, local), CanAdd(t0, peer, server, parent)
  PROVE  TreeOK(Add(t0, peer, server, parent), local)
<1>. DEFINE T == Add(t0, peer, server, parent)
            K == Known(t0)
<1>1. /\ K \subseteq Server /\ server \in Server /\ server \notin K
      /\ peer \in K /\ t0[peer].peer = peer
      /\ parent \in K /\ t0[parent].peer = peer
      /\ local \in K /\ t0[local].peer = NoServer
      /\ \A s \in K \ {local} : t0[s].parent \in K /\ t0[s].peer \in K
  BY DEF TreeOK, CanAdd, RootLocal, BranchesOK
<1>2. peer # local /\ parent # local /\ server # local
  BY <1>1, LinkTreeAssumption
<1>3. IsFiniteSet(K)
  BY <1>1, FS_Subset, LinkTreeAssumption
<1>4. Known(T) = K \cup {server}
  BY DEF Add, Known
<1>5. T = [s \in K \cup {server} |-> T[s]]
  BY DEF Add, Known
<1>6. /\ \A s \in K : T[s] = t0[s]
      /\ T[server] = [parent |-> parent, peer |-> peer]
  BY <1>1 DEF Add, Known
<1>7. Cardinality(Known(T)) <= TreeLimit
  <2>1. Cardinality(K) \in Nat
    BY <1>3, FS_CardinalityType
  <2>2. Cardinality(K \cup {server}) = Cardinality(K) + 1
    BY <1>1, <1>3, FS_AddElement
  <2>3. Cardinality(K) <= TreeLimit /\ Cardinality(K) # TreeLimit
    BY DEF TreeOK, CanAdd
  <2>. QED
    BY <1>4, <2>1, <2>2, <2>3, LinkTreeAssumption
<1>. HIDE DEF T, K
<1>8. T \in [Known(T) -> Node]
  <2>1. \A s \in K : T[s] \in Node
    BY <1>6 DEF TreeOK, K
  <2>2. T[server] \in Node
    BY <1>1, <1>6 DEF Node
  <2>. QED
    BY <1>4, <1>5, <2>1, <2>2
<1>9. RootLocal(T, local)
  BY <1>1, <1>4, <1>6 DEF TreeOK, RootLocal
<1>10. BranchesOK(T, local)
  <2>1. SUFFICES ASSUME NEW s \in (K \cup {server}) \ {local}
                 PROVE  /\ T[s].parent \in K \cup {server}
                        /\ T[s].peer \in (K \cup {server}) \ {local}
                        /\ T[s].parent = local <=> T[s].peer = s
                        /\ T[s].parent # local => T[T[s].parent].peer = T[s].peer
    BY <1>4 DEF BranchesOK
  <2>2. CASE s \in K
    BY <2>2, <1>1, <1>6 DEF TreeOK, BranchesOK, K
  <2>3. CASE s = server
    <3>1. T[s].parent = parent /\ T[s].peer = peer
      BY <2>3, <1>6
    <3>2. T[parent].peer = peer
      BY <1>1, <1>6
    <3>. QED
      BY <2>3, <3>1, <3>2, <1>1, <1>2
  <2>. QED
    BY <2>2, <2>3
<1>11. NoCycle(T, local)
  <2>1. SUFFICES ASSUME NEW S \in SUBSET ((K \cup {server}) \ {local}), S # {}
                 PROVE  \E s \in S : T[s].parent \notin S
    BY <1>4 DEF NoCycle
  <2>2. CASE S \cap K # {}
    <3>1. S \cap K \in SUBSET (K \ {local})
      OBVIOUS
    <3>2. PICK s \in S \cap K : t0[s].parent \notin S \cap K
      BY <2>2, <3>1 DEF TreeOK, NoCycle, K
    <3>3. s \in K \ {local}
      OBVIOUS
    <3>. QED
      BY <1>1, <1>6, <3>2, <3>3
  <2>3. CASE S \cap K = {}
    <3>1. S = {server}
      BY <2>1, <2>3
    <3>2. T[server].parent = parent /\ parent # server
      BY <1>1, <1>6
    <3>. QED
      BY <3>1, <3>2
  <2>. QED
    BY <2>2, <2>3
<1>. QED
  BY <1>1, <1>4, <1>7, <1>8, <1>9, <1>10, <1>11 DEF TreeOK, T

\* The marks of rr_link_tree_remove: they cover the server and everything
\* below it, and nothing outside a set that is closed in the same way.
LEMMA SubtreeClosed ==
  ASSUME NEW t0, NEW server \in Known(t0)
  PROVE  /\ server \in Subtree(t0, server)
         /\ \A s \in Known(t0) : t0[s].parent \in Subtree(t0, server)
                                    => s \in Subtree(t0, server)
  BY DEF Subtree

\* A withdrawal or a lost link (rr_link_tree_remove) takes out a whole
\* subtree of a branch and keeps the tree sound: no entry is left behind
\* whose parent is gone.
THEOREM RemoveSound ==
  ASSUME NEW t0, NEW local \in Server, NEW peer, NEW server,
         TreeOK(t0, local), CanRemove(t0, peer, server)
  PROVE  TreeOK(Remove(t0, server), local)
<1>. DEFINE T == Remove(t0, server)
            K == Known(t0)
            R == Subtree(t0, server)
<1>1. /\ K \subseteq Server /\ server \in K /\ local \in K
      /\ t0[local] = [parent |-> NoServer, peer |-> NoServer]
      /\ t0[server].peer # NoServer
  BY DEF TreeOK, CanRemove, RootLocal
<1>2. server # local
  BY <1>1
<1>3. \A s \in K : t0[s].parent \in R => s \in R
  BY <1>1, SubtreeClosed
<1>4. local \notin R
  <2>1. K \ {local} \in SUBSET K /\ server \in K \ {local}
    BY <1>1, <1>2
  <2>2. t0[local].parent \notin K
    BY <1>1, LinkTreeAssumption
  <2>3. \A s \in K : t0[s].parent \in K \ {local} => s \in K \ {local}
    BY <2>2
  <2>. QED
    BY <2>1, <2>3 DEF Subtree
<1>5. IsFiniteSet(K)
  BY <1>1, FS_Subset, LinkTreeAssumption
<1>6. Known(T) = K \ R /\ T = [s \in K \ R |-> t0[s]]
  BY DEF Remove, Known
<1>7. Cardinality(Known(T)) <= TreeLimit
  <2>1. Cardinality(K) \in Nat
    BY <1>5, FS_CardinalityType
  <2>2. IsFiniteSet(Known(T)) /\ Cardinality(Known(T)) <= Cardinality(K)
    BY <1>5, <1>6, FS_Subset
  <2>3. Cardinality(Known(T)) \in Nat
    BY <2>2, FS_CardinalityType
  <2>4. Cardinality(K) <= TreeLimit
    BY DEF TreeOK
  <2>. QED
    BY <2>1, <2>2, <2>3, <2>4, LinkTreeAssumption
<1>. HIDE DEF T, K, R
<1>8. \A s \in K \ R : T[s] = t0[s]
  BY <1>6
<1>9. T \in [Known(T) -> Node]
  BY <1>6 DEF TreeOK, K
<1>10. RootLocal(T, local)
  BY <1>1, <1>4, <1>6 DEF RootLocal
<1>11. BranchesOK(T, local)
  <2>1. SUFFICES ASSUME NEW s \in (K \ R) \ {local}
                 PROVE  /\ T[s].parent \in K \ R
                        /\ T[s].peer \in (K \ R) \ {local}
                        /\ T[s].parent = local <=> T[s].peer = s
                        /\ T[s].parent # local => T[T[s].parent].peer = T[s].peer
    BY <1>6 DEF BranchesOK
  <2>2. /\ t0[s].parent \in K
        /\ t0[s].peer \in K \ {local}
        /\ t0[s].parent = local <=> t0[s].peer = s
        /\ t0[s].parent # local => t0[t0[s].parent].peer = t0[s].peer
    BY DEF TreeOK, BranchesOK, K
  <2>3. t0[s].parent \in K \ R
    BY <1>3, <2>2
  <2>4. t0[s].peer \notin R
    \* With the top of a branch the whole branch goes: otherwise what is left
    \* of it would be closed under parent.
    <3>. DEFINE q == t0[s].peer
                S == {x \in K \ R : t0[x].peer = q}
    <3>1. SUFFICES ASSUME q \in R PROVE FALSE
      OBVIOUS
    <3>2. q # NoServer
      BY <1>1, <2>2, LinkTreeAssumption
    <3>3. S \in SUBSET (K \ {local}) /\ s \in S
      BY <1>1, <2>2, <3>2
    <3>4. PICK x \in S : t0[x].parent \notin S
      BY <3>3 DEF TreeOK, NoCycle, K
    <3>5. x \in K \ {local} /\ x \notin R /\ t0[x].peer = q
      BY <3>3
    <3>6. /\ t0[x].parent \in K
          /\ t0[x].parent = local <=> q = x
          /\ t0[x].parent # local => t0[t0[x].parent].peer = q
      BY <3>5 DEF TreeOK, BranchesOK, K
    <3>7. x # q
      BY <3>1, <3>5
    <3>8. t0[x].parent \in R
      BY <3>4, <3>6, <3>7
    <3>. QED
      BY <1>3, <3>5, <3>8
  <2>. QED
    BY <1>8, <2>2, <2>3, <2>4
<1>12. NoCycle(T, local)
  BY <1>6, <1>8 DEF TreeOK, NoCycle, K
<1>. QED
  BY <1>1, <1>6, <1>7, <1>9, <1>10, <1>11, <1>12 DEF TreeOK, T

\* "Only the owning peer may withdraw a remote subtree [...] preserving other
\* peer branches" (doc/server-linking.md): a removal on behalf of one peer
\* changes no entry that is routed through another, nor the root.
THEOREM RemoveKeepsOtherBranches ==
  ASSUME NEW t0, NEW local \in Server, NEW peer, NEW server,
         TreeOK(t0, local), CanRemove(t0, peer, server),
         NEW s \in Known(t0), t0[s].peer # peer
  PROVE  s \in Known(Remove(t0, server)) /\ Remove(t0, server)[s] = t0[s]
<1>. DEFINE branch == {x \in Known(t0) : t0[x].peer = peer}
<1>1. server \in branch /\ branch \in SUBSET Known(t0) /\ peer # NoServer
  BY DEF CanRemove
<1>2. ASSUME NEW x \in Known(t0), t0[x].parent \in branch
      PROVE  x \in branch
  <2>1. t0[local] = [parent |-> NoServer, peer |-> NoServer]
    BY DEF TreeOK, RootLocal
  <2>2. NoServer \notin Known(t0)
    BY LinkTreeAssumption DEF TreeOK
  <2>3. x # local /\ t0[x].parent # local
    BY <1>1, <1>2, <2>1, <2>2
  <2>4. t0[t0[x].parent].peer = t0[x].peer
    BY <2>3 DEF TreeOK, BranchesOK
  <2>. QED
    BY <1>2, <2>4
<1>. HIDE DEF branch
<1>3. Subtree(t0, server) \subseteq branch
  BY <1>1, <1>2 DEF Subtree
<1>4. s \in Known(t0) \ Subtree(t0, server)
  BY <1>3 DEF branch
<1>. QED
  BY <1>4 DEF Remove, Known

----------------------------------------------------------------------------
(* The trees of all servers *)

\* The inductive invariant: one tree per server, each of them sound.
TreesInv ==
  /\ tree = [n \in Server |-> tree[n]]
  /\ TreesSound

\* A step that replaces one server's tree by a sound one, or none.
LEMMA OneTreeChanges ==
  ASSUME TreesInv, NEW m, NEW t,
         m \in Server => TreeOK(t, m),
         tree' = [tree EXCEPT ![m] = t]
  PROVE  TreesInv'
<1>1. tree' = [n \in Server |-> tree'[n]]
  BY DEF TreesInv
<1>2. ASSUME NEW n \in Server PROVE TreeOK(tree'[n], n)
  <2>1. CASE n = m
    BY <2>1 DEF TreesInv
  <2>2. CASE n # m
    <3>1. tree'[n] = tree[n]
      BY <2>2 DEF TreesInv
    <3>. QED
      BY <3>1 DEF TreesInv, TreesSound
  <2>. QED
    BY <2>1, <2>2
<1>. QED
  BY <1>1, <1>2 DEF TreesInv, TreesSound

\* A step that touches no tree.
LEMMA NoTreeChanges ==
  ASSUME TreesInv, UNCHANGED tree
  PROVE  TreesInv'
  BY DEF TreesInv, TreesSound

\* The network starts with every server alone in its tree.
LEMMA TreesInvInit == Init => TreesInv
<1>. SUFFICES ASSUME Init PROVE TreesInv
  OBVIOUS
<1>1. tree = [n \in Server |-> NewTree(n)]
  BY DEF Init
<1>2. tree = [n \in Server |-> tree[n]]
  BY <1>1
<1>3. \A n \in Server : TreeOK(tree[n], n)
  <2>. SUFFICES ASSUME NEW n \in Server PROVE TreeOK(tree[n], n)
    OBVIOUS
  <2>1. tree[n] = NewTree(n)
    BY <1>1
  <2>. QED
    BY <2>1, NewTreeOK
<1>. QED
  BY <1>2, <1>3 DEF TreesInv, TreesSound

\* Every handler of link.c keeps all trees sound.
LEMMA TreesInvNext == TreesInv /\ [Next]_vars => TreesInv'
<1>. SUFFICES ASSUME TreesInv, [Next]_vars PROVE TreesInv'
  OBVIOUS
<1>0. \A n \in Server : TreeOK(tree[n], n)
  BY DEF TreesInv, TreesSound
<1>1. ASSUME NEW a \in Server, NEW b \in Server, Dial(a, b) PROVE TreesInv'
  BY <1>1, NoTreeChanges DEF Dial
<1>2. ASSUME NEW e \in End, Break(e) PROVE TreesInv'
  BY <1>2, NoTreeChanges DEF Break
<1>3. ASSUME NEW e \in End, close_session(e) PROVE TreesInv'
  <2>. DEFINE n == Owner(e)
              p == Peer(e)
  <2>1. tree' = IF OwnsBranch(e) /\ CanRemove(tree[n], p, p)
                THEN [tree EXCEPT ![n] = Remove(tree[n], p)] ELSE tree
    BY <1>3 DEF close_session
  <2>. HIDE DEF n, p
  <2>2. CASE OwnsBranch(e) /\ CanRemove(tree[n], p, p)
    <3>1. n \in Server => TreeOK(Remove(tree[n], p), n)
      BY <1>0, <2>2, RemoveSound
    <3>. QED
      BY <2>1, <2>2, <3>1, OneTreeChanges
  <2>3. CASE ~(OwnsBranch(e) /\ CanRemove(tree[n], p, p))
    BY <2>1, <2>3, NoTreeChanges
  <2>. QED
    BY <2>2, <2>3
<1>4. ASSUME NEW e \in End, handle_hello(e) PROVE TreesInv'
  BY <1>4, NoTreeChanges DEF handle_hello
<1>5. ASSUME NEW e \in End, handle_snapshot(e) PROVE TreesInv'
  <2>. DEFINE n == Owner(e)
              p == Peer(e)
              nodes == Head(wire[e]).nodes
  <2>1. \/ /\ CanAttach(tree[n], p, nodes)
           /\ tree' = [tree EXCEPT ![n] = Attach(tree[n], n, p, nodes)]
        \/ UNCHANGED tree
    BY <1>5 DEF handle_snapshot
  <2>. HIDE DEF n, p, nodes
  <2>2. CASE /\ CanAttach(tree[n], p, nodes)
             /\ tree' = [tree EXCEPT ![n] = Attach(tree[n], n, p, nodes)]
    <3>1. n \in Server => TreeOK(Attach(tree[n], n, p, nodes), n)
      BY <1>0, <2>2, AttachSound
    <3>. QED
      BY <2>2, <3>1, OneTreeChanges
  <2>. QED
    BY <2>1, <2>2, NoTreeChanges
<1>6. ASSUME NEW e \in End, handle_ready(e) PROVE TreesInv'
  BY <1>6, NoTreeChanges DEF handle_ready
<1>7. ASSUME NEW e \in End, handle_introduce(e) PROVE TreesInv'
  <2>. DEFINE n == Owner(e)
              p == Peer(e)
              node == Head(wire[e]).node
              parent == Head(wire[e]).parent
  <2>1. \/ /\ CanAdd(tree[n], p, node, parent)
           /\ tree' = [tree EXCEPT ![n] = Add(tree[n], p, node, parent)]
        \/ UNCHANGED tree
    BY <1>7 DEF handle_introduce
  <2>. HIDE DEF n, p, node, parent
  <2>2. CASE /\ CanAdd(tree[n], p, node, parent)
             /\ tree' = [tree EXCEPT ![n] = Add(tree[n], p, node, parent)]
    <3>1. n \in Server => TreeOK(Add(tree[n], p, node, parent), n)
      BY <1>0, <2>2, AddSound
    <3>. QED
      BY <2>2, <3>1, OneTreeChanges
  <2>. QED
    BY <2>1, <2>2, NoTreeChanges
<1>8. ASSUME NEW e \in End, handle_withdraw(e) PROVE TreesInv'
  <2>. DEFINE n == Owner(e)
              p == Peer(e)
              node == Head(wire[e]).node
  <2>1. \/ /\ CanRemove(tree[n], p, node)
           /\ tree' = [tree EXCEPT ![n] = Remove(tree[n], node)]
        \/ UNCHANGED tree
    BY <1>8 DEF handle_withdraw
  <2>. HIDE DEF n, p, node
  <2>2. CASE /\ CanRemove(tree[n], p, node)
             /\ tree' = [tree EXCEPT ![n] = Remove(tree[n], node)]
    <3>1. n \in Server => TreeOK(Remove(tree[n], node), n)
      BY <1>0, <2>2, RemoveSound
    <3>. QED
      BY <2>2, <3>1, OneTreeChanges
  <2>. QED
    BY <2>1, <2>2, NoTreeChanges
<1>9. CASE UNCHANGED vars
  BY <1>9, NoTreeChanges DEF vars
<1>10. CASE Next
  <2>1. ASSUME NEW e \in End, handle_frame(e) PROVE TreesInv'
    BY <2>1, <1>4, <1>5, <1>6, <1>7, <1>8 DEF handle_frame
  <2>. QED
    BY <1>10, <1>1, <1>2, <1>3, <2>1 DEF Next
<1>. QED
  BY <1>9, <1>10

\* Whatever is dialed, delivered, lost or sent by a peer, every routing
\* table of the network is a tree that fits its array: rooted at its server,
\* without cycles or orphans, each branch routed through its own peer.
THEOREM LinksTreesSound == Spec => []TreesSound
<1>1. TreesInv => TreesSound
  BY DEF TreesInv
<1>. QED
  BY <1>1, TreesInvInit, TreesInvNext, PTL DEF Spec

(***************************************************************************)
(* Sessions.  What follows is about the handshake, the tie-break and the   *)
(* ownership of branches; it does depend on what the other end does.       *)
(***************************************************************************)
\* What the messages of link.c are made of.
Msg ==
  [op : Op, node : Server \cup {NoServer}, parent : Server \cup {NoServer},
   nodes : UNION {[S -> Server \cup {NoServer}] : S \in SUBSET Server}]

\* Sockets are numbered as they are dialed, a live session belongs to a dialed
\* socket, and a session that is closing or gone hears nothing any more.
Shape ==
  /\ current \in [Server -> [Server -> Socket \cup {NoSocket}]]
  /\ blocked \in [Server -> SUBSET Server]
  /\ ends \in [Socket -> Dials \cup {<<NoServer, NoServer>>}]
  /\ session \in [End -> Session]
  /\ wire \in [End -> Seq(Msg)]
  /\ dialed \in 0 .. MaxDials
  /\ breaks \in 0 .. MaxBreaks

Lives ==
  \A e \in End :
    /\ ~Alive(e) => session[e] = Gone
    /\ Alive(e) => e[1] <= dialed /\ ends[e[1]] \in Dials
    /\ ~Open(e) => wire[e] = <<>>
    /\ session[e].gave_way # 0 => session[e].closing
    /\ session[e].gave_way <= dialed

Owns(e, n, p) == Alive(e) /\ OwnsBranch(e) /\ Owner(e) = n /\ Peer(e) = p

\* A peer has a branch in a server's tree exactly while one session owns it.
Owned ==
  \A n \in Server : \A p \in Server \ {n} :
    /\ \A e, f \in End : Owns(e, n, p) /\ Owns(f, n, p) => e = f
    /\ (\E e \in End : Owns(e, n, p)) <=> Route(tree[n], p) = p

\* peer->session is a session with that peer.
CurrentOK ==
  \A n, p \in Server : current[n][p] # NoSocket =>
    /\ current[n][p] <= dialed
    /\ \A e \in End : Alive(e) /\ e[1] = current[n][p] /\ Owner(e) = n => Peer(e) = p

\* An outgoing attempt that was not given up is the current one.
OutgoingCurrent ==
  \A e \in End : Open(e) /\ e[2] = "out" => current[Owner(e)][Peer(e)] = e[1]

\* The socket was opened by the smaller UUID.
Favoured(k) == ends[k][1] < ends[k][2]

GaveWayTo(e, k) ==
  /\ ends[k] = ends[e[1]] \/ ends[k] = <<ends[e[1]][2], ends[e[1]][1]>>
  /\ Favoured(k) \/ ~Favoured(e[1])
  /\ ends[k] = ends[e[1]] => e[2] = "in"

\* What it takes to lose a tie-break.
TiesRight ==
  \A e \in End, f \in End :
    session[e].gave_way = f[1] /\ Alive(f) => GaveWayTo(e, f[1])

\* The messages of the handshake a session has taken and has sent.
Heard(e) ==
  CASE session[e].phase = "new" -> 0
    [] session[e].phase = "hello" -> 1
    [] session[e].phase = "admitted" -> 2
    [] OTHER -> 3
Said(e) ==
  CASE session[e].phase = "new" -> IF e[2] = "out" THEN 1 ELSE 0
    [] session[e].phase = "hello" -> 2
    [] OTHER -> 3

\* What one end said and the other has not heard is on its way.
Underway ==
  \A e \in End : Open(e) /\ Open(Other(e)) =>
    Said(Other(e)) <= Heard(e) + Len(wire[e])

\* What a step may do to a session that is not the one it is about, to one
\* that is given up (fail), to one that is freed, and to one whose handshake
\* goes on.
Kept(f) ==
  /\ session'[f].phase = session[f].phase
  /\ session'[f].closing = session[f].closing
  /\ session'[f].gave_way = session[f].gave_way
  /\ session[f] = Gone => session'[f] = Gone
  /\ ~Open(f) => wire'[f] = wire[f]
  /\ Len(wire'[f]) >= Len(wire[f])

Shut(f, w) ==
  /\ Open(f)
  /\ session'[f].phase = session[f].phase
  /\ session'[f].closing
  /\ session'[f].gave_way = w
  /\ wire'[f] = <<>>

Freed(f) == session'[f] = Gone /\ wire'[f] = <<>>

Moved(f, phase) ==
  /\ Open(f)
  /\ session'[f].phase = phase
  /\ ~session'[f].closing
  /\ session'[f].gave_way = session[f].gave_way
  /\ Len(wire'[f]) + 1 >= Len(wire[f])

\* The two ends of a socket.
LEMMA TwoEnds ==
  ASSUME NEW e \in End
  PROVE  /\ Other(e) \in End /\ Other(Other(e)) = e /\ Other(e) # e
         /\ Other(e)[1] = e[1] /\ e[1] \in Socket
         /\ e[2] = "out" <=> Other(e)[2] = "in"
         /\ e[2] = "in" <=> Other(e)[2] = "out"
         /\ \A f \in End : f[1] = e[1] => f = e \/ f = Other(e)
  BY DEF Other, End, Side

\* Closing marks the sessions of a set and no other.
LEMMA ClosingAt ==
  ASSUME NEW ss \in [End -> Session], NEW F, NEW w \in 0 .. MaxDials
  PROVE  /\ Closing(ss, F, w) \in [End -> Session]
         /\ \A f \in End : f \notin F => Closing(ss, F, w)[f] = ss[f]
         /\ \A f \in End : f \in F =>
              /\ Closing(ss, F, w)[f].phase = ss[f].phase
              /\ Closing(ss, F, w)[f].closing
              /\ Closing(ss, F, w)[f].gave_way = w
  BY DEF Closing, Session

\* A new generation is told from an old one by the count behind only.
LEMMA BumpAt ==
  ASSUME NEW ss \in [End -> Session], NEW n
  PROVE  /\ Bump(n, ss) \in [End -> Session]
         /\ \A f \in End :
              /\ Bump(n, ss)[f].phase = ss[f].phase
              /\ Bump(n, ss)[f].closing = ss[f].closing
              /\ Bump(n, ss)[f].gave_way = ss[f].gave_way
              /\ ss[f].phase \notin {"hello", "admitted"} => Bump(n, ss)[f] = ss[f]
<1>1. \A f \in End : ss[f] \in Session
  OBVIOUS
<1>2. ASSUME NEW f \in End
      PROVE  [ss[f] EXCEPT !.behind = IF @ = 2 THEN 2 ELSE @ + 1] \in Session
  BY <1>1 DEF Session
<1>3. Bump(n, ss) \in [End -> Session]
  BY <1>1, <1>2 DEF Bump
<1>. QED
  BY <1>1, <1>3 DEF Bump, Session

\* The streams after a cut.
LEMMA CutAt ==
  ASSUME NEW w \in [End -> Seq(Msg)], NEW F
  PROVE  /\ Cut(w, F) \in [End -> Seq(Msg)]
         /\ \A f \in End : Cut(w, F)[f] = IF f \in F THEN <<>> ELSE w[f]
  BY DEF Cut

\* The streams after a broadcast: only open sessions are sent anything.
LEMMA SendAt ==
  ASSUME NEW w \in [End -> Seq(Msg)], NEW from, NEW msgs \in Seq(Msg)
  PROVE  /\ Send(w, from, msgs) \in [End -> Seq(Msg)]
         /\ \A f \in End : ~Open(f) => Send(w, from, msgs)[f] = w[f]
         /\ \A f \in End : Len(Send(w, from, msgs)[f]) >= Len(w[f])
         /\ \A f \in End : Open(f) /\ Other(f) \in from =>
              Len(Send(w, from, msgs)[f]) = Len(w[f]) + Len(msgs)
<1>1. \A f \in End : /\ w[f] \in Seq(Msg) /\ w[f] \o msgs \in Seq(Msg)
                     /\ Len(w[f]) \in Nat /\ Len(msgs) \in Nat
                     /\ Len(w[f] \o msgs) = Len(w[f]) + Len(msgs)
  BY ConcatProperties, LenProperties
<1>2. \A f \in End : Send(w, from, msgs)[f] =
        IF Other(f) \in from /\ Open(f) THEN w[f] \o msgs ELSE w[f]
  BY DEF Send
<1>3. Send(w, from, msgs) \in [End -> Seq(Msg)]
  BY <1>1 DEF Send
<1>. DEFINE S == Send(w, from, msgs)
<1>. HIDE DEF S
<1>4. ASSUME NEW f \in End
      PROVE  /\ ~Open(f) => S[f] = w[f]
             /\ Len(S[f]) >= Len(w[f])
             /\ Open(f) /\ Other(f) \in from => Len(S[f]) = Len(w[f]) + Len(msgs)
  <2>1. S[f] = w[f] \/ Len(S[f]) = Len(w[f]) + Len(msgs)
    BY <1>1, <1>2 DEF S
  <2>2. ~Open(f) => S[f] = w[f]
    BY <1>2 DEF S
  <2>3. Open(f) /\ Other(f) \in from => S[f] = w[f] \o msgs
    BY <1>2 DEF S
  <2>. QED
    BY <1>1, <2>1, <2>2, <2>3
<1>. QED
  BY <1>3, <1>4, Zenon DEF S

\* The sessions and streams alone.
Streams == session \in [End -> Session] /\ wire \in [End -> Seq(Msg)]

OthersKept(e) == \A f \in End : f # e => Kept(f)

\* All but e and the sessions it supersedes are left alone.
RivalsShut(e) ==
  \A f \in End : f # e => IF f \in Rival(e) THEN Shut(f, e[1]) ELSE Kept(f)

\* A live session knows its two servers.
LEMMA Servers ==
  ASSUME Shape, Lives, NEW e \in End, Alive(e)
  PROVE  /\ Owner(e) \in Server /\ Peer(e) \in Server /\ Owner(e) # Peer(e)
         /\ Owner(Other(e)) = Peer(e) /\ Peer(Other(e)) = Owner(e)
         /\ e[2] = "out" => ends[e[1]] = <<Owner(e), Peer(e)>>
         /\ e[2] = "in" => ends[e[1]] = <<Peer(e), Owner(e)>>
<1>1. ends[e[1]] \in Dials
  BY DEF Lives
<1>2. /\ ends[e[1]] = <<ends[e[1]][1], ends[e[1]][2]>>
      /\ ends[e[1]][1] \in Server /\ ends[e[1]][2] \in Server
      /\ ends[e[1]][1] # ends[e[1]][2]
  BY <1>1, LinksAssumption
<1>3. e[2] = "out" \/ e[2] = "in"
  BY DEF End, Side
<1>. QED
  BY <1>2, <1>3, TwoEnds DEF Owner, Peer, Other

\* Only an open session receives a message, and taking it shortens its stream
\* by one.
LEMMA Receiving ==
  ASSUME Shape, Lives, NEW e \in End, wire[e] # <<>>
  PROVE  /\ Open(e) /\ Alive(e) /\ session[e].gave_way = 0
         /\ Head(wire[e]) \in Msg
         /\ Taken(e) \in [End -> Seq(Msg)]
         /\ Len(Taken(e)[e]) + 1 = Len(wire[e])
         /\ \A f \in End : f # e => Taken(e)[f] = wire[f]
<1>1. Open(e)
  BY DEF Lives
<1>2. wire[e] \in Seq(Msg) /\ session[e] \in Session
  BY DEF Shape
<1>3. Tail(wire[e]) \in Seq(Msg) /\ Len(Tail(wire[e])) = Len(wire[e]) - 1
      /\ Head(wire[e]) \in Msg /\ Len(wire[e]) \in Nat
  BY <1>2, HeadTailProperties, LenProperties
<1>4. Taken(e) \in [End -> Seq(Msg)] /\ Taken(e)[e] = Tail(wire[e])
      /\ \A f \in End : f # e => Taken(e)[f] = wire[f]
  BY <1>3 DEF Taken, Shape
<1>5. session[e].gave_way = 0 /\ Alive(e)
  BY <1>1 DEF Lives, Open
<1>. QED
  BY <1>1, <1>3, <1>4, <1>5

\* fail() on one session.
LEMMA FailEffect ==
  ASSUME Shape, NEW e \in End, Open(e), NEW w \in 0 .. MaxDials,
         session' = Closing(session, {e}, w), wire' = Cut(wire, {e})
  PROVE  Streams' /\ Shut(e, w) /\ OthersKept(e)
<1>1. session \in [End -> Session] /\ wire \in [End -> Seq(Msg)]
  BY DEF Shape
<1>2. Streams'
  BY <1>1, ClosingAt, CutAt DEF Streams
<1>3. Shut(e, w)
  BY <1>1, ClosingAt, CutAt DEF Shut
<1>4. ASSUME NEW f \in End, f # e PROVE Kept(f)
  <2>1. session'[f] = session[f] /\ wire'[f] = wire[f]
    BY <1>1, <1>4, ClosingAt, CutAt
  <2>2. Len(wire[f]) \in Nat
    BY <1>1, LenProperties
  <2>. QED
    BY <2>1, <2>2 DEF Kept
<1>. QED
  BY <1>2, <1>3, <1>4 DEF OthersKept

\* The other attempts to reach the same peer are at this server.
LEMMA RivalsElsewhere ==
  ASSUME Shape, Lives, NEW e \in End, Alive(e), NEW f \in Rival(e)
  PROVE  /\ f \in End /\ f # e /\ f # Other(e) /\ Open(f) /\ Alive(f)
         /\ Owner(f) = Owner(e) /\ f[1] = current[Owner(e)][Peer(e)]
  BY Servers DEF Rival, Sessions

\* The messages a handler sends are messages.
LEMMA MessagesTyped ==
  ASSUME TreesInv, Shape
  PROVE  /\ Hello \in Msg /\ Ready \in Msg
         /\ \A n \in Server : Snapshot(tree[n]) \in Msg
         /\ \A s, p \in Server \cup {NoServer} : Introduce(s, p) \in Msg /\ Withdraw(s) \in Msg
<1>. DEFINE Lists == UNION {[S -> Server \cup {NoServer}] : S \in SUBSET Server}
<1>1. NoNodes \in [{} -> Server \cup {NoServer}]
  BY DEF NoNodes
<1>2. NoNodes \in Lists
  BY <1>1
<1>3. ASSUME NEW n \in Server PROVE [s \in Known(tree[n]) |-> tree[n][s].parent] \in Lists
  <2>1. Known(tree[n]) \in SUBSET Server /\ tree[n] \in [Known(tree[n]) -> Node]
    BY DEF TreesInv, TreesSound, TreeOK
  <2>2. \A s \in Known(tree[n]) : tree[n][s].parent \in Server \cup {NoServer}
    BY <2>1 DEF Node
  <2>3. [s \in Known(tree[n]) |-> tree[n][s].parent] \in [Known(tree[n]) -> Server \cup {NoServer}]
    BY <2>2
  <2>. QED
    BY <2>1, <2>3
<1>. HIDE DEF Lists
<1>4. \A op \in Op, s, p \in Server \cup {NoServer}, l \in Lists : Message(op, s, p, l) \in Msg
  BY DEF Message, Msg, Lists
<1>5. {"hello", "ready", "snapshot", "introduce", "withdraw"} \subseteq Op
  BY DEF Op
<1>6. NoServer \in Server \cup {NoServer}
  OBVIOUS
<1>. QED
  BY <1>2, <1>3, <1>4, <1>5, <1>6 DEF Hello, Ready, Snapshot, Introduce, Withdraw

\* handle_hello, superseded sessions included.
LEMMA SupersedeEffect ==
  ASSUME Shape, Lives, NEW e \in End, wire[e] # <<>>
  PROVE  LET others == Closing(session, Rival(e), e[1])
             cut == Cut(Taken(e), Rival(e))
         IN /\ others \in [End -> Session] /\ cut \in [End -> Seq(Msg)]
            /\ others[e] = session[e] /\ Len(cut[e]) + 1 = Len(wire[e])
            /\ \A f \in Rival(e) : /\ f \in End /\ f # e /\ f # Other(e) /\ Open(f)
                                   /\ others[f].phase = session[f].phase
                                   /\ others[f].closing /\ others[f].gave_way = e[1]
                                   /\ cut[f] = <<>>
            /\ \A f \in End : f # e /\ f \notin Rival(e) =>
                 others[f] = session[f] /\ cut[f] = wire[f]
<1>. DEFINE others == Closing(session, Rival(e), e[1])
            cut == Cut(Taken(e), Rival(e))
<1>1. session \in [End -> Session] /\ e[1] \in 0 .. MaxDials
  BY DEF Shape, End, Socket
<1>2. /\ Taken(e) \in [End -> Seq(Msg)] /\ Len(Taken(e)[e]) + 1 = Len(wire[e])
      /\ \A f \in End : f # e => Taken(e)[f] = wire[f]
      /\ Alive(e)
  BY Receiving
<1>3. /\ others \in [End -> Session]
      /\ \A f \in End : f \notin Rival(e) => others[f] = session[f]
      /\ \A f \in End : f \in Rival(e) =>
           others[f].phase = session[f].phase /\ others[f].closing
           /\ others[f].gave_way = e[1]
  BY <1>1, ClosingAt
<1>4. /\ cut \in [End -> Seq(Msg)]
      /\ \A f \in End : cut[f] = IF f \in Rival(e) THEN <<>> ELSE Taken(e)[f]
  BY <1>2, CutAt
<1>5. \A f \in Rival(e) : f \in End /\ f # e /\ f # Other(e) /\ Open(f)
  BY <1>2, RivalsElsewhere
<1>6. e \notin Rival(e)
  BY DEF Rival
<1>. HIDE DEF others, cut
<1>7. /\ others[e] = session[e] /\ Len(cut[e]) + 1 = Len(wire[e])
      /\ \A f \in Rival(e) : /\ f \in End /\ f # e /\ f # Other(e) /\ Open(f)
                             /\ others[f].phase = session[f].phase
                             /\ others[f].closing /\ others[f].gave_way = e[1]
                             /\ cut[f] = <<>>
      /\ \A f \in End : f # e /\ f \notin Rival(e) =>
           others[f] = session[f] /\ cut[f] = wire[f]
  BY <1>2, <1>3, <1>4, <1>5, <1>6
<1>. QED
  BY <1>3, <1>4, <1>7 DEF others, cut

\* Another server is joining: the session is given up and those it would have
\* replaced are gone as well.
LEMMA BusyEffect ==
  ASSUME Shape, Lives, NEW e \in End, wire[e] # <<>>,
         session' = Closing(Closing(session, Rival(e), e[1]), {e}, 0),
         wire' = Cut(Cut(Taken(e), Rival(e)), {e})
  PROVE  Streams' /\ Shut(e, 0) /\ RivalsShut(e)
<1>. DEFINE others == Closing(session, Rival(e), e[1])
            cut == Cut(Taken(e), Rival(e))
<1>1. /\ others \in [End -> Session] /\ cut \in [End -> Seq(Msg)]
      /\ others[e] = session[e]
      /\ \A f \in Rival(e) : /\ f \in End /\ f # e /\ Open(f)
                             /\ others[f].phase = session[f].phase
                             /\ others[f].closing /\ others[f].gave_way = e[1]
                             /\ cut[f] = <<>>
      /\ \A f \in End : f # e /\ f \notin Rival(e) =>
           others[f] = session[f] /\ cut[f] = wire[f]
  BY SupersedeEffect
<1>2. session' = Closing(others, {e}, 0) /\ wire' = Cut(cut, {e})
  OBVIOUS
<1>. HIDE DEF others, cut
<1>3. 0 \in 0 .. MaxDials
  BY LinksAssumption
<1>4. /\ session' \in [End -> Session]
      /\ \A f \in End : f # e => session'[f] = others[f]
      /\ session'[e].phase = others[e].phase /\ session'[e].closing
      /\ session'[e].gave_way = 0
  <2>. DEFINE T == Closing(others, {e}, 0)
  <2>1. others \in [End -> Session] /\ e \in {e}
    BY <1>1
  <2>2. /\ T \in [End -> Session]
        /\ \A f \in End : f \notin {e} => T[f] = others[f]
        /\ \A f \in End : f \in {e} =>
             T[f].phase = others[f].phase /\ T[f].closing /\ T[f].gave_way = 0
    BY <1>3, <2>1, ClosingAt
  <2>. HIDE DEF T
  <2>. QED
    BY <2>2, <1>2 DEF T
<1>5. /\ wire' \in [End -> Seq(Msg)] /\ wire'[e] = <<>>
      /\ \A f \in End : f # e => wire'[f] = cut[f]
  <2>. DEFINE T == Cut(cut, {e})
  <2>1. cut \in [End -> Seq(Msg)]
    BY <1>1
  <2>2. /\ T \in [End -> Seq(Msg)]
        /\ \A f \in End : T[f] = IF f \in {e} THEN <<>> ELSE cut[f]
    BY <2>1, CutAt
  <2>. HIDE DEF T
  <2>. QED
    BY <2>2, <1>2 DEF T
<1>6. Shut(e, 0)
  BY <1>1, <1>4, <1>5, Receiving DEF Shut
<1>7. ASSUME NEW f \in End, f # e
      PROVE  IF f \in Rival(e) THEN Shut(f, e[1]) ELSE Kept(f)
  <2>1. CASE f \in Rival(e)
    <3>1. /\ Open(f) /\ others[f].phase = session[f].phase
          /\ others[f].closing /\ others[f].gave_way = e[1] /\ cut[f] = <<>>
      BY <2>1, <1>1
    <3>2. session'[f] = others[f] /\ wire'[f] = cut[f]
      BY <1>4, <1>5, <1>7
    <3>. QED
      BY <2>1, <3>1, <3>2 DEF Shut
  <2>2. CASE f \notin Rival(e)
    <3>1. session'[f] = session[f] /\ wire'[f] = wire[f] /\ Len(wire[f]) \in Nat
      BY <2>2, <1>1, <1>4, <1>5, <1>7, LenProperties, ZenonT(60) DEF Shape
    <3>. QED
      BY <2>2, <3>1 DEF Kept
  <2>. QED
    BY <2>1, <2>2
<1>. QED
  BY <1>4, <1>5, <1>6, <1>7 DEF Streams, RivalsShut

\* The hello is accepted: the session takes over, and answers.
LEMMA HelloEffect ==
  ASSUME TreesInv, Shape, Lives, NEW e \in End, wire[e] # <<>>, session[e].phase = "new",
         session' = [Closing(session, Rival(e), e[1]) EXCEPT ![e].phase = "hello"],
         wire' = Send(Cut(Taken(e), Rival(e)), {e}, Answer(e))
  PROVE  /\ Streams' /\ Moved(e, "hello") /\ RivalsShut(e)
         /\ Open(Other(e)) => Len(wire'[Other(e)]) >=
              Len(wire[Other(e)]) + IF e[2] = "in" THEN 2 ELSE 1
<1>. DEFINE others == Closing(session, Rival(e), e[1])
            cut == Cut(Taken(e), Rival(e))
<1>1. /\ others \in [End -> Session] /\ cut \in [End -> Seq(Msg)]
      /\ others[e] = session[e] /\ Len(cut[e]) + 1 = Len(wire[e])
      /\ \A f \in Rival(e) : /\ f \in End /\ f # e /\ f # Other(e) /\ Open(f)
                             /\ others[f].phase = session[f].phase
                             /\ others[f].closing /\ others[f].gave_way = e[1]
                             /\ cut[f] = <<>>
      /\ \A f \in End : f # e /\ f \notin Rival(e) =>
           others[f] = session[f] /\ cut[f] = wire[f]
  BY SupersedeEffect
<1>2. session' = [others EXCEPT ![e].phase = "hello"] /\ wire' = Send(cut, {e}, Answer(e))
  OBVIOUS
<1>. HIDE DEF others, cut
<1>3. Open(e) /\ Alive(e) /\ session[e] \in Session /\ Owner(e) \in Server
  BY Receiving, Servers DEF Shape
<1>4. Answer(e) \in Seq(Msg) /\ Len(Answer(e)) = IF e[2] = "in" THEN 2 ELSE 1
  <2>1. Hello \in Msg /\ Snapshot(tree[Owner(e)]) \in Msg
    BY <1>3, MessagesTyped
  <2>. HIDE DEF Msg
  <2>. QED
    BY <2>1 DEF Answer
<1>5. /\ session' \in [End -> Session]
      /\ \A f \in End : f # e => session'[f] = others[f]
      /\ session'[e].phase = "hello" /\ session'[e].closing = session[e].closing
      /\ session'[e].gave_way = session[e].gave_way
  <2>1. others \in [End -> Session] /\ others[e] = session[e]
    BY <1>1
  <2>2. [session[e] EXCEPT !.phase = "hello"] \in Session
    BY <1>3 DEF Session, Phase
  <2>3. /\ session' = [others EXCEPT ![e] = [session[e] EXCEPT !.phase = "hello"]]
    BY <1>2, <2>1
  <2>. QED
    BY <1>3, <2>1, <2>2, <2>3, ZenonT(60) DEF Session
<1>6. /\ wire' \in [End -> Seq(Msg)]
      /\ \A f \in End : ~Open(f) => wire'[f] = cut[f]
      /\ \A f \in End : Len(wire'[f]) >= Len(cut[f])
      /\ \A f \in End : Open(f) /\ Other(f) \in {e} =>
           Len(wire'[f]) = Len(cut[f]) + Len(Answer(e))
  <2>1. cut \in [End -> Seq(Msg)] /\ Answer(e) \in Seq(Msg)
    BY <1>1, <1>4
  <2>. DEFINE from == {e}
              T == Send(cut, from, Answer(e))
  <2>2. wire' = T
    BY <1>2
  <2>. HIDE DEF from
  <2>3. /\ T \in [End -> Seq(Msg)]
        /\ \A f \in End : ~Open(f) => T[f] = cut[f]
        /\ \A f \in End : Len(T[f]) >= Len(cut[f])
        /\ \A f \in End : Open(f) /\ Other(f) \in from =>
             Len(T[f]) = Len(cut[f]) + Len(Answer(e))
    BY <2>1, SendAt
  <2>. HIDE DEF T
  <2>. QED
    BY <2>2, <2>3 DEF from
<1>7. \A f \in End : f # Other(e) => wire'[f] = cut[f]
  <2>. SUFFICES ASSUME NEW f \in End, f # Other(e) PROVE wire'[f] = cut[f]
    OBVIOUS
  <2>1. Other(f) # e
    BY TwoEnds
  <2>. QED
    BY <1>2, <2>1 DEF Send
<1>8. Moved(e, "hello")
  <2>1. Len(wire'[e]) \in Nat /\ Len(cut[e]) \in Nat
    BY <1>1, <1>6, LenProperties
  <2>. QED
    <3>1. Len(wire'[e]) >= Len(cut[e]) /\ Len(cut[e]) + 1 = Len(wire[e])
      BY <1>1, <1>6
    <3>2. Len(wire'[e]) + 1 >= Len(wire[e])
      BY <2>1, <3>1
    <3>. QED
      BY <1>3, <1>5, <3>2 DEF Moved, Open
<1>9. ASSUME NEW f \in End, f # e
      PROVE  IF f \in Rival(e) THEN Shut(f, e[1]) ELSE Kept(f)
  <2>1. CASE f \in Rival(e)
    <3>1. /\ Open(f) /\ others[f].phase = session[f].phase /\ f # Other(e)
          /\ others[f].closing /\ others[f].gave_way = e[1] /\ cut[f] = <<>>
      BY <2>1, <1>1
    <3>2. session'[f] = others[f] /\ wire'[f] = cut[f]
      BY <1>5, <1>7, <1>9, <3>1
    <3>. QED
      BY <2>1, <3>1, <3>2 DEF Shut
  <2>2. CASE f \notin Rival(e)
    <3>1. session'[f] = session[f] /\ cut[f] = wire[f]
      BY <2>2, <1>1, <1>5, <1>9
    <3>. QED
      BY <2>2, <3>1, <1>6 DEF Kept
  <2>. QED
    BY <2>1, <2>2
<1>10. ASSUME Open(Other(e))
       PROVE  Len(wire'[Other(e)]) >= Len(wire[Other(e)]) + IF e[2] = "in" THEN 2 ELSE 1
  <2>1. Other(e) \in End /\ Other(Other(e)) = e /\ Other(e) # e
    BY TwoEnds
  <2>2. cut[Other(e)] = wire[Other(e)]
    BY <1>1, <2>1
  <2>3. Len(wire'[Other(e)]) = Len(wire[Other(e)]) + Len(Answer(e))
    BY <1>6, <1>10, <2>1, <2>2
  <2>4. Len(wire[Other(e)]) \in Nat
    BY <2>1, LenProperties DEF Shape
  <2>. DEFINE x == Len(wire'[Other(e)])
              y == Len(wire[Other(e)])
              z == Len(Answer(e))
  <2>5. x = y + z /\ y \in Nat /\ z = IF e[2] = "in" THEN 2 ELSE 1
    BY <1>4, <2>3, <2>4
  <2>. HIDE DEF x, y, z
  <2>6. x >= y + IF e[2] = "in" THEN 2 ELSE 1
    BY <2>5
  <2>. QED
    BY <2>6 DEF x, y
<1>. QED
  BY <1>5, <1>6, <1>8, <1>9, <1>10 DEF Streams, RivalsShut

\* A handler takes its message and sends others.
LEMMA ForwardEffect ==
  ASSUME Shape, Lives, NEW e \in End, wire[e] # <<>>, NEW from, NEW msgs \in Seq(Msg),
         wire' = Send(Taken(e), from, msgs)
  PROVE  /\ wire' \in [End -> Seq(Msg)]
         /\ Len(wire'[e]) + 1 >= Len(wire[e])
         /\ \A f \in End : f # e => /\ ~Open(f) => wire'[f] = wire[f]
                                    /\ Len(wire'[f]) >= Len(wire[f])
         /\ \A f \in End : f # e /\ Open(f) /\ Other(f) \in from =>
              Len(wire'[f]) = Len(wire[f]) + Len(msgs)
<1>1. /\ Taken(e) \in [End -> Seq(Msg)] /\ Len(Taken(e)[e]) + 1 = Len(wire[e])
      /\ \A f \in End : f # e => Taken(e)[f] = wire[f]
  BY Receiving
<1>. DEFINE w == Taken(e)
<1>2. /\ wire' \in [End -> Seq(Msg)]
      /\ \A f \in End : ~Open(f) => wire'[f] = w[f]
      /\ \A f \in End : Len(wire'[f]) >= Len(w[f])
      /\ \A f \in End : Open(f) /\ Other(f) \in from =>
           Len(wire'[f]) = Len(w[f]) + Len(msgs)
  BY <1>1, SendAt
<1>. HIDE DEF w
<1>3. w[e] \in Seq(Msg) /\ Len(w[e]) + 1 = Len(wire[e])
      /\ \A f \in End : f # e => w[f] = wire[f]
  BY <1>1 DEF w
<1>4. Len(wire'[e]) \in Nat /\ Len(w[e]) \in Nat
  BY <1>2, <1>3, LenProperties
<1>5. Len(wire'[e]) + 1 >= Len(wire[e])
  BY <1>2, <1>3, <1>4
<1>. QED
  BY <1>2, <1>3, <1>5

\* A session table in which only e differs, but for generations.
LEMMA OthersKeptBy ==
  ASSUME Shape, NEW e \in End,
         \A f \in End : f # e =>
           /\ session'[f].phase = session[f].phase
           /\ session'[f].closing = session[f].closing
           /\ session'[f].gave_way = session[f].gave_way
           /\ session[f].phase = "gone" => session'[f] = session[f],
         \A f \in End : f # e => /\ ~Open(f) => wire'[f] = wire[f]
                                 /\ Len(wire'[f]) >= Len(wire[f])
  PROVE  OthersKept(e)
<1>1. \A f \in End : session[f] = Gone => session[f].phase = "gone"
  BY DEF Gone
<1>. QED
  BY <1>1 DEF OthersKept, Kept

\* The snapshot is attached and the session is admitted.
LEMMA SnapshotEffect ==
  ASSUME TreesInv, Shape, Lives, NEW e \in End, wire[e] # <<>>, NEW n,
         session' = [Bump(n, session) EXCEPT ![e].phase = "admitted"],
         wire' = Send(Taken(e), {e}, <<Ready>>)
  PROVE  /\ Streams' /\ Moved(e, "admitted") /\ OthersKept(e)
         /\ Open(Other(e)) => Len(wire'[Other(e)]) >= Len(wire[Other(e)]) + 1
<1>. DEFINE from == {e}
            msgs == <<Ready>>
            bumped == Bump(n, session)
<1>1. wire' = Send(Taken(e), from, msgs) /\ e \in from
  OBVIOUS
<1>2. msgs \in Seq(Msg) /\ Len(msgs) = 1
  BY MessagesTyped
<1>. HIDE DEF from, msgs
<1>3. /\ wire' \in [End -> Seq(Msg)]
      /\ Len(wire'[e]) + 1 >= Len(wire[e])
      /\ \A f \in End : f # e => /\ ~Open(f) => wire'[f] = wire[f]
                                 /\ Len(wire'[f]) >= Len(wire[f])
      /\ \A f \in End : f # e /\ Open(f) /\ Other(f) \in from =>
           Len(wire'[f]) = Len(wire[f]) + Len(msgs)
  BY <1>1, <1>2, ForwardEffect
<1>4. /\ bumped \in [End -> Session]
      /\ \A f \in End : /\ bumped[f].phase = session[f].phase
                        /\ bumped[f].closing = session[f].closing
                        /\ bumped[f].gave_way = session[f].gave_way
                        /\ session[f].phase \notin {"hello", "admitted"} => bumped[f] = session[f]
  BY BumpAt DEF Shape
<1>5. session' = [bumped EXCEPT ![e].phase = "admitted"]
  OBVIOUS
<1>. HIDE DEF bumped
<1>6. /\ session' \in [End -> Session]
      /\ session'[e].phase = "admitted" /\ session'[e].closing = session[e].closing
      /\ session'[e].gave_way = session[e].gave_way
      /\ \A f \in End : f # e => session'[f] = bumped[f]
  <2>1. bumped[e] \in Session
    BY <1>4
  <2>2. [bumped[e] EXCEPT !.phase = "admitted"] \in Session
    BY <2>1 DEF Session, Phase
  <2>. QED
    BY <1>4, <1>5, <2>1, <2>2, ZenonT(60) DEF Session
<1>7. OthersKept(e)
  <2>1. \A f \in End : f # e =>
          /\ session'[f].phase = session[f].phase
          /\ session'[f].closing = session[f].closing
          /\ session'[f].gave_way = session[f].gave_way
          /\ session[f].phase = "gone" => session'[f] = session[f]
    BY <1>4, <1>6
  <2>. QED
    BY <1>3, <2>1, OthersKeptBy
<1>8. Open(e)
  BY Receiving
<1>9. Moved(e, "admitted")
  BY <1>3, <1>6, <1>8 DEF Moved, Open
<1>10. ASSUME Open(Other(e))
       PROVE  Len(wire'[Other(e)]) >= Len(wire[Other(e)]) + 1
  <2>1. Other(e) \in End /\ Other(Other(e)) = e /\ Other(e) # e
    BY TwoEnds
  <2>2. Len(wire'[Other(e)]) = Len(wire[Other(e)]) + Len(msgs)
    BY <1>1, <1>3, <1>10, <2>1
  <2>3. Len(wire[Other(e)]) \in Nat
    BY <2>1, LenProperties DEF Shape
  <2>. QED
    BY <1>2, <2>2, <2>3
<1>. QED
  BY <1>3, <1>6, <1>7, <1>9, <1>10 DEF Streams

\* An established link passes a change of the network on.
LEMMA BroadcastEffect ==
  ASSUME Shape, Lives, NEW e \in End, wire[e] # <<>>, NEW n, NEW from,
         NEW msgs \in Seq(Msg), session[e].phase = "established",
         session' = Bump(n, session), wire' = Send(Taken(e), from, msgs)
  PROVE  Streams' /\ Moved(e, "established") /\ OthersKept(e)
<1>3. /\ wire' \in [End -> Seq(Msg)]
      /\ Len(wire'[e]) + 1 >= Len(wire[e])
      /\ \A f \in End : f # e => /\ ~Open(f) => wire'[f] = wire[f]
                                 /\ Len(wire'[f]) >= Len(wire[f])
  BY ForwardEffect
<1>4. /\ session' \in [End -> Session]
      /\ \A f \in End : /\ session'[f].phase = session[f].phase
                        /\ session'[f].closing = session[f].closing
                        /\ session'[f].gave_way = session[f].gave_way
                        /\ session[f].phase \notin {"hello", "admitted"} => session'[f] = session[f]
  <2>. DEFINE T == Bump(n, session)
  <2>1. /\ T \in [End -> Session]
        /\ \A f \in End : /\ T[f].phase = session[f].phase
                          /\ T[f].closing = session[f].closing
                          /\ T[f].gave_way = session[f].gave_way
                          /\ session[f].phase \notin {"hello", "admitted"} => T[f] = session[f]
    BY BumpAt DEF Shape
  <2>. HIDE DEF T
  <2>2. session' = T
    BY DEF T
  <2>. QED
    BY <2>1, <2>2
<1>7. OthersKept(e)
  BY <1>3, <1>4, OthersKeptBy
<1>8. Open(e)
  BY Receiving
<1>9. Moved(e, "established")
  BY <1>3, <1>4, <1>8 DEF Moved, Open
<1>. QED
  BY <1>3, <1>4, <1>7, <1>9 DEF Streams

\* The link is established and its branch announced.
LEMMA ReadyEffect ==
  ASSUME Shape, Lives, NEW e \in End, wire[e] # <<>>, NEW from,
         NEW msgs \in Seq(Msg),
         session' = [session EXCEPT ![e] = [Opened EXCEPT !.phase = "established"]],
         wire' = Send(Taken(e), from, msgs)
  PROVE  Streams' /\ Moved(e, "established") /\ OthersKept(e)
<1>3. /\ wire' \in [End -> Seq(Msg)]
      /\ Len(wire'[e]) + 1 >= Len(wire[e])
      /\ \A f \in End : f # e => /\ ~Open(f) => wire'[f] = wire[f]
                                 /\ Len(wire'[f]) >= Len(wire[f])
  BY ForwardEffect
<1>4. [Opened EXCEPT !.phase = "established"] \in Session
  <2>1. Opened \in Session
    BY LinksAssumption DEF Opened, Session, Phase
  <2>. QED
    BY <2>1 DEF Session, Phase
<1>5. /\ session' \in [End -> Session]
      /\ session'[e] = [Opened EXCEPT !.phase = "established"]
      /\ \A f \in End : f # e => session'[f] = session[f]
  BY <1>4 DEF Shape
<1>6. session'[e].phase = "established" /\ ~session'[e].closing /\ session'[e].gave_way = 0
  BY <1>5 DEF Opened
<1>7. OthersKept(e)
  BY <1>3, <1>5, OthersKeptBy
<1>8. Open(e) /\ session[e].gave_way = 0
  BY Receiving
<1>9. Moved(e, "established")
  BY <1>3, <1>6, <1>8 DEF Moved
<1>. QED
  BY <1>3, <1>5, <1>7, <1>9 DEF Streams

\* The session is freed, and its end announced if it was established.
LEMMA CloseEffect ==
  ASSUME TreesInv, Shape, Lives, NEW e \in End, close_session(e)
  PROVE  Streams' /\ Freed(e) /\ OthersKept(e)
<1>. DEFINE n == Owner(e)
            closed == [session EXCEPT ![e] = Gone]
            drained == [wire EXCEPT ![e] = <<>>]
            msgs == <<Withdraw(Peer(e))>>
<1>1. /\ Alive(e)
      /\ session' = Bump(n, closed) \/ session' = closed
      /\ wire' = Send(drained, Audience(e), msgs) \/ wire' = drained
  BY DEF close_session
<1>2. Peer(e) \in Server
  BY <1>1, Servers
<1>3. msgs \in Seq(Msg)
  BY <1>2, MessagesTyped
<1>4. Gone \in Session
  BY LinksAssumption DEF Gone, Session, Phase
<1>5. /\ closed \in [End -> Session] /\ closed[e] = Gone
      /\ \A f \in End : f # e => closed[f] = session[f]
  BY <1>4 DEF Shape
<1>6. /\ drained \in [End -> Seq(Msg)] /\ drained[e] = <<>>
      /\ \A f \in End : f # e => drained[f] = wire[f]
  BY DEF Shape
<1>. HIDE DEF n, closed, drained, msgs
<1>7. /\ session' \in [End -> Session]
      /\ \A f \in End : /\ session'[f].phase = closed[f].phase
                        /\ session'[f].closing = closed[f].closing
                        /\ session'[f].gave_way = closed[f].gave_way
                        /\ closed[f].phase = "gone" => session'[f] = closed[f]
  <2>1. CASE session' = Bump(n, closed)
    BY <1>5, <2>1, BumpAt
  <2>2. CASE session' = closed
    BY <1>5, <2>2
  <2>. QED
    BY <1>1, <2>1, <2>2
<1>8. session'[e] = Gone
  <2>1. closed[e].phase = "gone"
    BY <1>5 DEF Gone
  <2>. QED
    BY <1>5, <1>7, <2>1
<1>9. /\ wire' \in [End -> Seq(Msg)]
      /\ \A f \in End : f # e => /\ ~Open(f) => wire'[f] = wire[f]
                                 /\ Len(wire'[f]) >= Len(wire[f])
  <2>1. CASE wire' = Send(drained, Audience(e), msgs)
    <3>. DEFINE from == Audience(e)
    <3>. HIDE DEF from
    <3>1. wire' = Send(drained, from, msgs)
      BY <2>1 DEF from
    <3>2. /\ wire' \in [End -> Seq(Msg)]
          /\ \A f \in End : ~Open(f) => wire'[f] = drained[f]
          /\ \A f \in End : Len(wire'[f]) >= Len(drained[f])
      BY <1>3, <1>6, <3>1, SendAt
    <3>. QED
      BY <1>6, <3>2
  <2>2. CASE wire' = drained
    <3>1. \A f \in End : Len(wire[f]) \in Nat
      BY LenProperties DEF Shape
    <3>. QED
      BY <1>6, <2>2, <3>1
  <2>. QED
    BY <1>1, <2>1, <2>2
<1>10. wire'[e] = <<>>
  <2>1. Other(e) \notin Audience(e)
    <3>1. Owner(Other(e)) # Owner(e)
      BY <1>1, Servers
    <3>. QED
      BY <3>1 DEF Audience, Sessions
  <2>2. CASE wire' = Send(drained, Audience(e), msgs)
    BY <2>1, <2>2, <1>6 DEF Send
  <2>. QED
    BY <1>1, <1>6, <2>2
<1>11. OthersKept(e)
  BY <1>5, <1>7, <1>9, OthersKeptBy
<1>. QED
  BY <1>7, <1>8, <1>9, <1>10, <1>11 DEF Streams, Freed

(***************************************************************************)
(* Routes to direct peers: which servers head a branch of a tree.          *)
(***************************************************************************)
Heads(t, local) == {q \in Server \ {local} : Route(t, q) = q}

\* An attached snapshot makes one more server the head of a branch.
LEMMA AttachHeads ==
  ASSUME NEW t, NEW local \in Server, NEW peer \in Server, NEW nodes, peer # local,
         TreeOK(t, local), CanAttach(t, peer, nodes)
  PROVE  /\ peer \notin Heads(t, local)
         /\ Heads(Attach(t, local, peer, nodes), local) = Heads(t, local) \cup {peer}
<1>. DEFINE T == Attach(t, local, peer, nodes)
<1>1. /\ Known(T) = Known(t) \cup DOMAIN nodes
      /\ DOMAIN nodes \cap Known(t) = {} /\ peer \in DOMAIN nodes
      /\ \A s \in Known(t) : T[s] = t[s]
      /\ \A s \in DOMAIN nodes : s \notin Known(t) /\ T[s].peer = peer
  BY DEF Attach, CanAttach, Known
<1>. HIDE DEF T
<1>2. ASSUME NEW q \in Server PROVE Route(T, q) = q <=> Route(t, q) = q \/ q = peer
  <2>1. CASE q \in Known(t)
    BY <1>1, <2>1 DEF Route
  <2>2. CASE q \in DOMAIN nodes
    BY <1>1, <2>2, LinkTreeAssumption DEF Route
  <2>3. CASE q \notin Known(T)
    BY <1>1, <2>3, LinkTreeAssumption DEF Route
  <2>. QED
    BY <1>1, <2>1, <2>2, <2>3
<1>3. peer \notin Heads(t, local)
  BY <1>1, LinkTreeAssumption DEF Heads, Route
<1>. QED
  BY <1>2, <1>3 DEF Heads, T

\* An introduction makes no server the head of a branch.
LEMMA AddHeads ==
  ASSUME NEW t, NEW local \in Server, NEW peer, NEW server, NEW parent,
         TreeOK(t, local), CanAdd(t, peer, server, parent)
  PROVE  Heads(Add(t, peer, server, parent), local) = Heads(t, local)
<1>. DEFINE T == Add(t, peer, server, parent)
<1>1. /\ Known(T) = Known(t) \cup {server} /\ server \notin Known(t) /\ peer \in Known(t)
      /\ \A s \in Known(t) : T[s] = t[s]
      /\ T[server].peer = peer
  BY DEF Add, CanAdd, Known
<1>. HIDE DEF T
<1>2. ASSUME NEW q \in Server PROVE Route(T, q) = q <=> Route(t, q) = q
  BY <1>1, LinkTreeAssumption DEF Route
<1>. QED
  BY <1>2 DEF Heads, T

\* A removal leaves what it does not mark.
LEMMA RemoveRoute ==
  ASSUME NEW t, NEW server, NEW q
  PROVE  Route(Remove(t, server), q) = IF q \in Subtree(t, server) THEN NoServer ELSE Route(t, q)
<1>1. /\ Known(Remove(t, server)) = Known(t) \ Subtree(t, server)
      /\ \A s \in Known(t) \ Subtree(t, server) : Remove(t, server)[s] = t[s]
  BY DEF Remove, Known
<1>2. Subtree(t, server) \subseteq Known(t)
  BY DEF Subtree
<1>. QED
  BY <1>1, <1>2 DEF Route

\* The loss of a link takes its head, and no other, out of the tree.
LEMMA RemovePeerHeads ==
  ASSUME NEW t, NEW local \in Server, NEW peer \in Server,
         TreeOK(t, local), CanRemove(t, peer, peer)
  PROVE  Heads(Remove(t, peer), local) = Heads(t, local) \ {peer}
<1>1. peer \in Known(t) /\ peer \in Subtree(t, peer)
  BY SubtreeClosed DEF CanRemove
<1>2. ASSUME NEW q \in Server, q # peer, Route(t, q) = q PROVE q \notin Subtree(t, peer)
  <2>1. q \in Known(t) /\ t[q].peer # peer
    BY <1>2, LinkTreeAssumption DEF Route
  <2>2. q \in Known(Remove(t, peer))
    BY <2>1, RemoveKeepsOtherBranches
  <2>. QED
    BY <2>2 DEF Remove, Known
<1>3. ASSUME NEW q \in Server
      PROVE  Route(Remove(t, peer), q) = q <=> Route(t, q) = q /\ q # peer
  BY <1>1, <1>2, RemoveRoute, LinkTreeAssumption
<1>. QED
  BY <1>3 DEF Heads

\* A withdrawal below the head of a branch takes no head out of the tree.
LEMMA RemoveBelowHeads ==
  ASSUME NEW t, NEW local \in Server, NEW peer \in Server, NEW server, server # peer,
         TreeOK(t, local), CanRemove(t, peer, server)
  PROVE  Heads(Remove(t, server), local) = Heads(t, local)
<1>1. ASSUME NEW q \in Server \ {local}, Route(t, q) = q PROVE q \notin Subtree(t, server)
  <2>1. q \in Known(t) /\ t[q].peer = q
    BY <1>1, LinkTreeAssumption DEF Route
  <2>2. CASE q # peer
    <3>1. q \in Known(Remove(t, server))
      BY <2>1, <2>2, RemoveKeepsOtherBranches
    <3>. QED
      BY <3>1 DEF Remove, Known
  <2>3. CASE q = peer
    \* The rest of the branch is closed under the marking.
    <3>. DEFINE rest == {x \in Known(t) : x # peer /\ t[x].peer = peer}
    <3>1. server \in rest /\ rest \in SUBSET Known(t) /\ peer # NoServer
      BY DEF CanRemove
    <3>2. ASSUME NEW x \in Known(t), t[x].parent \in rest PROVE x \in rest
      <4>1. t[local] = [parent |-> NoServer, peer |-> NoServer] /\ NoServer \notin Known(t)
        BY LinkTreeAssumption DEF TreeOK, RootLocal
      <4>2. x # local /\ t[x].parent # local
        BY <3>1, <3>2, <4>1
      <4>3. t[t[x].parent].peer = t[x].peer /\ x # peer
        BY <2>1, <2>3, <4>2 DEF TreeOK, BranchesOK
      <4>. QED
        BY <3>2, <4>3
    <3>. HIDE DEF rest
    <3>3. Subtree(t, server) \subseteq rest
      BY <3>1, <3>2 DEF Subtree
    <3>. QED
      BY <2>3, <3>3 DEF rest
  <2>. QED
    BY <2>2, <2>3
<1>2. ASSUME NEW q \in Server \ {local}
      PROVE  Route(Remove(t, server), q) = q <=> Route(t, q) = q
  BY <1>1, RemoveRoute, LinkTreeAssumption
<1>. QED
  BY <1>2 DEF Heads

(***************************************************************************)
(* Every step but a dial is about one live session and is of one of seven  *)
(* kinds.                                                                  *)
(***************************************************************************)
HeadsKept == \A n \in Server : Heads(tree'[n], n) = Heads(tree[n], n)

\* The session is given up.
FailStep(e) ==
  /\ Shut(e, 0) /\ OthersKept(e)
  /\ HeadsKept /\ UNCHANGED <<current, ends, dialed>>

\* It gives way to the current attempt.
TieStep(e) ==
  /\ \E f \in Rival(e) : LosesTo(e, f)
  /\ Shut(e, current[Owner(e)][Peer(e)]) /\ OthersKept(e)
  /\ HeadsKept /\ UNCHANGED <<current, ends, dialed>>

\* It wins, and is given up because another server is joining.
BusyStep(e) ==
  /\ \A f \in Rival(e) : ~LosesTo(e, f)
  /\ Shut(e, 0) /\ RivalsShut(e)
  /\ HeadsKept /\ UNCHANGED <<current, ends, dialed>>

\* It wins and takes over.
HelloStep(e) ==
  /\ session[e].phase = "new"
  /\ \A f \in Rival(e) : ~LosesTo(e, f)
  /\ Moved(e, "hello") /\ RivalsShut(e)
  /\ Open(Other(e)) => Len(wire'[Other(e)]) >=
       Len(wire[Other(e)]) + IF e[2] = "in" THEN 2 ELSE 1
  /\ current' = [current EXCEPT ![Owner(e)][Peer(e)] = e[1]]
  /\ HeadsKept /\ UNCHANGED <<ends, dialed>>

\* It is admitted.
AdmitStep(e) ==
  /\ session[e].phase = "hello"
  /\ Moved(e, "admitted") /\ OthersKept(e)
  /\ Open(Other(e)) => Len(wire'[Other(e)]) >= Len(wire[Other(e)]) + 1
  /\ Peer(e) \notin Heads(tree[Owner(e)], Owner(e))
  /\ Heads(tree'[Owner(e)], Owner(e)) = Heads(tree[Owner(e)], Owner(e)) \cup {Peer(e)}
  /\ \A n \in Server : n # Owner(e) => tree'[n] = tree[n]
  /\ UNCHANGED <<current, ends, dialed>>

\* It is established, or serves as such.
LinkStep(e) ==
  /\ session[e].phase \in {"admitted", "established"}
  /\ Moved(e, "established") /\ OthersKept(e)
  /\ HeadsKept /\ UNCHANGED <<current, ends, dialed>>

\* It is freed.
CloseStep(e) ==
  /\ Alive(e) /\ Freed(e) /\ OthersKept(e)
  /\ IF OwnsBranch(e) /\ Peer(e) \in Heads(tree[Owner(e)], Owner(e))
       THEN /\ Heads(tree'[Owner(e)], Owner(e)) = Heads(tree[Owner(e)], Owner(e)) \ {Peer(e)}
            /\ \A n \in Server : n # Owner(e) => tree'[n] = tree[n]
       ELSE HeadsKept
  /\ current' = IF current[Owner(e)][Peer(e)] = e[1]
                THEN [current EXCEPT ![Owner(e)][Peer(e)] = NoSocket] ELSE current
  /\ ends' = IF Alive(Other(e)) THEN ends
             ELSE [ends EXCEPT ![e[1]] = <<NoServer, NoServer>>]
  /\ UNCHANGED dialed

SessionStep(e) ==
  \/ FailStep(e) \/ TieStep(e) \/ BusyStep(e) \/ HelloStep(e)
  \/ AdmitStep(e) \/ LinkStep(e) \/ CloseStep(e)

\* The part of the invariant that the steps are classified with.
Base == TreesInv /\ Shape /\ Lives

\* What a handler's step is, and that it leaves the types as they are.
Sound(e) == SessionStep(e) /\ Shape'

\* A step that touches no tree.
LEMMA SameHeads == UNCHANGED tree => HeadsKept
  BY DEF HeadsKept

\* A step that changes one tree and none of its heads.
LEMMA OneTreeHeads ==
  ASSUME TreesInv, NEW m \in Server, NEW t,
         tree' = [tree EXCEPT ![m] = t], Heads(t, m) = Heads(tree[m], m)
  PROVE  HeadsKept
<1>1. \A n \in Server : tree'[n] = IF n = m THEN t ELSE tree[n]
  BY DEF TreesInv
<1>. QED
  BY <1>1 DEF HeadsKept

\* The step is a failure of the session e.
LEMMA Fails ==
  ASSUME Base, NEW e \in End, Open(e), Fail(e), UNCHANGED <<tree, current, ends, dialed>>,
         blocked' \in [Server -> SUBSET Server], breaks' \in 0 .. MaxBreaks
  PROVE  Sound(e)
<1>1. 0 \in 0 .. MaxDials
  BY LinksAssumption
<1>2. session' = Closing(session, {e}, 0) /\ wire' = Cut(wire, {e})
  BY DEF Fail
<1>3. Streams' /\ Shut(e, 0) /\ OthersKept(e)
  BY <1>1, <1>2, FailEffect DEF Base
<1>4. FailStep(e)
  BY <1>3, SameHeads DEF FailStep
<1>5. Shape'
  BY <1>3 DEF Base, Shape, Streams
<1>. QED
  BY <1>4, <1>5 DEF Sound, SessionStep

\* A timeout or a transport error.
LEMMA BreakSound ==
  ASSUME Base, NEW e \in End, Break(e)
  PROVE  Sound(e)
<1>1. breaks' \in 0 .. MaxBreaks
  BY LinksAssumption DEF Break, Base, Shape
<1>2. blocked' \in [Server -> SUBSET Server]
  BY DEF Break, Base, Shape
<1>. QED
  BY <1>1, <1>2, Fails DEF Break

\* handle_hello: a failure, a lost tie-break, a busy server or a takeover.
LEMMA HelloSound ==
  ASSUME Base, NEW e \in End, handle_hello(e)
  PROVE  Sound(e)
<1>. DEFINE n == Owner(e)
            p == Peer(e)
<1>1. wire[e] # <<>> /\ UNCHANGED <<tree, blocked, ends, dialed, breaks>>
  BY DEF handle_hello, Received
<1>2. Open(e) /\ Alive(e)
  BY <1>1, Receiving DEF Base
<1>3. n \in Server /\ p \in Server
  BY <1>2, Servers DEF Base
<1>4. current[n][p] \in Socket \cup {NoSocket} /\ e[1] \in Socket
  BY <1>3, TwoEnds DEF Base, Shape
<1>5. blocked' \in [Server -> SUBSET Server] /\ breaks' \in 0 .. MaxBreaks
  BY <1>1 DEF Base, Shape
<1>6. HeadsKept
  BY <1>1, SameHeads
<1>7. CASE Fail(e) /\ UNCHANGED current
  BY <1>1, <1>2, <1>5, <1>7, Fails
<1>8. CASE /\ \E f \in Rival(e) : LosesTo(e, f)
           /\ session' = Closing(session, {e}, current[n][p])
           /\ wire' = Cut(wire, {e})
           /\ UNCHANGED current
  <2>1. current[n][p] \in 0 .. MaxDials
    <3>1. PICK f \in Rival(e) : TRUE
      BY <1>8
    <3>2. f \in End /\ f[1] = current[n][p]
      BY <1>2, <3>1, RivalsElsewhere DEF Base
    <3>. QED
      BY <3>2 DEF End, Socket
  <2>2. Streams' /\ Shut(e, current[n][p]) /\ OthersKept(e)
    BY <1>2, <1>8, <2>1, FailEffect DEF Base
  <2>3. TieStep(e)
    BY <1>1, <1>6, <1>8, <2>2 DEF TieStep
  <2>4. Shape'
    BY <1>1, <1>8, <2>2 DEF Base, Shape, Streams
  <2>. QED
    BY <2>3, <2>4 DEF Sound, SessionStep
<1>9. CASE /\ \A f \in Rival(e) : ~LosesTo(e, f)
           /\ session' = Closing(Closing(session, Rival(e), e[1]), {e}, 0)
           /\ wire' = Cut(Cut(Taken(e), Rival(e)), {e})
           /\ UNCHANGED current
  <2>2. Streams' /\ Shut(e, 0) /\ RivalsShut(e)
    BY <1>1, <1>9, BusyEffect DEF Base
  <2>3. BusyStep(e)
    BY <1>1, <1>6, <1>9, <2>2 DEF BusyStep
  <2>4. Shape'
    BY <1>1, <1>9, <2>2 DEF Base, Shape, Streams
  <2>. QED
    BY <2>3, <2>4 DEF Sound, SessionStep
<1>10. CASE /\ session[e].phase = "new"
            /\ \A f \in Rival(e) : ~LosesTo(e, f)
            /\ session' = [Closing(session, Rival(e), e[1]) EXCEPT ![e].phase = "hello"]
            /\ wire' = Send(Cut(Taken(e), Rival(e)), {e}, Answer(e))
            /\ current' = [current EXCEPT ![n][p] = e[1]]
  <2>2. /\ Streams' /\ Moved(e, "hello") /\ RivalsShut(e)
        /\ Open(Other(e)) => Len(wire'[Other(e)]) >=
             Len(wire[Other(e)]) + IF e[2] = "in" THEN 2 ELSE 1
    BY <1>1, <1>10, HelloEffect DEF Base
  <2>3. HelloStep(e)
    BY <1>1, <1>6, <1>10, <2>2 DEF HelloStep
  <2>4. current' \in [Server -> [Server -> Socket \cup {NoSocket}]]
    BY <1>3, <1>4, <1>10 DEF Base, Shape
  <2>5. Shape'
    BY <1>1, <1>10, <2>2, <2>4 DEF Base, Shape, Streams
  <2>. QED
    BY <2>3, <2>5 DEF Sound, SessionStep
<1>. QED
  BY <1>7, <1>8, <1>9, <1>10, Zenon DEF handle_hello

\* handle_snapshot: a failure, or the admission of a peer without a branch.
LEMMA SnapshotSound ==
  ASSUME Base, NEW e \in End, handle_snapshot(e)
  PROVE  Sound(e)
<1>. DEFINE n == Owner(e)
            p == Peer(e)
            nodes == Head(wire[e]).nodes
<1>1. wire[e] # <<>> /\ UNCHANGED <<current, blocked, ends, dialed, breaks>>
  BY DEF handle_snapshot, Received
<1>2. Open(e) /\ Alive(e)
  BY <1>1, Receiving DEF Base
<1>3. n \in Server /\ p \in Server /\ n # p
  BY <1>2, Servers DEF Base
<1>4. blocked' \in [Server -> SUBSET Server] /\ breaks' \in 0 .. MaxBreaks
  BY <1>1 DEF Base, Shape
<1>5. CASE Fail(e) /\ UNCHANGED tree
  BY <1>1, <1>2, <1>4, <1>5, Fails
<1>6. CASE /\ session[e].phase = "hello"
           /\ CanAttach(tree[n], p, nodes)
           /\ tree' = [tree EXCEPT ![n] = Attach(tree[n], n, p, nodes)]
           /\ session' = [Bump(n, session) EXCEPT ![e].phase = "admitted"]
           /\ wire' = Send(Taken(e), {e}, <<Ready>>)
  <2>1. /\ Streams' /\ Moved(e, "admitted") /\ OthersKept(e)
        /\ Open(Other(e)) => Len(wire'[Other(e)]) >= Len(wire[Other(e)]) + 1
    BY <1>1, <1>6, SnapshotEffect DEF Base
  <2>2. TreeOK(tree[n], n) /\ tree = [m \in Server |-> tree[m]]
    BY <1>3 DEF Base, TreesInv, TreesSound
  <2>3. /\ p \notin Heads(tree[n], n)
        /\ Heads(Attach(tree[n], n, p, nodes), n) = Heads(tree[n], n) \cup {p}
    BY <1>3, <1>6, <2>2, AttachHeads
  <2>4. /\ tree'[n] = Attach(tree[n], n, p, nodes)
        /\ \A m \in Server : m # n => tree'[m] = tree[m]
    BY <1>3, <1>6, <2>2
  <2>5. AdmitStep(e)
    BY <1>1, <1>6, <2>1, <2>3, <2>4 DEF AdmitStep
  <2>6. Shape'
    BY <1>1, <2>1 DEF Base, Shape, Streams
  <2>. QED
    BY <2>5, <2>6 DEF Sound, SessionStep
<1>. QED
  BY <1>5, <1>6, Zenon DEF handle_snapshot

\* The branch that establish() announces is a list of messages.
LEMMA AnnouncementTyped ==
  ASSUME TreesInv, Shape, NEW n \in Server, NEW p, NEW order \in ParentFirst(tree[n], p)
  PROVE  [i \in DOMAIN order |-> Introduce(order[i], tree[n][order[i]].parent)] \in Seq(Msg)
<1>. DEFINE branch == {s \in Known(tree[n]) : Route(tree[n], s) = p}
            size == Cardinality(branch)
            msgs == [i \in DOMAIN order |-> Introduce(order[i], tree[n][order[i]].parent)]
<1>1. order \in [1 .. size -> branch]
  BY DEF ParentFirst
<1>2. Known(tree[n]) \subseteq Server /\ tree[n] \in [Known(tree[n]) -> Node]
  BY DEF TreesInv, TreesSound, TreeOK
<1>3. IsFiniteSet(branch) /\ branch \subseteq Known(tree[n])
  BY <1>2, FS_Subset, LinkTreeAssumption
<1>4. size \in Nat
  BY <1>3, FS_CardinalityType
<1>. HIDE DEF branch, size
<1>5. ASSUME NEW i \in 1 .. size PROVE Introduce(order[i], tree[n][order[i]].parent) \in Msg
  <2>1. order[i] \in Known(tree[n])
    BY <1>1, <1>3
  <2>2. order[i] \in Server \cup {NoServer} /\ tree[n][order[i]].parent \in Server \cup {NoServer}
    BY <1>2, <2>1 DEF Node
  <2>. QED
    BY <2>2, MessagesTyped
<1>6. DOMAIN order = 1 .. size
  BY <1>1
<1>7. msgs \in [1 .. size -> Msg]
  BY <1>5, <1>6
<1>. HIDE DEF msgs
<1>8. msgs \in Seq(Msg)
  BY <1>4, <1>7
<1>. QED
  BY <1>8 DEF msgs

\* handle_ready: a failure, or the link is established.
LEMMA ReadySound ==
  ASSUME Base, NEW e \in End, handle_ready(e)
  PROVE  Sound(e)
<1>. DEFINE n == Owner(e)
            Ann(order) == [i \in DOMAIN order |-> Introduce(order[i], tree[n][order[i]].parent)]
<1>1. wire[e] # <<>> /\ UNCHANGED <<tree, current, blocked, ends, dialed, breaks>>
  BY DEF handle_ready, Received
<1>2. Open(e) /\ Alive(e)
  BY <1>1, Receiving DEF Base
<1>3. n \in Server
  BY <1>2, Servers DEF Base
<1>4. blocked' \in [Server -> SUBSET Server] /\ breaks' \in 0 .. MaxBreaks
  BY <1>1 DEF Base, Shape
<1>5. CASE Fail(e)
  BY <1>1, <1>2, <1>4, <1>5, Fails
<1>6. CASE /\ session[e].phase = "admitted"
           /\ session' = [session EXCEPT ![e] = [Opened EXCEPT !.phase = "established"]]
           /\ \E order \in ParentFirst(tree[n], Peer(e)) :
                wire' = Send(Taken(e), Audience(e), Ann(order))
  <2>1. PICK order \in ParentFirst(tree[n], Peer(e)) :
          wire' = Send(Taken(e), Audience(e), Ann(order))
    BY <1>6
  <2>2. Ann(order) \in Seq(Msg)
    BY <1>3, AnnouncementTyped DEF Base
  <2>. HIDE DEF Ann
  <2>3. Streams' /\ Moved(e, "established") /\ OthersKept(e)
    BY <1>1, <1>6, <2>1, <2>2, ReadyEffect DEF Base
  <2>4. LinkStep(e)
    BY <1>1, <1>6, <2>3, SameHeads DEF LinkStep
  <2>5. Shape'
    BY <1>1, <2>3 DEF Base, Shape, Streams
  <2>. QED
    BY <2>4, <2>5 DEF Sound, SessionStep
<1>. QED
  BY <1>5, <1>6, Zenon DEF handle_ready

\* handle_introduce: a failure, or a server is added below the peer.
LEMMA IntroduceSound ==
  ASSUME Base, NEW e \in End, handle_introduce(e)
  PROVE  Sound(e)
<1>. DEFINE n == Owner(e)
            p == Peer(e)
            m == Head(wire[e])
<1>1. wire[e] # <<>> /\ UNCHANGED <<current, ends, dialed, breaks>>
  BY DEF handle_introduce, Received
<1>2. Open(e) /\ Alive(e) /\ m \in Msg
  BY <1>1, Receiving DEF Base
<1>3. n \in Server /\ p \in Server
  BY <1>2, Servers DEF Base
<1>4. blocked' \in [Server -> SUBSET Server] /\ breaks' \in 0 .. MaxBreaks
  <2>1. blocked' = [blocked EXCEPT ![n] = @ \cup {p}] \/ blocked' = blocked
    BY DEF handle_introduce
  <2>. QED
    <3>1. blocked \in [Server -> SUBSET Server]
      BY DEF Base, Shape
    <3>2. blocked[n] \cup {p} \in SUBSET Server
      BY <1>3, <3>1
    <3>. HIDE DEF n, p
    <3>3. [blocked EXCEPT ![n] = @ \cup {p}] \in [Server -> SUBSET Server]
      BY <3>1, <3>2
    <3>4. breaks' \in 0 .. MaxBreaks
      BY <1>1 DEF Base, Shape
    <3>. QED
      BY <2>1, <3>1, <3>3, <3>4
<1>5. CASE Fail(e) /\ UNCHANGED tree
  BY <1>1, <1>2, <1>4, <1>5, Fails
<1>6. CASE /\ session[e].phase = "established"
           /\ CanAdd(tree[n], p, m.node, m.parent)
           /\ tree' = [tree EXCEPT ![n] = Add(tree[n], p, m.node, m.parent)]
           /\ session' = Bump(n, session)
           /\ wire' = Send(Taken(e), Audience(e), <<m>>)
  <2>. HIDE DEF m
  <2>. DEFINE msgs == <<m>>
  <2>1. msgs \in Seq(Msg)
    BY <1>2
  <2>. HIDE DEF msgs
  <2>2. wire' = Send(Taken(e), Audience(e), msgs)
    BY <1>6 DEF msgs
  <2>3. Streams' /\ Moved(e, "established") /\ OthersKept(e)
    BY <1>1, <1>6, <2>1, <2>2, BroadcastEffect DEF Base
  <2>4. TreeOK(tree[n], n)
    BY <1>3 DEF Base, TreesInv, TreesSound
  <2>5. HeadsKept
    <3>1. Heads(Add(tree[n], p, m.node, m.parent), n) = Heads(tree[n], n)
      BY <1>3, <1>6, <2>4, AddHeads
    <3>. QED
      BY <1>3, <1>6, <3>1, OneTreeHeads DEF Base
  <2>6. LinkStep(e)
    BY <1>1, <1>6, <2>3, <2>5 DEF LinkStep
  <2>7. Shape'
    BY <1>1, <1>4, <2>3 DEF Base, Shape, Streams
  <2>. QED
    BY <2>6, <2>7 DEF Sound, SessionStep
<1>. QED
  BY <1>5, <1>6, Zenon DEF handle_introduce

\* handle_withdraw: a failure, or a subtree below the peer is removed.
LEMMA WithdrawSound ==
  ASSUME Base, NEW e \in End, handle_withdraw(e)
  PROVE  Sound(e)
<1>. DEFINE n == Owner(e)
            p == Peer(e)
            m == Head(wire[e])
<1>1. wire[e] # <<>> /\ UNCHANGED <<current, blocked, ends, dialed, breaks>>
  BY DEF handle_withdraw, Received
<1>2. Open(e) /\ Alive(e) /\ m \in Msg
  BY <1>1, Receiving DEF Base
<1>3. n \in Server /\ p \in Server
  BY <1>2, Servers DEF Base
<1>4. blocked' \in [Server -> SUBSET Server] /\ breaks' \in 0 .. MaxBreaks
  BY <1>1 DEF Base, Shape
<1>5. CASE Fail(e) /\ UNCHANGED tree
  BY <1>1, <1>2, <1>4, <1>5, Fails
<1>6. CASE /\ session[e].phase = "established"
           /\ m.node # p
           /\ CanRemove(tree[n], p, m.node)
           /\ tree' = [tree EXCEPT ![n] = Remove(tree[n], m.node)]
           /\ session' = Bump(n, session)
           /\ wire' = Send(Taken(e), Audience(e), <<m>>)
  <2>. HIDE DEF m
  <2>. DEFINE msgs == <<m>>
  <2>1. msgs \in Seq(Msg)
    BY <1>2
  <2>. HIDE DEF msgs
  <2>2. wire' = Send(Taken(e), Audience(e), msgs)
    BY <1>6 DEF msgs
  <2>3. Streams' /\ Moved(e, "established") /\ OthersKept(e)
    BY <1>1, <1>6, <2>1, <2>2, BroadcastEffect DEF Base
  <2>4. TreeOK(tree[n], n)
    BY <1>3 DEF Base, TreesInv, TreesSound
  <2>5. HeadsKept
    BY <1>3, <1>6, <2>4, RemoveBelowHeads, OneTreeHeads, ZenonT(60) DEF Base
  <2>6. LinkStep(e)
    BY <1>1, <1>6, <2>3, <2>5 DEF LinkStep
  <2>7. Shape'
    BY <1>1, <2>3 DEF Base, Shape, Streams
  <2>. QED
    BY <2>6, <2>7 DEF Sound, SessionStep
<1>. QED
  BY <1>5, <1>6, Zenon DEF handle_withdraw

\* close_session: the session is freed, and its branch with it.
LEMMA CloseSound ==
  ASSUME Base, NEW e \in End, close_session(e)
  PROVE  Sound(e)
<1>. DEFINE n == Owner(e)
            p == Peer(e)
<1>1. /\ Alive(e) /\ UNCHANGED <<blocked, dialed, breaks>>
      /\ tree' = IF OwnsBranch(e) /\ CanRemove(tree[n], p, p)
                 THEN [tree EXCEPT ![n] = Remove(tree[n], p)] ELSE tree
      /\ current' = IF current[n][p] = e[1]
                    THEN [current EXCEPT ![n][p] = NoSocket] ELSE current
      /\ ends' = IF Alive(Other(e)) THEN ends
                 ELSE [ends EXCEPT ![e[1]] = <<NoServer, NoServer>>]
  BY DEF close_session
<1>2. n \in Server /\ p \in Server /\ n # p /\ e[1] \in Socket
  BY <1>1, Servers, TwoEnds DEF Base
<1>3. Streams' /\ Freed(e) /\ OthersKept(e)
  BY CloseEffect DEF Base
<1>4. TreeOK(tree[n], n) /\ tree = [m \in Server |-> tree[m]]
  BY <1>2 DEF Base, TreesInv, TreesSound
<1>5. CanRemove(tree[n], p, p) <=> p \in Heads(tree[n], n)
  BY <1>2, LinkTreeAssumption DEF CanRemove, Heads, Route
<1>6. IF OwnsBranch(e) /\ p \in Heads(tree[n], n)
        THEN /\ Heads(tree'[n], n) = Heads(tree[n], n) \ {p}
             /\ \A m \in Server : m # n => tree'[m] = tree[m]
        ELSE HeadsKept
  <2>1. CASE OwnsBranch(e) /\ p \in Heads(tree[n], n)
    <3>1. Heads(Remove(tree[n], p), n) = Heads(tree[n], n) \ {p}
      BY <1>2, <1>4, <1>5, <2>1, RemovePeerHeads
    <3>2. tree' = [tree EXCEPT ![n] = Remove(tree[n], p)]
      BY <1>1, <1>5, <2>1
    <3>3. tree'[n] = Remove(tree[n], p) /\ \A m \in Server : m # n => tree'[m] = tree[m]
      BY <1>2, <1>4, <3>2
    <3>. QED
      BY <2>1, <3>1, <3>3
  <2>2. CASE ~(OwnsBranch(e) /\ p \in Heads(tree[n], n))
    BY <1>1, <1>5, <2>2, SameHeads
  <2>. QED
    BY <2>1, <2>2
<1>7. CloseStep(e)
  BY <1>1, <1>3, <1>6 DEF CloseStep
<1>8. current' \in [Server -> [Server -> Socket \cup {NoSocket}]]
  BY <1>1, <1>2 DEF Base, Shape
<1>9. ends' \in [Socket -> Dials \cup {<<NoServer, NoServer>>}]
  BY <1>1, <1>2 DEF Base, Shape
<1>10. Shape'
  BY <1>1, <1>3, <1>8, <1>9 DEF Base, Shape, Streams
<1>. QED
  BY <1>7, <1>10 DEF Sound, SessionStep

\* What a step does to each session.
LEMMA StepShape ==
  ASSUME Base, NEW e \in End, SessionStep(e)
  PROVE  /\ Alive(e) /\ dialed' = dialed
         /\ \A f \in End : f # e => Kept(f) \/ (f \in Rival(e) /\ Shut(f, e[1]))
         /\ \/ \E w \in {0, current[Owner(e)][Peer(e)]} : Shut(e, w)
            \/ \E phase \in {"hello", "admitted", "established"} : Moved(e, phase)
            \/ Freed(e)
<1>1. CASE FailStep(e)
  BY <1>1 DEF FailStep, OthersKept, Shut, Open
<1>2. CASE TieStep(e)
  BY <1>2 DEF TieStep, OthersKept, Shut, Open
<1>3. CASE BusyStep(e)
  BY <1>3 DEF BusyStep, RivalsShut, Shut, Open
<1>4. CASE HelloStep(e)
  BY <1>4 DEF HelloStep, RivalsShut, Moved, Open
<1>5. CASE AdmitStep(e)
  BY <1>5 DEF AdmitStep, OthersKept, Moved, Open
<1>6. CASE LinkStep(e)
  BY <1>6 DEF LinkStep, OthersKept, Moved, Open
<1>7. CASE CloseStep(e)
  BY <1>7 DEF CloseStep, OthersKept
<1>. QED
  BY <1>1, <1>2, <1>3, <1>4, <1>5, <1>6, <1>7 DEF SessionStep

\* A session that is alive after the step was alive before it and still
\* belongs to the same servers.
LEMMA Survivor ==
  ASSUME Base, NEW e \in End, SessionStep(e), NEW f \in End, session'[f].phase # "gone"
  PROVE  /\ Alive(f) /\ ends'[f[1]] = ends[f[1]]
         /\ Owner(f)' = Owner(f) /\ Peer(f)' = Peer(f)
         /\ f = e => ~Freed(e)
<1>1. Gone.phase = "gone"
  BY DEF Gone
<1>2. Alive(f)
  <2>1. CASE f = e
    BY <2>1, StepShape
  <2>2. CASE f # e
    <3>1. Kept(f) \/ Shut(f, e[1])
      BY <2>2, StepShape
    <3>. QED
      BY <3>1 DEF Kept, Shut, Open, Alive
  <2>. QED
    BY <2>1, <2>2
<1>3. f = e => ~Freed(e)
  BY <1>1 DEF Freed
<1>4. ends'[f[1]] = ends[f[1]]
  <2>1. CASE UNCHANGED ends
    BY <2>1
  <2>2. CASE CloseStep(e)
    <3>1. f # e
      BY <2>2, <1>3 DEF CloseStep
    <3>2. CASE f[1] = e[1]
      <4>1. f = Other(e)
        BY <3>1, <3>2, TwoEnds
      <4>. QED
        BY <1>2, <2>2, <4>1 DEF CloseStep
    <3>3. CASE f[1] # e[1]
      <4>1. f[1] \in Socket /\ e[1] \in Socket
        BY TwoEnds
      <4>. QED
        BY <2>2, <3>3, <4>1 DEF CloseStep, Base, Shape
    <3>. QED
      BY <3>2, <3>3
  <2>. QED
    BY <2>1, <2>2 DEF SessionStep, FailStep, TieStep, BusyStep, HelloStep, AdmitStep, LinkStep
<1>5. Owner(f)' = Owner(f) /\ Peer(f)' = Peer(f)
  <2>1. Other(f)[1] = f[1]
    BY TwoEnds
  <2>. QED
    BY <1>4, <2>1 DEF Owner, Peer, Other
<1>. QED
  BY <1>2, <1>3, <1>4, <1>5

\* The life of sessions goes on as it should.
LEMMA LivesNext ==
  ASSUME Base, NEW e \in End, SessionStep(e), Shape'
  PROVE  Lives'
<1>. SUFFICES ASSUME NEW f \in End
              PROVE  /\ ~Alive(f)' => session'[f] = Gone
                     /\ Alive(f)' => f[1] <= dialed' /\ ends'[f[1]] \in Dials
                     /\ ~Open(f)' => wire'[f] = <<>>
                     /\ session'[f].gave_way # 0 => session'[f].closing
                     /\ session'[f].gave_way <= dialed'
  BY DEF Lives, Alive, Open
<1>0. dialed' = dialed /\ dialed \in Nat /\ Alive(e) /\ e[1] <= dialed
  BY StepShape DEF Base, Shape, Lives
<1>1. Alive(f)' => f[1] <= dialed' /\ ends'[f[1]] \in Dials
  <2>1. SUFFICES ASSUME session'[f].phase # "gone" PROVE f[1] <= dialed' /\ ends'[f[1]] \in Dials
    BY DEF Alive
  <2>2. Alive(f) /\ ends'[f[1]] = ends[f[1]]
    BY <2>1, Survivor
  <2>. QED
    BY <1>0, <2>2 DEF Base, Lives
<1>2. CASE Kept(f)
  BY <1>0, <1>1, <1>2 DEF Kept, Base, Lives, Open, Alive
<1>3. ASSUME NEW w, Shut(f, w), w = 0 \/ w <= dialed
      PROVE  /\ ~Alive(f)' => session'[f] = Gone
             /\ ~Open(f)' => wire'[f] = <<>>
             /\ session'[f].gave_way # 0 => session'[f].closing
             /\ session'[f].gave_way <= dialed'
  BY <1>0, <1>3 DEF Shut, Open, Alive
<1>4. ASSUME NEW phase, phase \in {"hello", "admitted", "established"}, Moved(f, phase)
      PROVE  /\ ~Alive(f)' => session'[f] = Gone
             /\ ~Open(f)' => wire'[f] = <<>>
             /\ session'[f].gave_way # 0 => session'[f].closing
             /\ session'[f].gave_way <= dialed'
  <2>1. session[f].gave_way = 0
    BY <1>4 DEF Moved, Base, Lives, Open
  <2>. QED
    BY <1>0, <1>4, <2>1 DEF Moved, Open, Alive
<1>5. CASE Freed(f)
  BY <1>0, <1>1, <1>5 DEF Freed, Gone, Alive
<1>6. CASE f = e
  <2>1. ASSUME NEW w \in {0, current[Owner(e)][Peer(e)]}, Shut(e, w)
        PROVE  w = 0 \/ w <= dialed
    <3>1. CASE TieStep(e)
      <4>1. PICK r \in Rival(e) : TRUE
        BY <3>1 DEF TieStep
      <4>2. r \in End /\ Alive(r) /\ r[1] = current[Owner(e)][Peer(e)]
        BY <1>0, <4>1, RivalsElsewhere DEF Base
      <4>3. r[1] <= dialed
        BY <4>2 DEF Base, Lives
      <4>. QED
        BY <2>1, <4>2, <4>3
    <3>2. CASE FailStep(e) \/ BusyStep(e)
      BY <2>1, <3>2 DEF FailStep, BusyStep, Shut
    <3>3. CASE HelloStep(e) \/ AdmitStep(e) \/ LinkStep(e)
      BY <2>1, <3>3 DEF HelloStep, AdmitStep, LinkStep, Shut, Moved
    <3>4. CASE CloseStep(e)
      BY <2>1, <3>4 DEF CloseStep, Freed, Shut, Gone
    <3>. QED
      BY <3>1, <3>2, <3>3, <3>4 DEF SessionStep
  <2>. QED
    BY <1>1, <1>3, <1>4, <1>5, <1>6, <2>1, StepShape
<1>7. CASE f # e
  BY <1>0, <1>1, <1>2, <1>3, <1>7, StepShape
<1>. QED
  BY <1>6, <1>7

\* A handshake in progress has its next message on the way.
LEMMA UnderwayNext ==
  ASSUME Base, Underway, NEW e \in End, SessionStep(e), Shape'
  PROVE  Underway'
<1>. SUFFICES ASSUME NEW f \in End, Open(f)', Open(Other(f))'
              PROVE  Said(Other(f))' <= Heard(f)' + Len(wire'[f])
  BY DEF Underway
<1>. DEFINE g == Other(f)
<1>0. g \in End /\ g # f /\ Other(g) = f
  BY TwoEnds
<1>1. /\ session'[f].phase # "gone" /\ ~session'[f].closing
      /\ session'[g].phase # "gone" /\ ~session'[g].closing
  BY DEF Open, Alive
<1>2. Len(wire[f]) \in Nat /\ Len(wire'[f]) \in Nat
  BY LenProperties DEF Base, Shape
<1>3. /\ \A x \in End : x # e => Kept(x) \/ Shut(x, e[1])
      /\ (\E w : Shut(e, w)) \/ (\E phase : Moved(e, phase)) \/ Freed(e)
  BY StepShape
<1>4. (f # e => Kept(f)) /\ (g # e => Kept(g))
  BY <1>0, <1>1, <1>3 DEF Shut
<1>5. f = e \/ g = e => ~Freed(e) /\ ~(\E w : Shut(e, w))
  BY <1>1 DEF Freed, Shut, Gone
<1>6. Open(f) /\ Open(g)
  <2>1. \A x \in {f, g} : Kept(x) => Open(x)
    BY <1>1 DEF Kept, Open, Alive
  <2>2. f = e \/ g = e => Open(e)
    BY <1>3, <1>5 DEF Moved
  <2>. QED
    BY <1>4, <2>1, <2>2
<1>7. Said(g) <= Heard(f) + Len(wire[f])
  BY <1>6 DEF Underway
<1>. HIDE DEF g
<1>8. /\ Heard(f) \in 0 .. 3 /\ Said(g) \in 0 .. 3
      /\ Heard(f)' \in 0 .. 3 /\ Said(g)' \in 0 .. 3
  BY DEF Heard, Said
<1>9. /\ Kept(f) => Heard(f)' = Heard(f) /\ Len(wire'[f]) >= Len(wire[f])
      /\ Kept(g) => Said(g)' = Said(g)
  BY DEF Kept, Heard, Said
\* The sum, in plain numbers.
<1>. DEFINE said == Said(g)
            said1 == Said(g)'
            heard == Heard(f)
            heard1 == Heard(f)'
            len == Len(wire[f])
            len1 == Len(wire'[f])
<1>13. /\ said \in 0 .. 3 /\ said1 \in 0 .. 3 /\ heard \in 0 .. 3 /\ heard1 \in 0 .. 3
       /\ len \in Nat /\ len1 \in Nat /\ said <= heard + len
  BY <1>2, <1>7, <1>8
<1>10. CASE f # e /\ g # e
  <2>1. said1 = said /\ heard1 = heard /\ len1 >= len
    BY <1>4, <1>9, <1>10
  <2>. HIDE DEF said, said1, heard, heard1, len, len1
  <2>2. said1 <= heard1 + len1
    BY <1>13, <2>1
  <2>. QED
    BY <2>2 DEF said1, heard1, len1, g
<1>11. CASE f = e
  <2>1. g # e /\ Said(g)' = Said(g)
    BY <1>0, <1>4, <1>9, <1>11
  <2>2. \/ Heard(f)' = Heard(f) + 1 /\ Len(wire'[f]) + 1 >= Len(wire[f])
        \/ Heard(f)' = 3
    <3>1. CASE HelloStep(e)
      BY <3>1, <1>11 DEF HelloStep, Moved, Heard
    <3>2. CASE AdmitStep(e)
      BY <3>2, <1>11 DEF AdmitStep, Moved, Heard
    <3>3. CASE LinkStep(e)
      BY <3>3, <1>11 DEF LinkStep, Moved, Heard
    <3>. QED
      BY <1>5, <1>11, <3>1, <3>2, <3>3
         DEF SessionStep, FailStep, TieStep, BusyStep, CloseStep
  <2>3. said1 = said /\ ((heard1 = heard + 1 /\ len1 + 1 >= len) \/ heard1 = 3)
    BY <2>1, <2>2
  <2>. HIDE DEF said, said1, heard, heard1, len, len1
  <2>4. said1 <= heard1 + len1
    BY <1>13, <2>3
  <2>. QED
    BY <2>4 DEF said1, heard1, len1, g
<1>12. CASE g = e
  <2>1. f # e /\ f = Other(e) /\ Heard(f)' = Heard(f) /\ Len(wire'[f]) >= Len(wire[f])
    BY <1>0, <1>4, <1>9, <1>12
  <2>2. Said(g)' = Said(g) \/ Len(wire'[f]) >= Len(wire[f]) + (Said(g)' - Said(g))
    <3>0. e[2] = "in" \/ e[2] = "out"
      BY DEF End, Side
    <3>1. CASE HelloStep(e)
      <4>1. Len(wire'[f]) >= Len(wire[f]) + IF e[2] = "in" THEN 2 ELSE 1
        BY <1>6, <2>1, <3>1 DEF HelloStep
      <4>2. Said(g)' - Said(g) = IF e[2] = "in" THEN 2 ELSE 1
        BY <1>12, <3>0, <3>1 DEF HelloStep, Moved, Said
      <4>. QED
        BY <4>1, <4>2
    <3>2. CASE AdmitStep(e)
      <4>1. Len(wire'[f]) >= Len(wire[f]) + 1
        BY <1>6, <2>1, <3>2 DEF AdmitStep
      <4>2. Said(g)' - Said(g) = 1
        BY <1>12, <3>2 DEF AdmitStep, Moved, Said
      <4>. QED
        BY <4>1, <4>2
    <3>3. CASE LinkStep(e)
      BY <3>3, <1>12 DEF LinkStep, Moved, Said
    <3>. QED
      BY <1>5, <1>12, <3>1, <3>2, <3>3
         DEF SessionStep, FailStep, TieStep, BusyStep, CloseStep
  <2>3. heard1 = heard /\ len1 >= len /\ (said1 = said \/ len1 >= len + (said1 - said))
    BY <2>1, <2>2
  <2>. HIDE DEF said, said1, heard, heard1, len, len1
  <2>4. said1 <= heard1 + len1
    BY <1>13, <2>3
  <2>. QED
    BY <2>4 DEF said1, heard1, len1, g
<1>. QED
  BY <1>10, <1>11, <1>12 DEF g

\* A branch is owned by one session.
LEMMA OwnedNext ==
  ASSUME Base, Owned, NEW e \in End, SessionStep(e), Shape'
  PROVE  Owned'
<1>. DEFINE n == Owner(e)
            p == Peer(e)
<1>0. Alive(e) /\ n \in Server /\ p \in Server /\ n # p
  BY StepShape, Servers DEF Base
<1>1. \A m \in Server : \A q \in Server \ {m} :
        /\ \A f, g \in End : Owns(f, m, q) /\ Owns(g, m, q) => f = g
        /\ (\E f \in End : Owns(f, m, q)) <=> q \in Heads(tree[m], m)
  BY DEF Owned, Heads
<1>2. SUFFICES ASSUME NEW m \in Server, NEW q \in Server \ {m}
               PROVE  /\ \A f, g \in End : Owns(f, m, q)' /\ Owns(g, m, q)' => f = g
                      /\ (\E f \in End : Owns(f, m, q)') <=> q \in Heads(tree'[m], m)
  BY DEF Owned, Heads
\* Only the session of the step may come to own a branch, or cease to.
<1>3. ASSUME NEW f \in End, f # e PROVE Owns(f, m, q)' <=> Owns(f, m, q)
  <2>1. session'[f].phase = session[f].phase
    BY <1>3, StepShape DEF Kept, Shut
  <2>2. CASE session'[f].phase # "gone"
    <3>1. Owner(f)' = Owner(f) /\ Peer(f)' = Peer(f)
      BY <2>2, Survivor
    <3>. QED
      BY <2>1, <3>1 DEF Owns, OwnsBranch, Alive
  <2>3. CASE session'[f].phase = "gone"
    BY <2>1, <2>3 DEF Owns, Alive
  <2>. QED
    BY <2>2, <2>3
<1>4. session'[e].phase # "gone" => Owner(e)' = n /\ Peer(e)' = p
  BY Survivor
<1>5. CASE Owns(e, m, q)' <=> Owns(e, m, q)
  <2>1. \A f \in End : Owns(f, m, q)' <=> Owns(f, m, q)
    BY <1>3, <1>5
  <2>2. q \in Heads(tree'[m], m) <=> q \in Heads(tree[m], m)
    <3>1. CASE HeadsKept
      BY <3>1 DEF HeadsKept
    <3>2. CASE AdmitStep(e)
      <4>1. ~(m = n /\ q = p)
        BY <1>0, <1>5, <3>2, <1>4 DEF AdmitStep, Moved, Owns, OwnsBranch, Alive
      <4>. QED
        BY <3>2, <4>1 DEF AdmitStep
    <3>3. CASE CloseStep(e) /\ OwnsBranch(e)
      <4>1. ~(m = n /\ q = p)
        BY <1>0, <1>5, <3>3 DEF CloseStep, Freed, Gone, Owns, Alive
      <4>. QED
        BY <3>3, <4>1 DEF CloseStep, HeadsKept
    <3>. QED
      BY <3>1, <3>2, <3>3 DEF SessionStep, FailStep, TieStep, BusyStep, HelloStep, LinkStep, CloseStep
  <2>. QED
    BY <1>1, <2>1, <2>2
<1>6. CASE Owns(e, m, q)' /\ ~Owns(e, m, q)
  <2>1. session'[e].phase \in {"admitted", "established"} /\ m = n /\ q = p
    BY <1>4, <1>6 DEF Owns, OwnsBranch, Alive
  <2>2. session[e].phase \notin {"admitted", "established"}
    BY <1>0, <1>6, <2>1 DEF Owns, OwnsBranch
  <2>3. AdmitStep(e)
    <3>1. ~Shut(e, 0) /\ ~Shut(e, current[n][p]) /\ ~Freed(e) /\ ~Moved(e, "hello")
      BY <2>1, <2>2 DEF Shut, Freed, Moved, Gone
    <3>. QED
      BY <2>2, <3>1 DEF SessionStep, FailStep, TieStep, BusyStep, HelloStep, LinkStep, CloseStep
  <2>4. p \notin Heads(tree[n], n) /\ p \in Heads(tree'[n], n)
    BY <2>3 DEF AdmitStep
  <2>5. \A f \in End : ~Owns(f, m, q)
    BY <1>1, <2>1, <2>4
  <2>6. \A f \in End : f # e => ~Owns(f, m, q)'
    BY <1>3, <2>5
  <2>. QED
    BY <1>6, <2>1, <2>4, <2>6
<1>7. CASE ~Owns(e, m, q)' /\ Owns(e, m, q)
  <2>1. m = n /\ q = p /\ session[e].phase \in {"admitted", "established"}
    BY <1>7 DEF Owns, OwnsBranch
  <2>2. session'[e].phase \notin {"admitted", "established"}
    BY <1>4, <1>7, <2>1 DEF Owns, OwnsBranch, Alive
  <2>3. CloseStep(e)
    <3>1. /\ ~Shut(e, 0) /\ ~Shut(e, current[n][p])
          /\ ~Moved(e, "admitted") /\ ~Moved(e, "established") /\ session[e].phase # "new"
      BY <2>1, <2>2 DEF Shut, Moved
    <3>. QED
      BY <3>1 DEF SessionStep, FailStep, TieStep, BusyStep, HelloStep, AdmitStep, LinkStep
  <2>4. OwnsBranch(e) /\ p \in Heads(tree[n], n)
    BY <1>1, <1>7, <2>1 DEF Owns
  <2>5. p \notin Heads(tree'[n], n)
    BY <2>3, <2>4 DEF CloseStep
  <2>6. \A f \in End : f # e => ~Owns(f, m, q)'
    BY <1>1, <1>3, <1>7
  <2>. QED
    BY <1>7, <2>1, <2>5, <2>6
<1>. QED
  BY <1>5, <1>6, <1>7

\* peer->session changes for the peer of the step only: to its session, or to
\* none.
LEMMA CurrentStep ==
  ASSUME Base, NEW e \in End, SessionStep(e), NEW m \in Server, NEW q \in Server
  PROVE  \/ current'[m][q] = current[m][q]
         \/ HelloStep(e) /\ m = Owner(e) /\ q = Peer(e) /\ current'[m][q] = e[1]
         \/ /\ CloseStep(e) /\ m = Owner(e) /\ q = Peer(e)
            /\ current[m][q] = e[1] /\ current'[m][q] = NoSocket
<1>0. Owner(e) \in Server /\ Peer(e) \in Server
  BY StepShape, Servers DEF Base
<1>1. current \in [Server -> [Server -> Socket \cup {NoSocket}]]
  BY DEF Base, Shape
<1>2. CASE UNCHANGED current
  BY <1>2
<1>3. CASE HelloStep(e)
  BY <1>0, <1>1, <1>3 DEF HelloStep
<1>4. CASE CloseStep(e)
  BY <1>0, <1>1, <1>4 DEF CloseStep
<1>. QED
  BY <1>2, <1>3, <1>4 DEF SessionStep, FailStep, TieStep, BusyStep, AdmitStep, LinkStep

\* The ends of a socket belong to different servers.
LEMMA SameEnd ==
  ASSUME Base, NEW e \in End, Alive(e), NEW f \in End, Alive(f),
         f[1] = e[1], Owner(f) = Owner(e)
  PROVE  f = e
  BY TwoEnds, Servers DEF Base

\* peer->session stays a session with that peer.
LEMMA CurrentNext ==
  ASSUME Base, CurrentOK, NEW e \in End, SessionStep(e), Lives'
  PROVE  CurrentOK'
<1>. SUFFICES ASSUME NEW m \in Server, NEW q \in Server, current'[m][q] # NoSocket
              PROVE  /\ current'[m][q] <= dialed'
                     /\ \A f \in End : /\ session'[f].phase # "gone"
                                       /\ f[1] = current'[m][q]
                                       /\ Owner(f)' = m
                                       => Peer(f)' = q
  BY DEF CurrentOK, Alive
<1>0. Alive(e) /\ dialed' = dialed /\ e[1] <= dialed
  BY StepShape DEF Base, Lives
<1>1. CASE current'[m][q] = current[m][q]
  <2>1. current'[m][q] <= dialed'
    BY <1>0, <1>1 DEF CurrentOK
  <2>2. ASSUME NEW f \in End, session'[f].phase # "gone", f[1] = current'[m][q], Owner(f)' = m
        PROVE  Peer(f)' = q
    <3>1. Alive(f) /\ Owner(f)' = Owner(f) /\ Peer(f)' = Peer(f)
      BY <2>2, Survivor
    <3>. QED
      BY <1>1, <2>2, <3>1 DEF CurrentOK
  <2>. QED
    BY <2>1, <2>2
<1>2. CASE m = Owner(e) /\ q = Peer(e) /\ current'[m][q] = e[1]
  <2>2. ASSUME NEW f \in End, session'[f].phase # "gone", f[1] = e[1], Owner(f)' = m
        PROVE  Peer(f)' = q
    <3>1. Alive(f) /\ Owner(f)' = Owner(f) /\ Peer(f)' = Peer(f)
      BY <2>2, Survivor
    <3>2. f = e
      BY <1>0, <1>2, <2>2, <3>1, SameEnd
    <3>. QED
      BY <1>2, <3>1, <3>2
  <2>. QED
    BY <1>0, <1>2, <2>2
<1>. QED
  BY <1>1, <1>2, CurrentStep

\* A session that is open after the step was open before it, and was neither
\* given up nor freed by it.
LEMMA StaysOpen ==
  ASSUME Base, NEW e \in End, SessionStep(e), NEW f \in End, Open(f)'
  PROVE  /\ Open(f) /\ session'[f].phase # "gone"
         /\ ~Freed(f) /\ \A w : ~Shut(f, w)
<1>1. session'[f].phase # "gone" /\ ~session'[f].closing
  BY DEF Open, Alive
<1>2. ~Freed(f) /\ \A w : ~Shut(f, w)
  BY <1>1 DEF Freed, Shut, Gone
<1>3. CASE f # e
  <2>1. Kept(f)
    BY <1>2, <1>3, StepShape
  <2>. QED
    BY <1>1, <1>2, <2>1 DEF Kept, Open, Alive
<1>4. CASE f = e
  <2>1. \E phase : Moved(e, phase)
    BY <1>2, <1>4, StepShape
  <2>. QED
    BY <1>1, <1>2, <1>4, <2>1 DEF Moved
<1>. QED
  BY <1>3, <1>4

\* An outgoing attempt stays the current one until it is given up.
LEMMA OutgoingNext ==
  ASSUME Base, OutgoingCurrent, NEW e \in End, SessionStep(e)
  PROVE  OutgoingCurrent'
<1>. SUFFICES ASSUME NEW f \in End, Open(f)', f[2] = "out"
              PROVE  current'[Owner(f)'][Peer(f)'] = f[1]
  BY DEF OutgoingCurrent
<1>0. Alive(e)
  BY StepShape
<1>1. /\ Open(f) /\ session'[f].phase # "gone"
      /\ ~Freed(f) /\ \A w : ~Shut(f, w)
  BY StaysOpen
<1>2. Alive(f) /\ Owner(f)' = Owner(f) /\ Peer(f)' = Peer(f)
  BY <1>1, Survivor
<1>3. Owner(f) \in Server /\ Peer(f) \in Server
  BY <1>2, Servers DEF Base
<1>4. current[Owner(f)][Peer(f)] = f[1]
  BY <1>1 DEF OutgoingCurrent
<1>5. CASE HelloStep(e) /\ Owner(f) = Owner(e) /\ Peer(f) = Peer(e)
           /\ current'[Owner(f)][Peer(f)] = e[1]
  <2>1. f \in Rival(e) \/ f = e
    BY <1>1, <1>2, <1>4, <1>5 DEF Rival, Sessions
  <2>2. f = e
    BY <1>1, <1>5, <2>1 DEF HelloStep, RivalsShut
  <2>. QED
    BY <1>2, <1>5, <2>2
<1>6. CASE CloseStep(e) /\ Owner(f) = Owner(e) /\ current[Owner(f)][Peer(f)] = e[1]
  <2>1. f = e
    BY <1>0, <1>2, <1>4, <1>6, SameEnd
  <2>. QED
    BY <1>1, <1>6, <2>1 DEF CloseStep
<1>7. CASE current'[Owner(f)][Peer(f)] = current[Owner(f)][Peer(f)]
  BY <1>2, <1>4, <1>7
<1>. QED
  BY <1>3, <1>5, <1>6, <1>7, CurrentStep

\* Both ends rate a socket alike: the tie-break depends on who opened it.
LEMMA TieBreakRule ==
  ASSUME Base, CurrentOK, NEW e \in End, Alive(e), NEW r \in Rival(e)
  PROVE  /\ r \in End /\ Open(r) /\ Alive(r) /\ r # e /\ r[1] # e[1]
         /\ Owner(r) = Owner(e) /\ Peer(r) = Peer(e)
         /\ r[1] = current[Owner(e)][Peer(e)]
         /\ r[2] = e[2] => ends[r[1]] = ends[e[1]]
         /\ r[2] # e[2] => /\ ends[r[1]] = <<ends[e[1]][2], ends[e[1]][1]>>
                           /\ ends[e[1]] = <<ends[r[1]][2], ends[r[1]][1]>>
                           /\ ends[r[1]] # ends[e[1]]
         /\ LosesTo(e, r) <=> Favoured(r[1]) \/ ~Favoured(e[1])
<1>. DEFINE n == Owner(e)
            p == Peer(e)
<1>1. /\ r \in End /\ r # e /\ r # Other(e) /\ Open(r) /\ Alive(r)
      /\ Owner(r) = n /\ r[1] = current[n][p]
  BY RivalsElsewhere DEF Base
<1>2. n \in Server /\ p \in Server /\ n # p
      /\ (e[2] = "out" => ends[e[1]] = <<n, p>>) /\ (e[2] = "in" => ends[e[1]] = <<p, n>>)
  BY Servers DEF Base
<1>3. r[1] # e[1]
  BY <1>1, TwoEnds
<1>4. current[n][p] # NoSocket
  BY <1>1, LinksAssumption DEF End, Socket
<1>5. Peer(r) = p
  BY <1>1, <1>2, <1>4 DEF CurrentOK
<1>6. (r[2] = "out" => ends[r[1]] = <<n, p>>) /\ (r[2] = "in" => ends[r[1]] = <<p, n>>)
  BY <1>1, <1>5, Servers DEF Base
<1>7. n \in Nat /\ p \in Nat
  BY <1>2, LinkTreeAssumption
<1>8. (e[2] = "out" \/ e[2] = "in") /\ (r[2] = "out" \/ r[2] = "in")
  BY <1>1 DEF End, Side
<1>9. LosesTo(e, r) <=> r[2] = (IF n < p THEN "out" ELSE "in") \/ e[2] # (IF n < p THEN "out" ELSE "in")
  BY DEF LosesTo
<1>. HIDE DEF n, p
<1>10. /\ Favoured(e[1]) <=> e[2] = (IF n < p THEN "out" ELSE "in")
       /\ Favoured(r[1]) <=> r[2] = (IF n < p THEN "out" ELSE "in")
  BY <1>2, <1>6, <1>7, <1>8 DEF Favoured
<1>11. /\ r[2] = e[2] => ends[r[1]] = ends[e[1]]
       /\ r[2] # e[2] => /\ ends[r[1]] = <<ends[e[1]][2], ends[e[1]][1]>>
                         /\ ends[e[1]] = <<ends[r[1]][2], ends[r[1]][1]>>
                         /\ ends[r[1]] # ends[e[1]]
  BY <1>2, <1>6, <1>8
<1>. QED
  BY <1>1, <1>3, <1>5, <1>9, <1>10, <1>11 DEF n, p

\* Who gives way in a step: the session of the step, to the current attempt,
\* or the sessions that it replaces, to it.
LEMMA NewLoser ==
  ASSUME Base, NEW e \in End, SessionStep(e), NEW a \in End,
         session'[a].gave_way # session[a].gave_way, session'[a].gave_way # 0
  PROVE  \/ /\ a = e /\ session'[a].gave_way = current[Owner(e)][Peer(e)]
            /\ TieStep(e)
         \/ /\ a \in Rival(e) /\ session'[a].gave_way = e[1]
            /\ \A f \in Rival(e) : ~LosesTo(e, f)
<1>1. ~Kept(a)
  BY DEF Kept
<1>2. ~Freed(a) /\ ~Shut(a, 0) /\ \A phase : ~Moved(a, phase)
  BY DEF Freed, Shut, Moved, Gone
<1>3. CASE FailStep(e) \/ AdmitStep(e) \/ LinkStep(e) \/ CloseStep(e)
  BY <1>1, <1>2, <1>3 DEF FailStep, AdmitStep, LinkStep, CloseStep, OthersKept
<1>4. CASE TieStep(e)
  BY <1>1, <1>4 DEF TieStep, OthersKept, Shut
<1>5. CASE BusyStep(e) \/ HelloStep(e)
  BY <1>1, <1>2, <1>5 DEF BusyStep, HelloStep, RivalsShut, Shut
<1>. QED
  BY <1>3, <1>4, <1>5 DEF SessionStep

\* A session that has given way is alive, and so is its socket.
LEMMA LoserAlive ==
  ASSUME Base, NEW e \in End, SessionStep(e), Shape', Lives', NEW a \in End,
         session'[a].gave_way # 0
  PROVE  session'[a].phase # "gone" /\ Alive(a) /\ ends'[a[1]] = ends[a[1]]
<1>1. session'[a].phase # "gone"
  BY DEF Lives, Gone, Alive
<1>. QED
  BY <1>1, Survivor

\* A session gives way to a better socket, or to an older one of the same kind.
LEMMA TiesNext ==
  ASSUME Base, CurrentOK, OutgoingCurrent, TiesRight, NEW e \in End, SessionStep(e),
         Shape', Lives'
  PROVE  TiesRight'
<1>. SUFFICES ASSUME NEW a \in End, NEW f \in End,
                     session'[a].gave_way = f[1], session'[f].phase # "gone"
              PROVE  GaveWayTo(a, f[1])'
  BY DEF TiesRight, Alive
<1>0. Alive(e)
  BY StepShape
<1>1. f[1] # 0 /\ a[1] \in Socket /\ f[1] \in Socket
  BY TwoEnds DEF Socket
<1>2. Alive(a) /\ ends'[a[1]] = ends[a[1]]
  BY <1>1, LoserAlive
<1>3. Alive(f) /\ ends'[f[1]] = ends[f[1]]
  BY Survivor
<1>4. SUFFICES GaveWayTo(a, f[1])
  BY <1>2, <1>3 DEF GaveWayTo, Favoured
<1>5. CASE session'[a].gave_way = session[a].gave_way
  BY <1>3, <1>5 DEF TiesRight
<1>6. CASE a = e /\ session'[a].gave_way = current[Owner(e)][Peer(e)] /\ TieStep(e)
  <2>1. PICK r \in Rival(e) : LosesTo(e, r)
    BY <1>6 DEF TieStep
  <2>2. /\ r \in End /\ r[1] # e[1] /\ r[1] = current[Owner(e)][Peer(e)]
        /\ r[2] = e[2] => ends[r[1]] = ends[e[1]]
        /\ r[2] # e[2] => /\ ends[r[1]] = <<ends[e[1]][2], ends[e[1]][1]>>
                          /\ ends[r[1]] # ends[e[1]]
        /\ Favoured(r[1]) \/ ~Favoured(e[1])
    BY <1>0, <2>1, TieBreakRule
  <2>3. Open(e)
    BY <1>6 DEF TieStep, Shut
  <2>4. e[2] # "out"
    BY <2>2, <2>3 DEF OutgoingCurrent
  <2>5. e[2] = "in"
    BY <2>4 DEF End, Side
  <2>. QED
    BY <1>6, <2>2, <2>5 DEF GaveWayTo
<1>7. CASE /\ a \in Rival(e) /\ session'[a].gave_way = e[1]
           /\ \A r \in Rival(e) : ~LosesTo(e, r)
  <2>1. /\ a[2] = e[2] => ends[a[1]] = ends[e[1]]
        /\ a[2] # e[2] => /\ ends[e[1]] = <<ends[a[1]][2], ends[a[1]][1]>>
                          /\ ends[a[1]] # ends[e[1]]
        /\ LosesTo(e, a) <=> Favoured(a[1]) \/ ~Favoured(e[1])
    BY <1>0, <1>7, TieBreakRule
  <2>2. ~Favoured(a[1]) /\ Favoured(e[1])
    BY <1>7, <2>1
  <2>3. a[2] # e[2]
    BY <2>1, <2>2 DEF Favoured
  <2>. QED
    BY <1>7, <2>1, <2>2, <2>3 DEF GaveWayTo
<1>. QED
  BY <1>1, <1>5, <1>6, <1>7, NewLoser

\* Sockets that give way to each other were opened by the same server, and
\* both are given up where they were accepted.
MutualLosersAlike ==
  \A a, b \in End : session[a].gave_way = b[1] /\ session[b].gave_way = a[1] =>
    /\ Alive(a) /\ Alive(b) /\ ends[a[1]] = ends[b[1]]
    /\ a[2] = "in" /\ b[2] = "in" /\ a[1] # 0 /\ b[1] # 0

\* It follows from what it takes to give way.
LEMMA MutualLosers == Shape /\ Lives /\ TiesRight => MutualLosersAlike
<1>. SUFFICES ASSUME Shape, Lives, TiesRight, NEW a \in End, NEW b \in End,
                     session[a].gave_way = b[1], session[b].gave_way = a[1]
              PROVE  /\ Alive(a) /\ Alive(b) /\ ends[a[1]] = ends[b[1]]
                     /\ a[2] = "in" /\ b[2] = "in" /\ a[1] # 0 /\ b[1] # 0
  BY DEF MutualLosersAlike
<1>1. a[1] # 0 /\ b[1] # 0
  BY DEF End, Socket
<1>2. Alive(a) /\ Alive(b)
  BY <1>1 DEF Lives, Gone
<1>3. GaveWayTo(a, b[1]) /\ GaveWayTo(b, a[1])
  BY <1>2 DEF TiesRight
<1>4. /\ ends[a[1]][1] \in Nat /\ ends[a[1]][2] \in Nat /\ ends[a[1]][1] # ends[a[1]][2]
      /\ ends[b[1]][1] \in Nat /\ ends[b[1]][2] \in Nat /\ ends[b[1]][1] # ends[b[1]][2]
  <2>1. ends[a[1]] \in Dials /\ ends[b[1]] \in Dials
    BY <1>2 DEF Lives
  <2>. QED
    BY <2>1, LinksAssumption, LinkTreeAssumption
<1>5. ends[a[1]] = ends[b[1]]
  BY <1>3, <1>4 DEF GaveWayTo, Favoured
<1>. QED
  BY <1>1, <1>2, <1>3, <1>5 DEF GaveWayTo

\* A session that gives way in a step does so to one that stays.
LEMMA LoserAlone ==
  ASSUME Base, CurrentOK, NEW e \in End, SessionStep(e), Shape', Lives',
         TiesRight', NEW a \in End, NEW b \in End,
         session'[a].gave_way = b[1], session'[b].gave_way = a[1]
  PROVE  session'[a].gave_way = session[a].gave_way
<1>. SUFFICES ASSUME session'[a].gave_way # session[a].gave_way PROVE FALSE
  OBVIOUS
<1>0. Alive(e)
  BY StepShape
<1>1. /\ ends'[a[1]] = ends'[b[1]] /\ a[2] = "in" /\ b[2] = "in" /\ a[1] # 0 /\ b[1] # 0
      /\ session'[b].phase # "gone"
  <2>1. (Shape /\ Lives /\ TiesRight => MutualLosersAlike)'
    BY MutualLosers, PTL
  <2>. QED
    BY <2>1 DEF MutualLosersAlike, Alive
<1>2. /\ ends'[a[1]] = ends[a[1]] /\ ends'[b[1]] = ends[b[1]]
      /\ Alive(a) /\ Alive(b)
  BY <1>1, LoserAlive
<1>3. ends[a[1]] = ends[b[1]]
  BY <1>1, <1>2
<1>4. CASE a = e /\ session'[a].gave_way = current[Owner(e)][Peer(e)] /\ TieStep(e)
  <2>1. PICK r \in Rival(e) : LosesTo(e, r)
    BY <1>4 DEF TieStep
  <2>2. /\ r \in End /\ Open(r) /\ r # e /\ r[1] # e[1]
        /\ r[1] = current[Owner(e)][Peer(e)]
        /\ r[2] # e[2] => ends[r[1]] # ends[e[1]]
    BY <1>0, <2>1, TieBreakRule
  <2>3. r[1] = b[1]
    BY <1>4, <2>2
  <2>4. r = b
    <3>1. r[2] = "in"
      BY <1>1, <1>3, <1>4, <2>2, <2>3
    <3>. QED
      BY <1>1, <2>2, <2>3, <3>1 DEF End
  <2>5. session[b].gave_way = 0
    BY <2>2, <2>4 DEF Base, Lives, Open
  <2>6. Kept(b)
    BY <1>4, <2>2, <2>4 DEF TieStep, OthersKept
  <2>. QED
    BY <1>1, <2>5, <2>6 DEF Kept
<1>5. CASE /\ a \in Rival(e) /\ session'[a].gave_way = e[1]
           /\ \A r \in Rival(e) : ~LosesTo(e, r)
  <2>1. LosesTo(e, a) <=> Favoured(a[1]) \/ ~Favoured(e[1])
    BY <1>0, <1>5, TieBreakRule
  <2>2. ends[e[1]] = ends[a[1]]
    BY <1>3, <1>5
  <2>. QED
    BY <1>5, <2>1, <2>2 DEF Favoured
<1>. QED
  BY <1>1, <1>4, <1>5, NewLoser

\* No two attempts give way to each other.
LEMMA AgreesNext ==
  ASSUME Base, CurrentOK, TieBreakAgrees, NEW e \in End, SessionStep(e),
         Shape', Lives', TiesRight'
  PROVE  TieBreakAgrees'
<1>. SUFFICES ASSUME NEW a \in End, NEW b \in End,
                     session'[a].gave_way = b[1], session'[b].gave_way = a[1]
              PROVE  FALSE
  BY DEF TieBreakAgrees
<1>1. session'[a].gave_way = session[a].gave_way /\ session'[b].gave_way = session[b].gave_way
  BY LoserAlone
<1>. QED
  BY <1>1 DEF TieBreakAgrees

(***************************************************************************)
(* The whole invariant.                                                    *)
(***************************************************************************)
LinkInv ==
  /\ Base /\ Owned /\ CurrentOK /\ OutgoingCurrent
  /\ TiesRight /\ TieBreakAgrees /\ Underway

\* A dial opens a socket that was never used and disturbs no other.
LEMMA DialNext ==
  ASSUME LinkInv, NEW a \in Server, NEW b \in Server, Dial(a, b), TreesInv'
  PROVE  LinkInv'
<1>0. PICK k : k = dialed + 1
  OBVIOUS
<1>. DEFINE o == <<k, "out">>
            i == <<k, "in">>
<1>1. /\ dialed < MaxDials /\ <<a, b>> \in Dials /\ current[a][b] = NoSocket
      /\ dialed' = k
      /\ ends' = [ends EXCEPT ![k] = <<a, b>>]
      /\ current' = [current EXCEPT ![a][b] = k]
      /\ session' = [session EXCEPT ![o] = Opened, ![i] = Opened]
      /\ wire' = [wire EXCEPT ![i] = <<Hello>>]
      /\ UNCHANGED <<tree, blocked, breaks>>
  BY <1>0 DEF Dial, MayDial
<1>2. /\ current \in [Server -> [Server -> Socket \cup {NoSocket}]]
      /\ ends \in [Socket -> Dials \cup {<<NoServer, NoServer>>}]
      /\ session \in [End -> Session] /\ wire \in [End -> Seq(Msg)]
      /\ dialed \in 0 .. MaxDials
  BY DEF LinkInv, Base, Shape
<1>3. k \in Socket /\ k \in 0 .. MaxDials /\ dialed \in Nat /\ a # b
  BY <1>0, <1>1, <1>2, LinksAssumption DEF Socket
<1>4. o \in End /\ i \in End /\ o # i
  BY <1>3 DEF End, Side
<1>5. \A f \in End : f[1] \in Nat /\ f[1] \in Socket /\ f[1] # 0
                     /\ (f[1] = k <=> f = o \/ f = i) /\ (f[2] = "out" \/ f[2] = "in")
                     /\ f = <<f[1], f[2]>>
  BY DEF End, Side, Socket
<1>6. Hello \in Msg /\ Opened \in Session
  <2>1. Hello \in Msg
    BY MessagesTyped DEF LinkInv, Base
  <2>2. Opened \in Session
    BY LinksAssumption DEF Opened, Session, Phase
  <2>. QED
    BY <2>1, <2>2
<1>. HIDE DEF o, i
<1>7. /\ session' \in [End -> Session] /\ session'[o] = Opened /\ session'[i] = Opened
      /\ \A f \in End : f[1] # k => session'[f] = session[f]
  BY <1>1, <1>2, <1>4, <1>5, <1>6
<1>8. /\ wire' \in [End -> Seq(Msg)] /\ wire'[i] = <<Hello>> /\ wire'[o] = wire[o]
      /\ \A f \in End : f[1] # k => wire'[f] = wire[f]
  <2>1. <<Hello>> \in Seq(Msg)
    BY <1>6
  <2>. QED
    BY <1>1, <1>2, <1>4, <1>5, <2>1
<1>9. /\ ends'[k] = <<a, b>>
      /\ \A j \in Socket : j # k => ends'[j] = ends[j]
      /\ ends' \in [Socket -> Dials \cup {<<NoServer, NoServer>>}]
  BY <1>1, <1>2, <1>3
<1>10. /\ current' \in [Server -> [Server -> Socket \cup {NoSocket}]]
       /\ \A m, q \in Server : current'[m][q] = IF m = a /\ q = b THEN k ELSE current[m][q]
  BY <1>1, <1>2, <1>3
<1>11. /\ Opened.phase = "new" /\ ~Opened.closing /\ Opened.gave_way = 0
  BY DEF Opened
<1>12. \A f \in End : f[1] = k => ~Alive(f) /\ wire[f] = <<>>
  <2>. SUFFICES ASSUME NEW f \in End, f[1] = k PROVE ~Alive(f) /\ wire[f] = <<>>
    OBVIOUS
  <2>1. ~(k <= dialed)
    BY <1>0, <1>3
  <2>2. ~Alive(f)
    BY <2>1 DEF LinkInv, Base, Lives
  <2>. QED
    BY <2>2 DEF LinkInv, Base, Lives, Open
<1>13. \A f \in End : f[1] # k =>
         Owner(f)' = Owner(f) /\ Peer(f)' = Peer(f) /\ ends'[f[1]] = ends[f[1]]
  BY <1>5, <1>9, TwoEnds DEF Owner, Peer, Other
<1>14. Owner(o)' = a /\ Peer(o)' = b /\ Owner(i)' = b /\ Peer(i)' = a
  BY <1>9 DEF Owner, Peer, Other, o, i
<1>15. \A f \in End : f[1] = k => session'[f].phase = "new" /\ ~session'[f].closing
                                 /\ session'[f].gave_way = 0 /\ (f = o \/ f = i)
  BY <1>5, <1>7, <1>11
<1>16. Shape'
  BY <1>1, <1>3, <1>7, <1>8, <1>9, <1>10 DEF LinkInv, Base, Shape
<1>17. Lives'
  <2>. SUFFICES ASSUME NEW f \in End
                PROVE  /\ ~Alive(f)' => session'[f] = Gone
                       /\ Alive(f)' => f[1] <= dialed' /\ ends'[f[1]] \in Dials
                       /\ ~Open(f)' => wire'[f] = <<>>
                       /\ session'[f].gave_way # 0 => session'[f].closing
                       /\ session'[f].gave_way <= dialed'
    BY DEF Lives, Alive, Open
  <2>0. dialed <= k /\ dialed \in Nat /\ k \in Nat
    BY <1>0, <1>3
  <2>1. CASE f[1] = k
    <3>1. f[1] <= dialed' /\ 0 <= dialed'
      BY <1>1, <2>0, <2>1
    <3>2. ends'[f[1]] \in Dials
      BY <1>1, <1>9, <2>1
    <3>3. session'[f].phase = "new" /\ ~session'[f].closing /\ session'[f].gave_way = 0
      BY <1>15, <2>1
    <3>. QED
      BY <3>1, <3>2, <3>3 DEF Alive, Open
  <2>2. CASE f[1] # k
    <3>1. session'[f] = session[f] /\ wire'[f] = wire[f] /\ ends'[f[1]] = ends[f[1]]
      BY <1>7, <1>8, <1>13, <2>2
    <3>2. /\ ~Alive(f) => session[f] = Gone
          /\ Alive(f) => f[1] <= dialed /\ ends[f[1]] \in Dials
          /\ ~Open(f) => wire[f] = <<>>
          /\ session[f].gave_way # 0 => session[f].closing
          /\ session[f].gave_way <= dialed
      BY DEF LinkInv, Base, Lives
    <3>3. session[f].gave_way \in Nat
      BY <1>2 DEF Session
    <3>4. session[f].gave_way <= dialed' /\ (Alive(f) => f[1] <= dialed')
      BY <1>1, <1>5, <2>0, <3>2, <3>3
    <3>5. (Alive(f)' <=> Alive(f)) /\ (Open(f)' <=> Open(f))
      BY <3>1 DEF Alive, Open
    <3>. QED
      BY <3>1, <3>2, <3>4, <3>5
  <2>. QED
    BY <2>1, <2>2
<1>18. Owned'
  <2>1. ASSUME NEW f \in End, NEW n, NEW p PROVE Owns(f, n, p)' <=> Owns(f, n, p)
    <3>1. CASE f[1] = k
      BY <1>12, <1>15, <3>1 DEF Owns, OwnsBranch
    <3>2. CASE f[1] # k
      BY <1>7, <1>13, <3>2 DEF Owns, OwnsBranch, Alive
    <3>. QED
      BY <3>1, <3>2
  <2>. QED
    BY <1>1, <2>1 DEF LinkInv, Owned
<1>19. CurrentOK'
  <2>. SUFFICES ASSUME NEW m \in Server, NEW q \in Server, current'[m][q] # NoSocket
                PROVE  /\ current'[m][q] <= dialed'
                       /\ \A f \in End : /\ session'[f].phase # "gone"
                                         /\ f[1] = current'[m][q]
                                         /\ Owner(f)' = m
                                         => Peer(f)' = q
    BY DEF CurrentOK, Alive
  <2>0. dialed <= k /\ dialed \in Nat /\ k \in Nat /\ ~(k <= dialed)
    BY <1>0, <1>3
  <2>1. CASE m = a /\ q = b
    <3>1. current'[m][q] = k
      BY <1>10, <2>1
    <3>2. \A f \in End : f[1] = k /\ Owner(f)' = a => Peer(f)' = b
      BY <1>3, <1>5, <1>14
    <3>. QED
      BY <1>1, <2>0, <2>1, <3>1, <3>2
  <2>2. CASE ~(m = a /\ q = b)
    <3>1. current'[m][q] = current[m][q]
      BY <1>10, <2>2
    <3>2. /\ current[m][q] <= dialed /\ current[m][q] \in Socket
          /\ \A f \in End : Alive(f) /\ f[1] = current[m][q] /\ Owner(f) = m => Peer(f) = q
      BY <1>2, <3>1 DEF LinkInv, CurrentOK
    <3>3. current[m][q] # k /\ current[m][q] <= dialed'
      BY <1>1, <2>0, <3>2 DEF Socket
    <3>. QED
      BY <1>7, <1>13, <3>1, <3>2, <3>3 DEF Alive
  <2>. QED
    BY <2>1, <2>2
<1>20. OutgoingCurrent'
  <2>. SUFFICES ASSUME NEW f \in End, Open(f)', f[2] = "out"
                PROVE  current'[Owner(f)'][Peer(f)'] = f[1]
    BY DEF OutgoingCurrent
  <2>1. CASE f[1] = k
    <3>1. f = o
      BY <1>5, <2>1 DEF i
    <3>. QED
      BY <1>10, <1>14, <2>1, <3>1
  <2>2. CASE f[1] # k
    <3>1. Open(f) /\ Owner(f)' = Owner(f) /\ Peer(f)' = Peer(f)
      BY <1>7, <1>13, <2>2 DEF Open, Alive
    <3>2. current[Owner(f)][Peer(f)] = f[1] /\ Alive(f)
      BY <3>1 DEF LinkInv, OutgoingCurrent, Open
    <3>3. Owner(f) \in Server /\ Peer(f) \in Server
      BY <3>2, Servers DEF LinkInv, Base
    <3>4. f[1] # NoSocket
      BY <1>5, LinksAssumption
    <3>. QED
      BY <1>1, <1>10, <3>1, <3>2, <3>3, <3>4
  <2>. QED
    BY <2>1, <2>2
<1>21. ASSUME NEW x \in End, NEW y \in End, session'[x].gave_way = y[1]
       PROVE  x[1] # k /\ y[1] # k /\ session[x].gave_way = y[1]
  <2>1. x[1] # k
    BY <1>5, <1>15, <1>21
  <2>2. session[x].gave_way = y[1]
    BY <1>7, <1>21, <2>1
  <2>3. y[1] <= dialed
    BY <2>2 DEF LinkInv, Base, Lives
  <2>. QED
    BY <1>0, <1>3, <2>1, <2>2, <2>3
<1>22. TiesRight'
  <2>. SUFFICES ASSUME NEW x \in End, NEW f \in End,
                       session'[x].gave_way = f[1], session'[f].phase # "gone"
                PROVE  GaveWayTo(x, f[1])'
    BY DEF TiesRight, Alive
  <2>1. x[1] # k /\ f[1] # k /\ session[x].gave_way = f[1]
    BY <1>21
  <2>2. Alive(f) /\ ends'[f[1]] = ends[f[1]] /\ ends'[x[1]] = ends[x[1]]
    BY <1>7, <1>13, <2>1 DEF Alive
  <2>3. GaveWayTo(x, f[1])
    BY <2>1, <2>2 DEF LinkInv, TiesRight
  <2>. QED
    BY <2>2, <2>3 DEF GaveWayTo, Favoured
<1>23. TieBreakAgrees'
  BY <1>21 DEF LinkInv, TieBreakAgrees
<1>24. Underway'
  <2>. SUFFICES ASSUME NEW f \in End, Open(f)', Open(Other(f))'
                PROVE  Said(Other(f))' <= Heard(f)' + Len(wire'[f])
    BY DEF Underway
  <2>0. Other(f) \in End /\ Other(f)[1] = f[1]
    BY TwoEnds
  <2>1. CASE f = o
    <3>1. Other(f) = i
      BY <2>1 DEF Other, o, i
    <3>2. session'[o].phase = "new" /\ session'[i].phase = "new" /\ i[2] = "in"
      BY <1>7, <1>11 DEF i
    <3>3. wire'[f] \in Seq(Msg)
      BY <1>8
    <3>4. Len(wire'[f]) \in Nat
      BY <3>3, LenProperties
    <3>5. Said(Other(f))' = 0 /\ Heard(f)' = 0
      BY <2>1, <3>1, <3>2 DEF Said, Heard
    <3>. QED
      BY <3>4, <3>5
  <2>2. CASE f = i
    <3>1. Other(f) = o
      BY <2>2 DEF Other, o, i
    <3>2. session'[o].phase = "new" /\ session'[i].phase = "new" /\ o[2] = "out"
      BY <1>7, <1>11 DEF o
    <3>3. Len(wire'[f]) = 1
      BY <1>8, <2>2
    <3>4. Said(Other(f))' = 1 /\ Heard(f)' = 0
      BY <2>2, <3>1, <3>2 DEF Said, Heard
    <3>. QED
      BY <3>3, <3>4
  <2>3. CASE f[1] # k
    <3>1. /\ session'[f] = session[f] /\ wire'[f] = wire[f]
          /\ session'[Other(f)] = session[Other(f)]
      BY <1>7, <1>8, <2>0, <2>3
    <3>2. Open(f) /\ Open(Other(f)) /\ Said(Other(f))' = Said(Other(f)) /\ Heard(f)' = Heard(f)
      BY <3>1 DEF Open, Alive, Said, Heard
    <3>3. Said(Other(f)) <= Heard(f) + Len(wire[f])
      BY <3>2 DEF LinkInv, Underway
    <3>. QED
      BY <3>1, <3>2, <3>3
  <2>. QED
    BY <1>5, <2>1, <2>2, <2>3
<1>. QED
  BY <1>16, <1>17, <1>18, <1>19, <1>20, <1>22, <1>23, <1>24 DEF LinkInv, Base

\* It holds before anything is dialed.
LEMMA LinkInvInit == Init => LinkInv
<1>. SUFFICES ASSUME Init PROVE LinkInv
  OBVIOUS
<1>1. TreesInv
  BY TreesInvInit
<1>2. Gone \in Session /\ 0 \in 0 .. MaxDials /\ 0 \in 0 .. MaxBreaks
  BY LinksAssumption DEF Gone, Session, Phase
<1>3. \A e \in End : /\ session[e] = Gone /\ wire[e] = <<>>
                     /\ e[1] # 0 /\ Gone.phase = "gone" /\ Gone.gave_way = 0
  BY DEF Init, Gone, End, Socket
<1>4. Shape
  <2>1. session \in [End -> Session]
    BY <1>2 DEF Init
  <2>2. wire \in [End -> Seq(Msg)]
    BY DEF Init
  <2>3. /\ current \in [Server -> [Server -> Socket \cup {NoSocket}]]
        /\ blocked \in [Server -> SUBSET Server]
        /\ ends \in [Socket -> Dials \cup {<<NoServer, NoServer>>}]
    BY DEF Init
  <2>4. dialed \in 0 .. MaxDials /\ breaks \in 0 .. MaxBreaks
    BY <1>2 DEF Init
  <2>. QED
    BY <2>1, <2>2, <2>3, <2>4 DEF Shape
<1>5. \A e \in End : ~Alive(e) /\ ~Open(e)
  BY <1>3 DEF Alive, Open
<1>6. Lives
  <2>1. 0 <= dialed
    BY DEF Init
  <2>. QED
    BY <1>3, <1>5, <2>1 DEF Lives
<1>7. Owned
  <2>1. \A n \in Server : \A p \in Server \ {n} : Route(tree[n], p) # p
    BY LinkTreeAssumption DEF Init, NewTree, Known, Route
  <2>. QED
    BY <1>5, <2>1 DEF Owned, Owns
<1>8. CurrentOK
  BY DEF Init, CurrentOK
<1>9. OutgoingCurrent /\ TiesRight /\ Underway
  BY <1>5 DEF OutgoingCurrent, TiesRight, Underway
<1>10. TieBreakAgrees
  BY <1>3 DEF TieBreakAgrees
<1>. QED
  BY <1>1, <1>4, <1>6, <1>7, <1>8, <1>9, <1>10 DEF LinkInv, Base

\* Every handler is one of the kinds of steps.
LEMMA HandlersSound ==
  ASSUME Base, NEW e \in End, handle_frame(e) \/ close_session(e) \/ Break(e)
  PROVE  Sound(e)
  BY BreakSound, HelloSound, SnapshotSound, ReadySound, IntroduceSound,
     WithdrawSound, CloseSound DEF handle_frame

\* And every kind of step keeps the invariant.
LEMMA LinkInvNext == LinkInv /\ [Next]_vars => LinkInv'
<1>. SUFFICES ASSUME LinkInv, [Next]_vars PROVE LinkInv'
  OBVIOUS
<1>0. TreesInv'
  BY TreesInvNext DEF LinkInv, Base
<1>1. ASSUME NEW a \in Server, NEW b \in Server, Dial(a, b) PROVE LinkInv'
  BY <1>0, <1>1, DialNext
<1>2. ASSUME NEW e \in End, handle_frame(e) \/ close_session(e) \/ Break(e) PROVE LinkInv'
  <2>1. Base /\ Sound(e)
    BY <1>2, HandlersSound DEF LinkInv
  <2>2. SessionStep(e) /\ Shape'
    BY <2>1 DEF Sound
  <2>3. Lives'
    BY <2>1, <2>2, LivesNext
  <2>4. Owned' /\ CurrentOK' /\ OutgoingCurrent' /\ Underway'
    BY <2>1, <2>2, <2>3, OwnedNext, CurrentNext, OutgoingNext, UnderwayNext DEF LinkInv
  <2>5. TiesRight'
    BY <2>1, <2>2, <2>3, TiesNext DEF LinkInv
  <2>6. TieBreakAgrees'
    BY <2>1, <2>2, <2>3, <2>5, AgreesNext DEF LinkInv
  <2>. QED
    BY <1>0, <2>2, <2>3, <2>4, <2>5, <2>6 DEF LinkInv, Base
<1>3. CASE UNCHANGED vars
  BY <1>3, <1>0, SMTT(30) DEF vars, LinkInv, Base, Shape, Lives, Owned, Owns, OwnsBranch, CurrentOK,
     OutgoingCurrent, TiesRight, GaveWayTo, Favoured, TieBreakAgrees, Underway,
     Said, Heard, Alive, Open, Owner, Peer
<1>. QED
  BY <1>1, <1>2, <1>3 DEF Next

\* The sessions of every network, however many servers dial each other and
\* whatever breaks: sockets are used once, branches have one owner, attempts
\* give way by one rule, and no handshake message is lost but with its socket.
THEOREM LinksInvariant == Spec => []LinkInv
  BY LinkInvInit, LinkInvNext, PTL DEF Spec

\* "Both ends retain the same socket": whoever dials whom at the same time, no
\* two attempts each give way to the other.
THEOREM LinksTieBreakAgrees == Spec => []TieBreakAgrees
<1>1. LinkInv => TieBreakAgrees
  BY DEF LinkInv
<1>. QED
  BY <1>1, LinksInvariant, PTL

\* A handshake that is not finished is never silent: a message is on its way
\* to one of its ends, or one end is closing.
THEOREM LinksHandshakeMoves == Spec => []HandshakeMoves
<1>1. ASSUME LinkInv PROVE HandshakeMoves
  <2>. SUFFICES ASSUME NEW k \in Socket,
                       Open(<<k, "out">>), Open(<<k, "in">>),
                       wire[<<k, "out">>] = <<>>, wire[<<k, "in">>] = <<>>
                PROVE  /\ session[<<k, "out">>].phase = "established"
                       /\ session[<<k, "in">>].phase = "established"
    BY DEF HandshakeMoves
  <2>. DEFINE o == <<k, "out">>
              i == <<k, "in">>
  <2>1. o \in End /\ i \in End /\ Other(o) = i /\ Other(i) = o /\ o[2] = "out" /\ i[2] = "in"
    BY DEF End, Side, Other
  <2>2. session[o].phase \in Phase \ {"gone"} /\ session[i].phase \in Phase \ {"gone"}
    BY <1>1, <2>1 DEF LinkInv, Base, Shape, Session, Open, Alive
  <2>3. Len(wire[o]) = 0 /\ Len(wire[i]) = 0
    OBVIOUS
  <2>4. Said(i) <= Heard(o) + Len(wire[o]) /\ Said(o) <= Heard(i) + Len(wire[i])
    BY <1>1, <2>1 DEF LinkInv, Underway
  <2>. HIDE DEF o, i
  <2>5. Heard(o) \in 0 .. 3 /\ Heard(i) \in 0 .. 3
    BY DEF Heard
  <2>6. Said(i) <= Heard(o) /\ Said(o) <= Heard(i)
    BY <2>3, <2>4, <2>5
  <2>7. session[o].phase = "established" /\ session[i].phase = "established"
    BY <2>1, <2>2, <2>6 DEF Said, Heard, Phase
  <2>. QED
    BY <2>7 DEF o, i
<1>. QED
  BY <1>1, LinksInvariant, PTL

\* A branch stands in a server's tree exactly as long as one admitted session
\* owns it: the end of a session removes its own branch and never that of the
\* session that replaced it.
THEOREM LinksBranchesOwned == Spec => []BranchesOwned
<1>1. ASSUME LinkInv PROVE BranchesOwned
  <2>1. TypeOK
    <3>1. \A n \in Server : tree[n] \in [Known(tree[n]) -> Node]
      BY <1>1 DEF LinkInv, Base, TreesInv, TreesSound, TreeOK
    <3>2. ASSUME NEW e \in End, NEW j \in DOMAIN wire[e] PROVE wire[e][j].op \in Op
      <4>1. wire[e] \in Seq(Msg)
        BY <1>1 DEF LinkInv, Base, Shape
      <4>2. wire[e][j] \in Msg
        BY <4>1, ElementOfSeq, LenProperties
      <4>. QED
        BY <4>2 DEF Msg
    <3>. QED
      BY <1>1, <3>1, <3>2 DEF TypeOK, LinkInv, Base, Shape
  <2>2. ASSUME NEW n \in Server, NEW p \in Server \ {n}
        PROVE  LET owners == {e \in Sessions(n) : /\ Peer(e) = p
                                /\ session[e].phase \in {"admitted", "established"}}
               IN /\ Cardinality(owners) <= 1
                  /\ (owners # {}) <=> (Route(tree[n], p) = p)
    <3>. DEFINE owners == {e \in Sessions(n) : /\ Peer(e) = p
                             /\ session[e].phase \in {"admitted", "established"}}
    <3>1. \A e : e \in owners <=> e \in End /\ Owns(e, n, p)
      BY DEF Sessions, Owns, OwnsBranch
    <3>. HIDE DEF owners
    <3>2. /\ \A e, f \in End : Owns(e, n, p) /\ Owns(f, n, p) => e = f
          /\ (\E e \in End : Owns(e, n, p)) <=> Route(tree[n], p) = p
      BY <1>1 DEF LinkInv, Owned
    <3>3. (owners # {}) <=> (Route(tree[n], p) = p)
      BY <3>1, <3>2
    <3>4. Cardinality(owners) <= 1
      <4>1. CASE owners = {}
        BY <4>1, FS_EmptySet
      <4>2. CASE owners # {}
        <5>1. PICK e : e \in owners
          BY <4>2
        <5>2. owners = {e}
          BY <3>1, <3>2, <5>1
        <5>3. Cardinality({e}) = 1
          BY FS_Singleton
        <5>. QED
          BY <5>2, <5>3
      <4>. QED
        BY <4>1, <4>2
    <3>. QED
      BY <3>3, <3>4 DEF owners
  <2>. QED
    BY <2>1, <2>2 DEF BranchesOwned
<1>. QED
  BY <1>1, LinksInvariant, PTL

(***************************************************************************)
(* Views.  What one server is told of another is a set of servers and the  *)
(* parent of each, without what lies behind the link between the two.      *)
(***************************************************************************)
View == UNION {[S -> Server \cup {NoServer}] : S \in SUBSET Server}

\* A view after an introduction, and after a withdrawal.
Grown(v, s, parent) ==
  [x \in DOMAIN v \cup {s} |-> IF x = s THEN parent ELSE v[x]]

Below(v, s) ==
  {x \in DOMAIN v :
     \A marked \in SUBSET (DOMAIN v) :
        (s \in marked /\ \A y \in DOMAIN v : v[y] \in marked => y \in marked) => x \in marked}

Pruned(v, s) == [x \in DOMAIN v \ Below(v, s) |-> v[x]]

\* The branch of a peer as a view of that peer, who is its root.
BranchOf(t, peer) ==
  [s \in {x \in Known(t) : Route(t, x) = peer} |->
     IF s = peer THEN NoServer ELSE t[s].parent]

\* The server itself and the branches whose heads are in H.
Shown(t, local, H) ==
  [s \in {x \in Known(t) : x = local \/ Route(t, x) \in H} |-> t[s].parent]

\* A sound tree, in the words these views need.
LEMMA TreeFacts ==
  ASSUME NEW t, NEW local \in Server, TreeOK(t, local)
  PROVE  /\ Known(t) \subseteq Server /\ local \in Known(t) /\ NoServer \notin Known(t)
         /\ t[local].parent = NoServer /\ Route(t, local) = NoServer
         /\ \A s \in Known(t) : /\ Route(t, s) = t[s].peer
                                /\ t[s].parent \in Server \cup {NoServer}
                                /\ t[s].peer \in Server \cup {NoServer}
         /\ \A s \in Known(t) \ {local} :
              /\ t[s].parent \in Known(t)
              /\ t[s].peer \in Known(t) \ {local}
              /\ t[s].parent = local <=> t[s].peer = s
              /\ t[s].parent # local => t[t[s].parent].peer = t[s].peer
<1>1. Known(t) \subseteq Server /\ t \in [Known(t) -> Node]
  BY DEF TreeOK
<1>2. local \in Known(t) /\ t[local] = [parent |-> NoServer, peer |-> NoServer]
  BY DEF TreeOK, RootLocal
<1>3. NoServer \notin Known(t)
  BY <1>1, LinkTreeAssumption
<1>4. \A s \in Known(t) : /\ Route(t, s) = t[s].peer
                          /\ t[s].parent \in Server \cup {NoServer}
                          /\ t[s].peer \in Server \cup {NoServer}
  BY <1>1 DEF Node, Route
<1>5. \A s \in Known(t) \ {local} :
        /\ t[s].parent \in Known(t)
        /\ t[s].peer \in Known(t) \ {local}
        /\ t[s].parent = local <=> t[s].peer = s
        /\ t[s].parent # local => t[t[s].parent].peer = t[s].peer
  BY DEF TreeOK, BranchesOK
<1>. QED
  BY <1>1, <1>2, <1>3, <1>4, <1>5

\* Views are views.
LEMMA ViewsTyped ==
  ASSUME NEW t, NEW local \in Server, TreeOK(t, local)
  PROVE  /\ \A p : BranchOf(t, p) \in View
         /\ \A H : Shown(t, local, H) \in View
         /\ NoNodes \in View
<1>1. /\ Known(t) \subseteq Server
      /\ \A s \in Known(t) : t[s].parent \in Server \cup {NoServer}
  BY TreeFacts
<1>2. ASSUME NEW p PROVE BranchOf(t, p) \in View
  <2>. DEFINE D == {x \in Known(t) : Route(t, x) = p}
  <2>1. D \in SUBSET Server
    BY <1>1
  <2>2. BranchOf(t, p) \in [D -> Server \cup {NoServer}]
    BY <1>1 DEF BranchOf
  <2>. QED
    BY <2>1, <2>2 DEF View
<1>3. ASSUME NEW H PROVE Shown(t, local, H) \in View
  <2>. DEFINE D == {x \in Known(t) : x = local \/ Route(t, x) \in H}
  <2>1. D \in SUBSET Server
    BY <1>1
  <2>2. Shown(t, local, H) \in [D -> Server \cup {NoServer}]
    BY <1>1 DEF Shown
  <2>. QED
    BY <2>1, <2>2 DEF View
<1>4. NoNodes \in View
  <2>1. NoNodes \in [{} -> Server \cup {NoServer}]
    BY DEF NoNodes
  <2>. QED
    BY <2>1 DEF View
<1>. QED
  BY <1>2, <1>3, <1>4

\* What lies below a server depends on a set that is closed downwards only.
LEMMA BelowSame ==
  ASSUME NEW v, NEW w, NEW s, NEW C, C \subseteq DOMAIN v, C \subseteq DOMAIN w, s \in C,
         \A y \in DOMAIN v : v[y] \in C => y \in C,
         \A y \in DOMAIN w : w[y] \in C => y \in C,
         \A y \in C : v[y] \in C \/ w[y] \in C => v[y] = w[y]
  PROVE  Below(v, s) = Below(w, s) /\ Below(v, s) \subseteq C
<1>1. ASSUME NEW a, NEW b, C \subseteq DOMAIN a, C \subseteq DOMAIN b,
             \A y \in DOMAIN a : a[y] \in C => y \in C,
             \A y \in C : a[y] \in C \/ b[y] \in C => a[y] = b[y]
      PROVE  Below(a, s) \subseteq Below(b, s) \cap C
  <2>. SUFFICES ASSUME NEW x \in Below(a, s)
                PROVE  x \in C /\ x \in Below(b, s)
    OBVIOUS
  <2>0. ASSUME NEW M \in SUBSET (DOMAIN a),
               s \in M, \A y \in DOMAIN a : a[y] \in M => y \in M
        PROVE  x \in M
    BY <2>0 DEF Below
  <2>1. x \in C
    <3>1. C \in SUBSET (DOMAIN a)
      BY <1>1
    <3>2. \A y \in DOMAIN a : a[y] \in C => y \in C
      BY <1>1
    <3>. QED
      BY <2>0, <3>1, <3>2
  <2>2. ASSUME NEW M \in SUBSET (DOMAIN b),
               s \in M, \A y \in DOMAIN b : b[y] \in M => y \in M
        PROVE  x \in M
    <3>. DEFINE N == M \cap C
    <3>1. N \in SUBSET (DOMAIN a) /\ s \in N
      BY <1>1, <2>2
    <3>2. ASSUME NEW y \in DOMAIN a, a[y] \in N PROVE y \in N
      <4>1. y \in C
        BY <1>1, <3>2
      <4>2. a[y] = b[y]
        BY <1>1, <3>2, <4>1
      <4>. QED
        BY <1>1, <2>2, <3>2, <4>1, <4>2
    <3>3. x \in N
      BY <2>0, <3>1, <3>2
    <3>. QED
      BY <3>3
  <2>3. x \in Below(b, s)
    <3>1. x \in DOMAIN b
      BY <1>1, <2>1
    <3>. QED
      BY <2>2, <3>1 DEF Below
  <2>. QED
    BY <2>1, <2>3
<1>2. Below(v, s) \subseteq Below(w, s) \cap C
  BY <1>1
<1>3. Below(w, s) \subseteq Below(v, s) \cap C
  <2>1. \A y \in C : w[y] \in C \/ v[y] \in C => w[y] = v[y]
    OBVIOUS
  <2>. QED
    BY <1>1, <2>1
<1>. QED
  BY <1>2, <1>3

\* The marks of rr_link_tree_remove are what lies below in the parents alone.
LEMMA SubtreeBelow ==
  ASSUME NEW t, NEW s
  PROVE  Subtree(t, s) = Below([x \in Known(t) |-> t[x].parent], s)
<1>. DEFINE P == [x \in Known(t) |-> t[x].parent]
<1>1. DOMAIN P = Known(t) /\ \A x \in Known(t) : P[x] = t[x].parent
  OBVIOUS
<1>. HIDE DEF P
<1>2. ASSUME NEW x PROVE x \in Subtree(t, s) <=> x \in Below(P, s)
  <2>1. ASSUME NEW M \in SUBSET Known(t)
        PROVE  (\A y \in Known(t) : t[y].parent \in M => y \in M)
                 <=> (\A y \in DOMAIN P : P[y] \in M => y \in M)
    BY <1>1
  <2>. QED
    BY <1>1, <2>1 DEF Subtree, Below
<1>. QED
  BY <1>2 DEF P

\* What lies below a server of a branch, in the tree, in the view of that
\* branch and in any view in which the branch is shown.
LEMMA SubtreeViews ==
  ASSUME NEW t, NEW local \in Server, TreeOK(t, local), NEW peer, NEW s, CanRemove(t, peer, s)
  PROVE  /\ \A x \in Subtree(t, s) : x \in Known(t) /\ t[x].peer = peer
         /\ s # peer => Below(BranchOf(t, peer), s) = Subtree(t, s)
         /\ \A H : peer \in H => Below(Shown(t, local, H), s) = Subtree(t, s)
<1>. DEFINE C == {x \in Known(t) : t[x].peer = peer}
            P == [x \in Known(t) |-> t[x].parent]
<1>1. /\ s \in C /\ peer # NoServer /\ C \subseteq Known(t)
      /\ DOMAIN P = Known(t) /\ \A x \in Known(t) : P[x] = t[x].parent
  BY DEF CanRemove
<1>2. /\ local \notin C /\ NoServer \notin Known(t)
      /\ \A x \in Known(t) : t[x].parent \in C => x \in C
  <2>1. t[local].peer = NoServer /\ t[local].parent = NoServer /\ NoServer \notin Known(t)
    BY TreeFacts
  <2>2. local \notin C
    BY <1>1, <2>1
  <2>3. ASSUME NEW x \in Known(t), t[x].parent \in C PROVE x \in C
    <3>1. x # local
      BY <1>1, <2>1, <2>3
    <3>2. t[t[x].parent].peer = t[x].peer
      BY <2>2, <2>3, <3>1, TreeFacts
    <3>. QED
      BY <2>3, <3>2
  <2>. QED
    BY <2>1, <2>2, <2>3
<1>3. \A x \in C : x \in Known(t) /\ t[x].peer = peer /\ Route(t, x) = peer
  BY TreeFacts
<1>4. \A x \in Known(t) : Route(t, x) = peer => x \in C
  BY TreeFacts
<1>5. Subtree(t, s) = Below(P, s)
  BY SubtreeBelow
<1>. HIDE DEF P, C
<1>6. Subtree(t, s) \subseteq C
  <2>1. Below(P, s) \subseteq C
    BY <1>1, <1>2, BelowSame
  <2>. QED
    BY <1>5, <2>1
<1>7. ASSUME s # peer
      PROVE  Below(BranchOf(t, peer), s) = Subtree(t, s)
  <2>. DEFINE v == BranchOf(t, peer)
              \* The head of the branch has its parent outside.
              Q == C \ {peer}
  <2>1. DOMAIN v = C /\ \A x \in C : v[x] = IF x = peer THEN NoServer ELSE t[x].parent
    BY <1>1, <1>3, <1>4 DEF BranchOf
  <2>2. \A x \in C : x = peer => t[x].parent = local
    <3>. SUFFICES ASSUME NEW x \in C, x = peer PROVE t[x].parent = local
      OBVIOUS
    <3>1. x \in Known(t) \ {local} /\ t[x].peer = x
      BY <1>2, <1>3
    <3>. QED
      BY <3>1, TreeFacts
  <2>. HIDE DEF v
  <2>3. C \subseteq DOMAIN v /\ C \subseteq DOMAIN P
    BY <1>1, <2>1
  <2>4. \A y \in DOMAIN v : v[y] \in C => y \in C
    BY <2>1
  <2>5. \A y \in DOMAIN P : P[y] \in C => y \in C
    BY <1>1, <1>2
  <2>6. \A y \in C : v[y] \in C \/ P[y] \in C => v[y] = P[y]
    BY <1>1, <1>2, <2>1, <2>2
  <2>7. s \in C
    BY <1>1
  <2>8. Below(v, s) = Below(P, s)
    BY <2>3, <2>4, <2>5, <2>6, <2>7, BelowSame
  <2>. QED
    BY <1>5, <2>8 DEF v
<1>8. ASSUME NEW H, peer \in H
      PROVE  Below(Shown(t, local, H), s) = Subtree(t, s)
  <2>. DEFINE v == Shown(t, local, H)
  <2>1. /\ \A x \in DOMAIN v : x \in Known(t) /\ v[x] = t[x].parent
        /\ C \subseteq DOMAIN v
    BY <1>3, <1>8 DEF Shown
  <2>. HIDE DEF v
  <2>3. C \subseteq DOMAIN v /\ C \subseteq DOMAIN P
    BY <1>1, <2>1
  <2>4. \A y \in DOMAIN v : v[y] \in C => y \in C
    BY <1>2, <2>1
  <2>5. \A y \in DOMAIN P : P[y] \in C => y \in C
    BY <1>1, <1>2
  <2>6. \A y \in C : v[y] \in C \/ P[y] \in C => v[y] = P[y]
    BY <1>1, <2>1
  <2>7. s \in C
    BY <1>1
  <2>8. Below(v, s) = Below(P, s)
    BY <2>3, <2>4, <2>5, <2>6, <2>7, BelowSame
  <2>. QED
    BY <1>5, <2>8 DEF v
<1>9. \A x \in Subtree(t, s) : x \in Known(t) /\ t[x].peer = peer
  BY <1>3, <1>6
<1>. QED
  BY <1>7, <1>8, <1>9

\* An attached snapshot is the view of its branch and touches no other.
LEMMA AttachViews ==
  ASSUME NEW t, NEW local \in Server, TreeOK(t, local), NEW peer \in Server, NEW nodes \in View,
         CanAttach(t, peer, nodes)
  PROVE  LET T == Attach(t, local, peer, nodes)
         IN /\ BranchOf(T, peer) = nodes
            /\ \A q : q # peer => BranchOf(T, q) = BranchOf(t, q)
            /\ \A H : peer \notin H => Shown(T, local, H) = Shown(t, local, H)
<1>. DEFINE T == Attach(t, local, peer, nodes)
            D == DOMAIN nodes
<1>1. /\ Known(T) = Known(t) \cup D /\ D \cap Known(t) = {} /\ peer \in D
      /\ \A x \in Known(t) : T[x] = t[x] /\ Route(T, x) = Route(t, x)
      /\ \A x \in D : /\ T[x].peer = peer /\ Route(T, x) = peer
                      /\ T[x].parent = IF nodes[x] = NoServer THEN local ELSE nodes[x]
  BY DEF Attach, CanAttach, Known, Route
<1>2. \A x \in D : x # peer => nodes[x] # NoServer
  <2>1. D \subseteq Server /\ \A x \in D \ {peer} : nodes[x] \in D
    BY DEF CanAttach, EveryChainReaches
  <2>. QED
    BY <2>1, LinkTreeAssumption
<1>3. nodes[peer] = NoServer
  BY DEF CanAttach
<1>4. local \in Known(t) /\ \A x \in Known(t) : Route(t, x) # peer
  <2>. SUFFICES ASSUME NEW x \in Known(t), Route(t, x) = peer PROVE FALSE
    BY TreeFacts
  <2>1. x # local
    BY TreeFacts, LinkTreeAssumption
  <2>2. t[x].peer \in Known(t) /\ Route(t, x) = t[x].peer
    BY <2>1, TreeFacts
  <2>. QED
    BY <1>1, <2>2
<1>5. nodes = [x \in D |-> nodes[x]]
  BY DEF View
<1>. HIDE DEF T, D
<1>6. BranchOf(T, peer) = nodes
  <2>1. {x \in Known(T) : Route(T, x) = peer} = D
    BY <1>1, <1>4
  <2>2. BranchOf(T, peer) = [x \in D |-> IF x = peer THEN NoServer ELSE T[x].parent]
    BY <2>1 DEF BranchOf
  <2>3. \A x \in D : nodes[x] = IF x = peer THEN NoServer ELSE T[x].parent
    BY <1>1, <1>2, <1>3
  <2>. QED
    BY <1>5, <2>2, <2>3
<1>7. ASSUME NEW q, q # peer PROVE BranchOf(T, q) = BranchOf(t, q)
  <2>1. {x \in Known(T) : Route(T, x) = q} = {x \in Known(t) : Route(t, x) = q}
    BY <1>1, <1>7
  <2>2. \A x \in {y \in Known(t) : Route(t, y) = q} : T[x].parent = t[x].parent
    BY <1>1
  <2>. QED
    BY <2>1, <2>2 DEF BranchOf
<1>8. ASSUME NEW H, peer \notin H PROVE Shown(T, local, H) = Shown(t, local, H)
  <2>1. {x \in Known(T) : x = local \/ Route(T, x) \in H}
          = {x \in Known(t) : x = local \/ Route(t, x) \in H}
    BY <1>1, <1>4, <1>8
  <2>2. \A x \in {y \in Known(t) : y = local \/ Route(t, y) \in H} : T[x].parent = t[x].parent
    BY <1>1
  <2>. QED
    BY <2>1, <2>2 DEF Shown
<1>. QED
  BY <1>6, <1>7, <1>8 DEF T

\* An introduced server grows the views of its branch by itself.
LEMMA AddViews ==
  ASSUME NEW t, NEW local \in Server, TreeOK(t, local), NEW peer, NEW s, NEW parent,
         CanAdd(t, peer, s, parent)
  PROVE  LET T == Add(t, peer, s, parent)
         IN /\ BranchOf(T, peer) = Grown(BranchOf(t, peer), s, parent)
            /\ \A q : q # peer => BranchOf(T, q) = BranchOf(t, q)
            /\ \A H : peer \notin H => Shown(T, local, H) = Shown(t, local, H)
            /\ \A H : peer \in H => /\ Shown(T, local, H) = Grown(Shown(t, local, H), s, parent)
                                    /\ parent \in DOMAIN Shown(t, local, H)
<1>. DEFINE T == Add(t, peer, s, parent)
<1>1. /\ Known(T) = Known(t) \cup {s} /\ s \notin Known(t)
      /\ \A x \in Known(t) : T[x] = t[x] /\ Route(T, x) = Route(t, x)
      /\ T[s].parent = parent /\ T[s].peer = peer /\ Route(T, s) = peer
      /\ peer \in Known(t) /\ parent \in Known(t) /\ t[parent].peer = peer
  BY DEF Add, CanAdd, Known, Route
<1>2. local \in Known(t) /\ Route(t, parent) = peer /\ s # peer
  BY <1>1, TreeFacts
<1>. HIDE DEF T
<1>3. BranchOf(T, peer) = Grown(BranchOf(t, peer), s, parent)
  <2>. DEFINE C == {x \in Known(t) : Route(t, x) = peer}
              v == BranchOf(t, peer)
  <2>1. {x \in Known(T) : Route(T, x) = peer} = C \cup {s}
    BY <1>1
  <2>2. DOMAIN v = C /\ \A x \in C : v[x] = IF x = peer THEN NoServer ELSE t[x].parent
    BY DEF BranchOf
  <2>3. \A x \in C : x # s /\ T[x].parent = t[x].parent
    BY <1>1
  <2>4. BranchOf(T, peer) = [x \in C \cup {s} |-> IF x = peer THEN NoServer ELSE T[x].parent]
    BY <2>1 DEF BranchOf
  <2>. HIDE DEF C, v
  <2>5. Grown(v, s, parent) = [x \in C \cup {s} |-> IF x = s THEN parent ELSE v[x]]
    BY <2>2 DEF Grown
  <2>6. \A x \in C \cup {s} : (IF x = s THEN parent ELSE v[x])
                                = IF x = peer THEN NoServer ELSE T[x].parent
    BY <1>1, <1>2, <2>2, <2>3
  <2>. QED
    BY <2>4, <2>5, <2>6 DEF v
<1>4. ASSUME NEW q, q # peer PROVE BranchOf(T, q) = BranchOf(t, q)
  <2>1. {x \in Known(T) : Route(T, x) = q} = {x \in Known(t) : Route(t, x) = q}
    BY <1>1, <1>4
  <2>2. \A x \in {y \in Known(t) : Route(t, y) = q} : T[x].parent = t[x].parent
    BY <1>1
  <2>. QED
    BY <2>1, <2>2 DEF BranchOf
<1>5. ASSUME NEW H, peer \notin H PROVE Shown(T, local, H) = Shown(t, local, H)
  <2>1. {x \in Known(T) : x = local \/ Route(T, x) \in H}
          = {x \in Known(t) : x = local \/ Route(t, x) \in H}
    BY <1>1, <1>2, <1>5
  <2>2. \A x \in {y \in Known(t) : y = local \/ Route(t, y) \in H} : T[x].parent = t[x].parent
    BY <1>1
  <2>. QED
    BY <2>1, <2>2 DEF Shown
<1>6. ASSUME NEW H, peer \in H
      PROVE  /\ Shown(T, local, H) = Grown(Shown(t, local, H), s, parent)
             /\ parent \in DOMAIN Shown(t, local, H)
  <2>. DEFINE C == {x \in Known(t) : x = local \/ Route(t, x) \in H}
              v == Shown(t, local, H)
  <2>1. {x \in Known(T) : x = local \/ Route(T, x) \in H} = C \cup {s}
    BY <1>1, <1>6
  <2>2. DOMAIN v = C /\ \A x \in C : v[x] = t[x].parent
    BY DEF Shown
  <2>3. \A x \in C : x # s /\ T[x].parent = t[x].parent
    BY <1>1
  <2>4. parent \in C
    BY <1>1, <1>2, <1>6
  <2>5. Shown(T, local, H) = [x \in C \cup {s} |-> T[x].parent]
    BY <2>1 DEF Shown
  <2>. HIDE DEF C, v
  <2>6. Grown(v, s, parent) = [x \in C \cup {s} |-> IF x = s THEN parent ELSE v[x]]
    BY <2>2 DEF Grown
  <2>7. \A x \in C \cup {s} : (IF x = s THEN parent ELSE v[x]) = T[x].parent
    BY <1>1, <2>2, <2>3
  <2>. QED
    BY <2>2, <2>4, <2>5, <2>6, <2>7 DEF v
<1>. QED
  BY <1>3, <1>4, <1>5, <1>6 DEF T

\* A withdrawn server takes what is below it out of the views of its branch,
\* and the loss of a peer takes the whole branch out.
LEMMA RemoveViews ==
  ASSUME NEW t, NEW local \in Server, TreeOK(t, local), NEW peer \in Server, NEW s,
         CanRemove(t, peer, s)
  PROVE  LET T == Remove(t, s)
         IN /\ s # peer => BranchOf(T, peer) = Pruned(BranchOf(t, peer), s)
            /\ \A q : q # peer => BranchOf(T, q) = BranchOf(t, q)
            /\ \A H : peer \notin H => Shown(T, local, H) = Shown(t, local, H)
            /\ \A H : peer \in H => Shown(T, local, H) = Pruned(Shown(t, local, H), s)
            /\ s = peer => \A H : Shown(T, local, H \ {peer}) = Shown(T, local, H)
<1>. DEFINE T == Remove(t, s)
            R == Subtree(t, s)
<1>1. /\ Known(T) = Known(t) \ R
      /\ \A x \in Known(t) \ R : T[x] = t[x] /\ Route(T, x) = Route(t, x)
  BY DEF Remove, Known, Route
<1>2. /\ \A x \in R : x \in Known(t) /\ t[x].peer = peer
      /\ s # peer => Below(BranchOf(t, peer), s) = R
      /\ \A H : peer \in H => Below(Shown(t, local, H), s) = R
  BY SubtreeViews
<1>3. \A x \in R : Route(t, x) = peer /\ x # local
  BY <1>2, TreeFacts, LinkTreeAssumption
<1>4. s \in R
  BY SubtreeClosed DEF CanRemove
<1>5. TreeOK(T, local)
  BY RemoveSound
<1>. HIDE DEF T, R
<1>6. ASSUME s # peer PROVE BranchOf(T, peer) = Pruned(BranchOf(t, peer), s)
  <2>. DEFINE C == {x \in Known(t) : Route(t, x) = peer}
              v == BranchOf(t, peer)
  <2>1. {x \in Known(T) : Route(T, x) = peer} = C \ R
    BY <1>1
  <2>2. DOMAIN v = C /\ \A x \in C : v[x] = IF x = peer THEN NoServer ELSE t[x].parent
    BY DEF BranchOf
  <2>3. \A x \in C \ R : T[x].parent = t[x].parent
    BY <1>1
  <2>4. BranchOf(T, peer) = [x \in C \ R |-> IF x = peer THEN NoServer ELSE T[x].parent]
    BY <2>1 DEF BranchOf
  <2>. HIDE DEF C, v
  <2>5. Pruned(v, s) = [x \in C \ R |-> v[x]]
    BY <1>2, <1>6, <2>2 DEF Pruned, v
  <2>6. \A x \in C \ R : v[x] = IF x = peer THEN NoServer ELSE T[x].parent
    BY <2>2, <2>3
  <2>. QED
    BY <2>4, <2>5, <2>6 DEF v
<1>7. ASSUME NEW q, q # peer PROVE BranchOf(T, q) = BranchOf(t, q)
  <2>1. {x \in Known(T) : Route(T, x) = q} = {x \in Known(t) : Route(t, x) = q}
    BY <1>1, <1>3, <1>7
  <2>2. \A x \in {y \in Known(t) : Route(t, y) = q} : T[x].parent = t[x].parent
    BY <1>1, <1>3, <1>7
  <2>. QED
    BY <2>1, <2>2 DEF BranchOf
<1>8. ASSUME NEW H, peer \notin H PROVE Shown(T, local, H) = Shown(t, local, H)
  <2>1. {x \in Known(T) : x = local \/ Route(T, x) \in H}
          = {x \in Known(t) : x = local \/ Route(t, x) \in H}
    BY <1>1, <1>3, <1>8
  <2>2. \A x \in {y \in Known(t) : y = local \/ Route(t, y) \in H} : T[x].parent = t[x].parent
    BY <1>1, <1>3, <1>8
  <2>. QED
    BY <2>1, <2>2 DEF Shown
<1>9. ASSUME NEW H, peer \in H PROVE Shown(T, local, H) = Pruned(Shown(t, local, H), s)
  <2>. DEFINE C == {x \in Known(t) : x = local \/ Route(t, x) \in H}
              v == Shown(t, local, H)
  <2>1. {x \in Known(T) : x = local \/ Route(T, x) \in H} = C \ R
    BY <1>1
  <2>2. DOMAIN v = C /\ \A x \in C : v[x] = t[x].parent
    BY DEF Shown
  <2>3. \A x \in C \ R : T[x].parent = t[x].parent
    BY <1>1
  <2>4. Shown(T, local, H) = [x \in C \ R |-> T[x].parent]
    BY <2>1 DEF Shown
  <2>. HIDE DEF C, v
  <2>5. Pruned(v, s) = [x \in C \ R |-> v[x]]
    BY <1>2, <1>9, <2>2 DEF Pruned, v
  <2>. QED
    BY <2>2, <2>3, <2>4, <2>5 DEF v
<1>10. ASSUME s = peer, NEW H PROVE Shown(T, local, H \ {peer}) = Shown(T, local, H)
  <2>1. ASSUME NEW x \in Known(T), Route(T, x) = peer PROVE FALSE
    <3>1. x # local
      BY <1>5, <2>1, TreeFacts, LinkTreeAssumption
    <3>2. T[x].peer = Route(T, x) /\ T[x].peer \in Known(T)
      BY <1>5, <3>1, TreeFacts
    <3>. QED
      BY <1>1, <1>4, <1>10, <2>1, <3>2
  <2>2. {x \in Known(T) : x = local \/ Route(T, x) \in H \ {peer}}
          = {x \in Known(T) : x = local \/ Route(T, x) \in H}
    BY <2>1
  <2>. QED
    BY <2>2 DEF Shown
<1>. QED
  BY <1>6, <1>7, <1>8, <1>9, <1>10 DEF T


(***************************************************************************)
(* Streams.  A stream takes the view a session has to the one it is told.  *)
(* Induction over streams being out of reach, the views in between are     *)
(* named: one for each place of the stream.                                *)
(***************************************************************************)
Reads(v, m, w) ==
  /\ m.op = "snapshot" => v = NoNodes /\ w = m.nodes
  /\ m.op = "introduce" => m.parent \in DOMAIN v /\ w = Grown(v, m.node, m.parent)
  /\ m.op = "withdraw" => w = Pruned(v, m.node)
  /\ m.op \in {"hello", "ready"} => w = v

Through(V, v, msgs, w) ==
  /\ V \in [Nat -> View]
  /\ V[0] = v /\ V[Len(msgs)] = w
  /\ \A i \in 1 .. Len(msgs) : Reads(V[i - 1], msgs[i], V[i])

Follows(v, msgs, w) == \E V : Through(V, v, msgs, w)

\* Nothing was said.
LEMMA FollowsNothing ==
  ASSUME NEW v \in View
  PROVE  Follows(v, <<>>, v)
<1>. DEFINE V == [i \in Nat |-> v]
<1>1. Through(V, v, <<>>, v)
  BY DEF Through
<1>. QED
  BY <1>1 DEF Follows

\* One message was.
LEMMA FollowsOne ==
  ASSUME NEW v \in View, NEW w \in View, NEW m, Reads(v, m, w)
  PROVE  Follows(v, <<m>>, w)
<1>. DEFINE V == [i \in Nat |-> IF i = 0 THEN v ELSE w]
            q == <<m>>
<1>1. V \in [Nat -> View] /\ V[0] = v /\ V[1] = w
  OBVIOUS
<1>2. Len(q) = 1 /\ q[1] = m
  OBVIOUS
<1>. HIDE DEF V, q
<1>3. ASSUME NEW i \in 1 .. Len(q) PROVE Reads(V[i - 1], q[i], V[i])
  <2>1. i = 1 /\ i - 1 = 0
    BY <1>2
  <2>. QED
    BY <1>1, <1>2, <2>1
<1>4. Through(V, v, q, w)
  BY <1>1, <1>2, <1>3 DEF Through
<1>. QED
  BY <1>4 DEF Follows, q

\* The first message is read.
LEMMA FollowsRead ==
  ASSUME NEW v, NEW w, NEW q \in Seq(Msg), q # <<>>, Follows(v, q, w)
  PROVE  \E u \in View : Reads(v, Head(q), u) /\ Follows(u, Tail(q), w)
<1>1. PICK V : Through(V, v, q, w)
  BY DEF Follows
<1>2. /\ Len(q) \in Nat /\ Len(q) >= 1 /\ Head(q) = q[1]
      /\ Len(Tail(q)) = Len(q) - 1
      /\ \A i \in 1 .. Len(q) - 1 : Tail(q)[i] = q[i + 1]
  OBVIOUS
<1>. DEFINE W == [i \in Nat |-> V[i + 1]]
            r == Tail(q)
<1>3. /\ V \in [Nat -> View] /\ V[0] = v /\ V[Len(q)] = w
      /\ \A i \in 1 .. Len(q) : Reads(V[i - 1], q[i], V[i])
  BY <1>1 DEF Through
<1>4. /\ W \in [Nat -> View] /\ \A i \in Nat : W[i] = V[i + 1]
  BY <1>3
<1>. HIDE DEF W, r
<1>5. W[0] = V[1] /\ W[Len(r)] = w
  <2>1. Len(r) \in Nat /\ Len(r) + 1 = Len(q)
    BY <1>2 DEF r
  <2>2. W[Len(r)] = V[Len(r) + 1]
    BY <1>4, <2>1
  <2>. QED
    BY <1>3, <1>4, <2>1, <2>2
<1>6. ASSUME NEW i \in 1 .. Len(r) PROVE Reads(W[i - 1], r[i], W[i])
  <2>1. i \in Nat /\ i - 1 \in Nat /\ i + 1 \in 1 .. Len(q) /\ i \in 1 .. Len(q) - 1
    BY <1>2 DEF r
  <2>2. W[i - 1] = V[(i + 1) - 1] /\ W[i] = V[i + 1] /\ r[i] = q[i + 1]
    <3>1. W[i - 1] = V[(i - 1) + 1] /\ W[i] = V[i + 1]
      BY <1>4, <2>1
    <3>2. (i - 1) + 1 = (i + 1) - 1
      BY <2>1
    <3>3. r[i] = q[i + 1]
      BY <1>2, <2>1, Zenon DEF r
    <3>. QED
      BY <3>1, <3>2, <3>3
  <2>3. Reads(V[(i + 1) - 1], q[i + 1], V[i + 1])
    BY <1>3, <2>1
  <2>. QED
    BY <2>2, <2>3
<1>7. Through(W, V[1], r, w)
  BY <1>4, <1>5, <1>6 DEF Through
<1>8. Reads(v, Head(q), V[1])
  <2>1. 1 \in 1 .. Len(q) /\ 1 - 1 = 0
    BY <1>2
  <2>2. Reads(V[1 - 1], q[1], V[1])
    BY <1>3, <2>1
  <2>. QED
    BY <1>2, <1>3, <2>1, <2>2
<1>. QED
  BY <1>3, <1>7, <1>8 DEF Follows, r

\* More is said.
LEMMA FollowsMore ==
  ASSUME NEW v, NEW u, NEW w, NEW q \in Seq(Msg), NEW r \in Seq(Msg),
         Follows(v, q, u), Follows(u, r, w)
  PROVE  Follows(v, q \o r, w)
<1>1. PICK V : Through(V, v, q, u)
  BY DEF Follows
<1>2. PICK W : Through(W, u, r, w)
  BY DEF Follows
<1>. DEFINE n == Len(q)
            X == [i \in Nat |-> IF i <= n THEN V[i] ELSE W[i - n]]
            s == q \o r
<1>3. /\ n \in Nat /\ Len(r) \in Nat /\ Len(s) = n + Len(r)
      /\ \A i \in 1 .. n : s[i] = q[i]
      /\ \A i \in 1 .. Len(r) : s[n + i] = r[i]
  OBVIOUS
<1>4. /\ V \in [Nat -> View] /\ V[0] = v /\ V[n] = u
      /\ \A i \in 1 .. n : Reads(V[i - 1], q[i], V[i])
  BY <1>1 DEF Through
<1>5. /\ W \in [Nat -> View] /\ W[0] = u /\ W[Len(r)] = w
      /\ \A i \in 1 .. Len(r) : Reads(W[i - 1], r[i], W[i])
  BY <1>2 DEF Through
<1>6. X \in [Nat -> View]
  <2>. SUFFICES ASSUME NEW i \in Nat PROVE (IF i <= n THEN V[i] ELSE W[i - n]) \in View
    OBVIOUS
  <2>1. ~(i <= n) => i - n \in Nat
    BY <1>3
  <2>. QED
    BY <1>4, <1>5, <2>1
<1>7. \A i \in Nat : X[i] = IF i <= n THEN V[i] ELSE W[i - n]
  OBVIOUS
<1>. HIDE DEF n, X, s
<1>8. \A j \in Nat : X[n + j] = W[j]
  <2>. SUFFICES ASSUME NEW j \in Nat PROVE X[n + j] = W[j]
    OBVIOUS
  <2>1. CASE j = 0
    BY <1>3, <1>4, <1>5, <1>7, <2>1
  <2>2. CASE j # 0
    <3>1. n + j \in Nat /\ ~(n + j <= n) /\ (n + j) - n = j
      BY <1>3, <2>2
    <3>. QED
      BY <1>7, <3>1
  <2>. QED
    BY <2>1, <2>2
<1>9. X[0] = v /\ X[Len(s)] = w
  <2>1. 0 \in Nat /\ 0 <= n
    BY <1>3
  <2>2. X[0] = V[0]
    BY <1>7, <2>1
  <2>3. X[Len(s)] = W[Len(r)]
    BY <1>3, <1>8, Zenon
  <2>. QED
    BY <1>4, <1>5, <2>2, <2>3
<1>10. ASSUME NEW i \in 1 .. Len(s) PROVE Reads(X[i - 1], s[i], X[i])
  <2>1. CASE i <= n
    <3>1. i \in 1 .. n /\ i \in Nat /\ i - 1 \in Nat /\ i - 1 <= n
      BY <1>3, <2>1
    <3>2. X[i - 1] = V[i - 1] /\ X[i] = V[i] /\ s[i] = q[i]
      BY <1>3, <1>7, <2>1, <3>1
    <3>. QED
      BY <1>4, <3>1, <3>2
  <2>2. CASE ~(i <= n)
    <3>1. PICK j \in 1 .. Len(r) : i = n + j
      <4>1. i - n \in 1 .. Len(r) /\ i = n + (i - n)
        BY <1>3, <2>2
      <4>. QED
        BY <4>1
    <3>2. j \in Nat /\ j - 1 \in Nat /\ i - 1 = n + (j - 1)
      BY <1>3, <3>1
    <3>3. X[i - 1] = W[j - 1] /\ X[i] = W[j] /\ s[i] = r[j]
      BY <1>3, <1>8, <3>1, <3>2
    <3>. QED
      BY <1>5, <3>3
  <2>. QED
    BY <2>1, <2>2
<1>11. Through(X, v, s, w)
  BY <1>6, <1>9, <1>10 DEF Through
<1>. QED
  BY <1>11 DEF Follows, s

\* A view a stream leads to is a view.
LEMMA FollowsTyped ==
  ASSUME NEW v, NEW w, NEW q \in Seq(Msg), Follows(v, q, w)
  PROVE  v \in View /\ w \in View
<1>1. PICK V : Through(V, v, q, w)
  BY DEF Follows
<1>2. Len(q) \in Nat
  OBVIOUS
<1>. QED
  BY <1>1, <1>2 DEF Through

(***************************************************************************)
(* The mirror.  What a session has attached of its peer, followed through  *)
(* what is on its way, is what the peer knows without this session.        *)
(***************************************************************************)
Seen(e) == IF OwnsBranch(e) THEN BranchOf(tree[Owner(e)], Peer(e)) ELSE NoNodes

\* The established sessions of the same server, and whom they are with.
Serving(o) == {g \in Sessions(Owner(o)) \ {o} : session[g].phase = "established"}
Others(o)  == {Peer(g) : g \in Serving(o)}

\* What the owner of o has told, or would tell, over o.
Told(o) ==
  IF session[o].phase = "new" THEN NoNodes
  ELSE Shown(tree[Owner(o)], Owner(o), Others(o))

\* It may still become, or is, an established session: its generation is not
\* out of date.
InStep(o) ==
  \/ session[o].phase \in {"new", "established"}
  \/ session[o].phase = "hello" /\ session[o].behind = 0
  \/ session[o].phase = "admitted" /\ session[o].behind = 1

Mirrored(e) ==
  \E w \in View :
    /\ Follows(Seen(e), wire[e], w)
    /\ Open(Other(e)) /\ InStep(Other(e)) => w = Told(Other(e))

Mirror == \A e \in End : Open(e) => Mirrored(e)

\* Admissions are serialized, and one that is admitted counts itself.
Waiting(e) ==
  \/ session[e].phase = "admitted"
  \/ session[e].phase = "hello" /\ Open(e)

OneWaiting == \A e, f \in End : Waiting(e) /\ Waiting(f) /\ Owner(e) = Owner(f) => e = f

Counted == \A e \in End : session[e].phase = "admitted" => session[e].behind >= 1

\* A step in which e takes a message and the sessions of from, which are up to
\* date before and after, send what has changed.
LEMMA MirrorStep ==
  ASSUME Shape, Shape', Mirror, NEW e \in End, NEW from, NEW msgs \in Seq(Msg),
         \A x \in End : Open(x)' /\ x # e =>
           /\ Open(x) /\ Seen(x)' = Seen(x)
           /\ wire'[x] = IF Other(x) \in from THEN wire[x] \o msgs ELSE wire[x],
         Open(e)' =>
           /\ Open(e) /\ Other(e) \notin from /\ wire[e] # <<>> /\ wire'[e] = Tail(wire[e])
           /\ \A u \in View : Reads(Seen(e), Head(wire[e]), u) => Seen(e)' = u,
         \A g \in End : Open(g)' /\ InStep(g)' =>
           Open(g) /\ InStep(g) /\ (g \notin from => Told(g)' = Told(g)),
         \A g \in End : g \in from =>
           Open(g) /\ InStep(g) /\ Follows(Told(g), msgs, Told(g)')
  PROVE  Mirror'
<1>. SUFFICES ASSUME NEW x \in End, Open(x)' PROVE Mirrored(x)'
  BY DEF Mirror
<1>. DEFINE o == Other(x)
<1>1. o \in End
  BY TwoEnds
<1>2. Open(x)
  OBVIOUS
<1>3. PICK w \in View : Follows(Seen(x), wire[x], w) /\ (Open(o) /\ InStep(o) => w = Told(o))
  BY <1>2 DEF Mirror, Mirrored
<1>4. wire[x] \in Seq(Msg)
  BY DEF Shape
<1>. HIDE DEF o
<1>5. o \notin from /\ Open(o)' /\ InStep(o)' => w = Told(o)'
  BY <1>1, <1>3
<1>6. CASE x # e /\ o \notin from
  <2>1. Follows(Seen(x)', wire'[x], w)
    BY <1>3, <1>6 DEF o
  <2>. QED
    BY <1>5, <1>6, <2>1 DEF Mirrored, o
<1>7. CASE x # e /\ o \in from
  <2>1. w = Told(o) /\ Follows(Told(o), msgs, Told(o)')
    BY <1>1, <1>3, <1>7
  <2>2. Follows(Seen(x), wire[x] \o msgs, Told(o)')
    BY <1>3, <1>4, <2>1, FollowsMore
  <2>3. Told(o)' \in View
    BY <2>1, FollowsTyped
  <2>4. Seen(x)' = Seen(x) /\ wire'[x] = wire[x] \o msgs
    BY <1>7 DEF o
  <2>. QED
    BY <2>2, <2>3, <2>4 DEF Mirrored, o
<1>8. CASE x = e
  <2>1. wire[x] # <<>> /\ wire'[x] = Tail(wire[x]) /\ o \notin from
    BY <1>8 DEF o
  <2>2. PICK u \in View : Reads(Seen(x), Head(wire[x]), u) /\ Follows(u, Tail(wire[x]), w)
    BY <1>3, <1>4, <2>1, FollowsRead
  <2>3. Seen(x)' = u
    BY <1>8, <2>2
  <2>. QED
    BY <1>5, <2>1, <2>2, <2>3 DEF Mirrored, o
<1>. QED
  BY <1>6, <1>7, <1>8

\* A step changes the phase of its own session only.
LEMMA PhasesKept ==
  ASSUME Base, NEW e \in End, SessionStep(e), NEW x \in End, x # e
  PROVE  /\ session'[x].phase = session[x].phase
         /\ Open(x)' => Open(x)
<1>1. Kept(x) \/ Shut(x, e[1])
  BY StepShape
<1>. QED
  BY <1>1 DEF Kept, Shut, Open, Alive

\* Who serves beside x, but for the session of the step.
LEMMA ServingNext ==
  ASSUME Base, NEW e \in End, SessionStep(e), NEW x \in End, Alive(x)', NEW g \in End, g # e
  PROVE  /\ g \in Serving(x)' <=> g \in Serving(x)
         /\ g \in Serving(x) => Peer(g)' = Peer(g)
<1>1. session'[x].phase # "gone" /\ session'[g].phase = session[g].phase
  BY PhasesKept DEF Alive
<1>2. Owner(x)' = Owner(x)
  BY <1>1, Survivor
<1>3. session'[g].phase # "gone" => Owner(g)' = Owner(g) /\ Peer(g)' = Peer(g)
  BY Survivor
<1>. QED
  BY <1>1, <1>2, <1>3 DEF Serving, Sessions, Alive

\* The session of the step serves after it as it did before.
LEMMA OthersSame ==
  ASSUME Base, NEW e \in End, SessionStep(e), NEW x \in End, Alive(x)',
         \/ Owner(x) # Owner(e) \/ x = e
         \/ session'[e].phase = "established" <=> session[e].phase = "established"
  PROVE  Others(x)' = Others(x)
<1>1. Owner(x)' = Owner(x)
  BY Survivor DEF Alive
<1>2. session'[e].phase # "gone" => Owner(e)' = Owner(e) /\ Peer(e)' = Peer(e)
  BY Survivor
<1>3. e \in Serving(x)' <=> e \in Serving(x)
  BY <1>1, <1>2, StepShape DEF Serving, Sessions, Alive
<1>4. e \in Serving(x)' => Peer(e)' = Peer(e)
  BY <1>2 DEF Serving, Sessions, Alive
<1>5. \A g \in End : /\ g \in Serving(x)' <=> g \in Serving(x)
                     /\ g \in Serving(x) => Peer(g)' = Peer(g)
  BY <1>3, <1>4, ServingNext
<1>6. Serving(x) \subseteq End /\ Serving(x)' \subseteq End
  BY DEF Serving, Sessions
<1>. QED
  BY <1>5, <1>6 DEF Others

\* It begins to serve.
LEMMA OthersGrow ==
  ASSUME Base, NEW e \in End, SessionStep(e), NEW x \in End, Alive(x)',
         Owner(x) = Owner(e), x # e,
         session'[e].phase = "established", session[e].phase # "established"
  PROVE  Others(x)' = Others(x) \cup {Peer(e)}
<1>1. Owner(x)' = Owner(x)
  BY Survivor DEF Alive
<1>2. Owner(e)' = Owner(e) /\ Peer(e)' = Peer(e)
  BY Survivor
<1>3. e \in Serving(x)' /\ e \notin Serving(x)
  BY <1>1, <1>2 DEF Serving, Sessions, Alive
<1>4. \A g \in End : g # e => /\ g \in Serving(x)' <=> g \in Serving(x)
                              /\ g \in Serving(x) => Peer(g)' = Peer(g)
  BY ServingNext
<1>6. Serving(x) \subseteq End /\ Serving(x)' \subseteq End
  BY DEF Serving, Sessions
<1>. QED
  BY <1>2, <1>3, <1>4, <1>6 DEF Others

\* It ceases to serve, and no other session is with its peer.
LEMMA OthersShrink ==
  ASSUME Base, Owned, NEW e \in End, SessionStep(e), NEW x \in End, Alive(x)',
         Owner(x) = Owner(e), x # e,
         session'[e].phase # "established", session[e].phase = "established"
  PROVE  Others(x)' = Others(x) \ {Peer(e)}
<1>0. Alive(e) /\ Owner(e) \in Server /\ Peer(e) \in Server /\ Owner(e) # Peer(e)
  BY StepShape, Servers DEF Base
<1>1. Owner(x)' = Owner(x)
  BY Survivor DEF Alive
<1>3. e \notin Serving(x)' /\ e \in Serving(x)
  BY <1>0 DEF Serving, Sessions
<1>4. \A g \in End : g # e => /\ g \in Serving(x)' <=> g \in Serving(x)
                              /\ g \in Serving(x) => Peer(g)' = Peer(g)
  BY ServingNext
<1>5. \A g \in Serving(x) : Peer(g) = Peer(e) => g = e
  <2>. SUFFICES ASSUME NEW g \in Serving(x), Peer(g) = Peer(e) PROVE g = e
    OBVIOUS
  <2>1. Owns(g, Owner(e), Peer(e)) /\ Owns(e, Owner(e), Peer(e)) /\ g \in End
    BY <1>0 DEF Serving, Sessions, Owns, OwnsBranch
  <2>. QED
    BY <1>0, <2>1 DEF Owned
<1>6. Serving(x) \subseteq End /\ Serving(x)' \subseteq End
  BY DEF Serving, Sessions
<1>. QED
  BY <1>3, <1>4, <1>5, <1>6 DEF Others

\* Only its own session can be with the peer of one that owns its branch, and
\* none is with a peer that has no branch.
LEMMA OthersOf ==
  ASSUME Base, Owned, NEW e \in End, Alive(e)
  PROVE  /\ OwnsBranch(e) \/ Route(tree[Owner(e)], Peer(e)) # Peer(e) => Peer(e) \notin Others(e)
         /\ \A x \in End : Owner(x) = Owner(e) /\ x # e =>
              /\ session[e].phase = "established" => Peer(e) \in Others(x)
              /\ session[e].phase = "admitted" \/ Route(tree[Owner(e)], Peer(e)) # Peer(e)
                   => Peer(e) \notin Others(x)
         /\ \A x \in End :
              /\ Alive(x) /\ Owner(x) = Owner(e) /\ x # e /\ OwnsBranch(x)
              /\ OwnsBranch(e) \/ Route(tree[Owner(e)], Peer(e)) # Peer(e)
              => Peer(x) # Peer(e)
<1>. DEFINE n == Owner(e)
            p == Peer(e)
<1>1. n \in Server /\ p \in Server \ {n}
  BY Servers DEF Base
<1>2. /\ \A f, g \in End : Owns(f, n, p) /\ Owns(g, n, p) => f = g
      /\ (\E f \in End : Owns(f, n, p)) <=> Route(tree[n], p) = p
  BY <1>1 DEF Owned
<1>3. OwnsBranch(e) => Owns(e, n, p)
  BY DEF Owns
<1>4. \A x \in End : Owner(x) = n => \A g \in Serving(x) :
        Peer(g) = p => Owns(g, n, p) /\ g \in End /\ session[g].phase = "established"
  BY DEF Serving, Sessions, Owns, OwnsBranch
<1>5. \A x \in End : Alive(x) /\ Owner(x) = n /\ OwnsBranch(x) /\ Peer(x) = p => Owns(x, n, p)
  BY DEF Owns
<1>. HIDE DEF n, p
<1>6. OwnsBranch(e) \/ Route(tree[n], p) # p => p \notin Others(e)
  <2>. SUFFICES ASSUME OwnsBranch(e) \/ Route(tree[n], p) # p, p \in Others(e) PROVE FALSE
    OBVIOUS
  <2>1. PICK g \in Serving(e) : Peer(g) = p
    BY DEF Others
  <2>2. Owns(g, n, p) /\ g \in End /\ g # e
    BY <1>4, <2>1 DEF Serving, n
  <2>. QED
    BY <1>2, <1>3, <2>2
<1>7. ASSUME NEW x \in End, Owner(x) = n, x # e
      PROVE  /\ session[e].phase = "established" => p \in Others(x)
             /\ session[e].phase = "admitted" \/ Route(tree[n], p) # p => p \notin Others(x)
  <2>1. session[e].phase = "established" => e \in Serving(x)
    BY <1>7 DEF Serving, Sessions, n
  <2>2. ASSUME session[e].phase = "admitted" \/ Route(tree[n], p) # p, p \in Others(x)
        PROVE  FALSE
    <3>1. PICK g \in Serving(x) : Peer(g) = p
      BY <2>2 DEF Others
    <3>2. Owns(g, n, p) /\ g \in End /\ session[g].phase = "established"
      BY <1>4, <1>7, <3>1
    <3>3. session[e].phase = "admitted" => Owns(e, n, p)
      BY <1>3 DEF OwnsBranch
    <3>. QED
      BY <1>2, <2>2, <3>2, <3>3
  <2>. QED
    BY <2>1, <2>2 DEF Others, p
<1>8. ASSUME NEW x \in End, Alive(x), Owner(x) = n, x # e, OwnsBranch(x),
             OwnsBranch(e) \/ Route(tree[n], p) # p
      PROVE  Peer(x) # p
  BY <1>2, <1>3, <1>5, <1>8
<1>. QED
  BY <1>6, <1>7, <1>8 DEF n, p

\* The branches of the other sessions stay as they are.
LEMMA SeenKept ==
  ASSUME Base, Owned, NEW e \in End, SessionStep(e),
         \A m \in Server : m # Owner(e) => tree'[m] = tree[m],
         \A q : q # Peer(e) => BranchOf(tree'[Owner(e)], q) = BranchOf(tree[Owner(e)], q),
         OwnsBranch(e) \/ Route(tree[Owner(e)], Peer(e)) # Peer(e) \/ UNCHANGED tree,
         NEW x \in End, Alive(x)', x # e
  PROVE  Seen(x)' = Seen(x)
<1>1. Alive(x) /\ Owner(x)' = Owner(x) /\ Peer(x)' = Peer(x) /\ Alive(e)
  BY Survivor, StepShape DEF Alive
<1>2. OwnsBranch(x)' <=> OwnsBranch(x)
  BY PhasesKept DEF OwnsBranch
<1>3. Owner(x) \in Server
  BY <1>1, Servers DEF Base
<1>4. OwnsBranch(x) => BranchOf(tree'[Owner(x)], Peer(x)) = BranchOf(tree[Owner(x)], Peer(x))
  <2>1. CASE Owner(x) # Owner(e)
    BY <1>3, <2>1
  <2>2. CASE UNCHANGED tree
    BY <2>2
  <2>3. CASE /\ Owner(x) = Owner(e)
             /\ OwnsBranch(e) \/ Route(tree[Owner(e)], Peer(e)) # Peer(e)
    <3>1. OwnsBranch(x) => Peer(x) # Peer(e)
      BY <1>1, <2>3, OthersOf
    <3>. QED
      BY <2>3, <3>1
  <2>. QED
    BY <2>1, <2>2, <2>3
<1>. QED
  BY <1>1, <1>2, <1>4 DEF Seen

\* So is what they have to tell, if what they show does.
LEMMA ToldKept ==
  ASSUME Base, NEW e \in End, SessionStep(e), NEW x \in End, Alive(x)',
         session'[x].phase = "new" <=> session[x].phase = "new",
         \/ session[x].phase = "new"
         \/ Shown(tree'[Owner(x)], Owner(x), Others(x)') = Shown(tree[Owner(x)], Owner(x), Others(x))
  PROVE  Told(x)' = Told(x)
<1>1. Owner(x)' = Owner(x)
  BY Survivor DEF Alive
<1>. QED
  BY <1>1 DEF Told

\* Generations are counted by Bump only, and only for sessions of the server
\* that are still to be admitted.
LEMMA BumpBehind ==
  ASSUME NEW ss \in [End -> Session], NEW n
  PROVE  \A f \in End : Bump(n, ss)[f].behind =
           IF ss[f].phase \in {"hello", "admitted"} /\ Owner(f) = n
           THEN IF ss[f].behind = 2 THEN 2 ELSE ss[f].behind + 1 ELSE ss[f].behind
<1>. SUFFICES ASSUME NEW f \in End
              PROVE  Bump(n, ss)[f].behind =
                       IF ss[f].phase \in {"hello", "admitted"} /\ Owner(f) = n
                       THEN IF ss[f].behind = 2 THEN 2 ELSE ss[f].behind + 1 ELSE ss[f].behind
  OBVIOUS
<1>1. ss[f] \in Session
  OBVIOUS
<1>2. Bump(n, ss)[f] = IF ss[f].phase \in {"hello", "admitted"} /\ Owner(f) = n
        THEN [ss[f] EXCEPT !.behind = IF @ = 2 THEN 2 ELSE @ + 1] ELSE ss[f]
  BY DEF Bump
<1>. QED
  BY <1>1, <1>2 DEF Session

LEMMA ClosingBehind ==
  ASSUME NEW ss \in [End -> Session], NEW F, NEW w
  PROVE  \A f \in End : Closing(ss, F, w)[f].behind = ss[f].behind
<1>. SUFFICES ASSUME NEW f \in End PROVE Closing(ss, F, w)[f].behind = ss[f].behind
  OBVIOUS
<1>1. ss[f] \in Session
  OBVIOUS
<1>. QED
  BY <1>1 DEF Closing, Session

\* Two sessions of a server do not come to be admitted at the same time.
LEMMA WaitingNext ==
  ASSUME Base, OneWaiting, NEW e \in End, SessionStep(e),
         Waiting(e)' => \/ Waiting(e)
                        \/ \A f \in End : f # e /\ Owner(f) = Owner(e) => ~Waiting(f)'
  PROVE  OneWaiting'
<1>. SUFFICES ASSUME NEW f \in End, NEW g \in End, Waiting(f)', Waiting(g)', Owner(f)' = Owner(g)',
                     f # g
              PROVE  FALSE
  BY DEF OneWaiting
<1>1. Alive(f)' /\ Alive(g)'
  BY DEF Waiting, Alive
<1>2. Owner(f)' = Owner(f) /\ Owner(g)' = Owner(g)
  BY <1>1, Survivor DEF Alive
<1>3. \A x \in End : x # e /\ Waiting(x)' => Waiting(x)
  BY PhasesKept DEF Waiting
<1>. QED
  BY <1>2, <1>3 DEF OneWaiting

\* What the steps of admitted sessions keep together.
MirrorParts == Mirror /\ OneWaiting /\ Counted

\* Sessions that are given up tell nothing, and leave the others as they are.
LEMMA QuietMirror ==
  ASSUME Base, Owned, Shape', MirrorParts, NEW e \in End, SessionStep(e), UNCHANGED tree,
         ~Open(e)', session'[e].phase = session[e].phase,
         \A x \in End : session'[x].behind = session[x].behind,
         \A x \in End : Open(x)' => wire'[x] = wire[x]
  PROVE  MirrorParts'
<1>1. Shape /\ Mirror
  BY DEF Base, MirrorParts
<1>2. \A x \in End : /\ session'[x].phase = session[x].phase
                     /\ Open(x)' => Open(x) /\ x # e /\ Alive(x)'
  BY PhasesKept DEF Open, Alive
<1>3. \A x \in End : Open(x)' => Seen(x)' = Seen(x) /\ Told(x)' = Told(x)
  <2>. SUFFICES ASSUME NEW x \in End, Open(x)' PROVE Seen(x)' = Seen(x) /\ Told(x)' = Told(x)
    OBVIOUS
  <2>1. Alive(x)' /\ x # e
    BY <1>2
  <2>2. Seen(x)' = Seen(x)
    BY <2>1, SeenKept
  <2>3. Others(x)' = Others(x)
    BY <1>2, <2>1, OthersSame
  <2>. QED
    BY <1>2, <2>1, <2>2, <2>3, ToldKept
<1>4. \A x \in End : InStep(x)' <=> InStep(x)
  BY <1>2 DEF InStep
<1>5. Mirror'
  <2>. DEFINE from == {}
              msgs == <<>>
  <2>1. msgs \in Seq(Msg)
    OBVIOUS
  <2>2. \A x \in End : Open(x)' /\ x # e =>
           /\ Open(x) /\ Seen(x)' = Seen(x)
           /\ wire'[x] = IF Other(x) \in from THEN wire[x] \o msgs ELSE wire[x]
    BY <1>2, <1>3
  <2>3. \A g \in End : Open(g)' /\ InStep(g)' =>
           Open(g) /\ InStep(g) /\ (g \notin from => Told(g)' = Told(g))
    BY <1>2, <1>3, <1>4
  <2>4. \A g \in End : g \notin from
    OBVIOUS
  <2>. HIDE DEF from, msgs
  <2>. QED
    BY <1>1, <2>1, <2>2, <2>3, <2>4, MirrorStep
<1>6. OneWaiting'
  <2>1. ~Waiting(e)' \/ Waiting(e)
    BY <1>2 DEF Waiting
  <2>. QED
    BY <2>1, WaitingNext DEF MirrorParts
<1>7. Counted'
  BY <1>2 DEF MirrorParts, Counted
<1>. QED
  BY <1>5, <1>6, <1>7 DEF MirrorParts

\* fail() on one session.
LEMMA FailMirror ==
  ASSUME Base, Owned, Shape', MirrorParts, NEW e \in End, SessionStep(e), UNCHANGED tree, Open(e),
         NEW w \in 0 .. MaxDials, session' = Closing(session, {e}, w), wire' = Cut(wire, {e})
  PROVE  MirrorParts'
<1>1. session \in [End -> Session] /\ wire \in [End -> Seq(Msg)]
  BY DEF Base, Shape
<1>2. session'[e].phase = session[e].phase /\ session'[e].closing
  BY <1>1, ClosingAt
<1>3. ~Open(e)'
  BY <1>2 DEF Open
<1>4. \A x \in End : session'[x].behind = session[x].behind
  BY <1>1, ClosingBehind
<1>5. \A x \in End : Open(x)' => wire'[x] = wire[x]
  <2>1. \A x \in End : x # e => wire'[x] = wire[x]
    BY <1>1, CutAt
  <2>. QED
    BY <1>3, <2>1
<1>. QED
  BY <1>2, <1>3, <1>4, <1>5, QuietMirror

\* A timeout or a transport error.
LEMMA BreakMirror ==
  ASSUME Base, Owned, MirrorParts, NEW e \in End, Break(e)
  PROVE  MirrorParts'
<1>1. SessionStep(e) /\ Shape'
  BY BreakSound DEF Sound
<1>2. 0 \in 0 .. MaxDials
  BY LinksAssumption
<1>. QED
  BY <1>1, <1>2, FailMirror DEF Break, Fail

\* Every branch has its head, who is directly linked.
LEMMA HeadsRoute ==
  ASSUME NEW t, NEW local \in Server, TreeOK(t, local), NEW s \in Known(t), s # local
  PROVE  /\ Route(t, s) \in Server \ {local}
         /\ Route(t, Route(t, s)) = Route(t, s)
<1>. DEFINE q == t[s].peer
            S == {x \in Known(t) : t[x].peer = q}
<1>1. Route(t, s) = q /\ q \in Known(t) \ {local} /\ Known(t) \subseteq Server /\ NoServer \notin Known(t)
  BY TreeFacts
<1>2. \A x \in S : x # local
  <2>1. t[local].peer = NoServer
    BY TreeFacts
  <2>. QED
    BY <1>1, <2>1
<1>3. S \in SUBSET (Known(t) \ {local}) /\ S # {}
  BY <1>2
<1>4. PICK x \in S : t[x].parent \notin S
  BY <1>3 DEF TreeOK, NoCycle
<1>5. /\ t[x].parent \in Known(t)
      /\ t[x].parent = local <=> t[x].peer = x
      /\ t[x].parent # local => t[t[x].parent].peer = t[x].peer
      /\ t[x].peer = q
  BY <1>3, <1>4, TreeFacts
<1>6. t[q].peer = q
  BY <1>4, <1>5
<1>7. Route(t, q) = q
  BY <1>1, <1>6, TreeFacts
<1>. QED
  BY <1>1, <1>7

\* What is in a message.
LEMMA MessageParts ==
  /\ Hello.op = "hello" /\ Ready.op = "ready"
  /\ \A t : Snapshot(t).op = "snapshot" /\ Snapshot(t).nodes = [s \in Known(t) |-> t[s].parent]
  /\ \A s, p : Introduce(s, p).op = "introduce" /\ Introduce(s, p).node = s /\ Introduce(s, p).parent = p
  /\ \A s : Withdraw(s).op = "withdraw" /\ Withdraw(s).node = s
  BY DEF Hello, Ready, Snapshot, Introduce, Withdraw, Message

\* The answer to a hello tells the whole tree: no branch is still being
\* admitted.
LEMMA AnswerTells ==
  ASSUME Base, Owned, NEW e \in End, Alive(e), session[e].phase = "new",
         NEW F, ~Joining(e, F)
  PROVE  /\ Answer(e) \in Seq(Msg)
         /\ Follows(NoNodes, Answer(e), Shown(tree[Owner(e)], Owner(e), Others(e)))
<1>. DEFINE n == Owner(e)
            t == tree[n]
            w == Shown(t, n, Others(e))
<1>1. n \in Server
  BY Servers DEF Base
<1>2. TreeOK(t, n)
  BY <1>1 DEF Base, TreesInv, TreesSound
<1>3. ASSUME NEW s \in Known(t), s # n PROVE Route(t, s) \in Others(e)
  <2>. DEFINE q == Route(t, s)
  <2>1. q \in Server \ {n} /\ Route(t, q) = q
    BY <1>1, <1>2, <1>3, HeadsRoute
  <2>2. PICK g \in End : Owns(g, n, q)
    BY <1>1, <2>1 DEF Owned
  <2>3. g \in Sessions(n) \ {e} /\ Peer(g) = q /\ session[g].phase \in {"admitted", "established"}
    BY <2>2 DEF Owns, OwnsBranch, Sessions
  <2>4. session[g].phase # "admitted"
    BY <2>3 DEF Joining
  <2>. QED
    BY <2>3, <2>4 DEF Others, Serving
<1>4. w = [s \in Known(t) |-> t[s].parent]
  <2>1. {x \in Known(t) : x = n \/ Route(t, x) \in Others(e)} = Known(t)
    BY <1>3
  <2>. QED
    BY <2>1 DEF Shown
<1>5. w \in View /\ NoNodes \in View
  BY <1>1, <1>2, ViewsTyped
<1>6. Reads(NoNodes, Snapshot(t), w) /\ Reads(NoNodes, Hello, NoNodes)
  <2>1. Snapshot(t).op = "snapshot" /\ Snapshot(t).nodes = w /\ Hello.op = "hello"
    BY <1>4, MessageParts
  <2>. QED
    BY <2>1 DEF Reads
<1>7. Hello \in Msg /\ Snapshot(t) \in Msg
  BY <1>1, MessagesTyped DEF Base
<1>. DEFINE h == Hello
            s == Snapshot(t)
<1>8. Follows(NoNodes, <<s>>, w) /\ Follows(NoNodes, <<h>>, NoNodes)
  BY <1>5, <1>6, FollowsOne
<1>9. Answer(e) = IF e[2] = "in" THEN <<h, s>> ELSE <<s>>
  BY DEF Answer
<1>. HIDE DEF h, s, w, Msg
<1>10. <<h>> \in Seq(Msg) /\ <<s>> \in Seq(Msg) /\ <<h, s>> = <<h>> \o <<s>> /\ <<h, s>> \in Seq(Msg)
  BY <1>7 DEF h, s
<1>11. Follows(NoNodes, <<h, s>>, w)
  <2>1. Follows(NoNodes, <<h>> \o <<s>>, w)
    BY <1>8, <1>10, FollowsMore
  <2>. QED
    BY <1>10, <2>1
<1>. QED
  BY <1>8, <1>9, <1>10, <1>11 DEF w

\* handle_hello.
LEMMA HelloMirror ==
  ASSUME Base, Owned, MirrorParts, NEW e \in End, handle_hello(e)
  PROVE  MirrorParts'
<1>. DEFINE n == Owner(e)
            p == Peer(e)
            others == Closing(session, Rival(e), e[1])
            cut == Cut(Taken(e), Rival(e))
<1>1. /\ wire[e] # <<>> /\ Head(wire[e]).op = "hello"
      /\ UNCHANGED <<tree, blocked, ends, dialed, breaks>>
  BY DEF handle_hello, Received
<1>2. Open(e) /\ Alive(e) /\ e[1] \in 0 .. MaxDials /\ 0 \in 0 .. MaxDials
  BY <1>1, Receiving, LinksAssumption DEF Base, End, Socket
<1>3. SessionStep(e) /\ Shape'
  BY HelloSound DEF Sound
<1>4. session \in [End -> Session] /\ wire \in [End -> Seq(Msg)]
  BY DEF Base, Shape
<1>5. CASE Fail(e) /\ UNCHANGED current
  BY <1>1, <1>2, <1>3, <1>5, FailMirror DEF Fail
<1>6. CASE /\ \E f \in Rival(e) : LosesTo(e, f)
           /\ session' = Closing(session, {e}, current[n][p])
           /\ wire' = Cut(wire, {e})
           /\ UNCHANGED current
  <2>1. current[n][p] \in 0 .. MaxDials
    <3>1. PICK f \in Rival(e) : TRUE
      BY <1>6
    <3>2. f \in End /\ f[1] = current[n][p]
      BY <1>2, <3>1, RivalsElsewhere DEF Base
    <3>. QED
      BY <3>2 DEF End, Socket
  <2>. QED
    BY <1>1, <1>2, <1>3, <1>6, <2>1, FailMirror
<1>7. /\ others \in [End -> Session] /\ cut \in [End -> Seq(Msg)]
      /\ others[e] = session[e]
      /\ \A f \in Rival(e) : f \in End /\ f # e /\ others[f].closing
      /\ \A f \in End : f # e /\ f \notin Rival(e) =>
           others[f] = session[f] /\ cut[f] = wire[f]
  BY <1>1, SupersedeEffect DEF Base
<1>8. \A f \in End : others[f].behind = session[f].behind
  BY <1>4, ClosingBehind
<1>9. cut[e] = Tail(wire[e])
  <2>1. e \notin Rival(e)
    BY DEF Rival
  <2>2. Taken(e) \in [End -> Seq(Msg)] /\ Taken(e)[e] = Tail(wire[e])
    BY <1>1, <1>4, Receiving DEF Base, Taken
  <2>. DEFINE w == Taken(e)
  <2>3. w \in [End -> Seq(Msg)] /\ w[e] = Tail(wire[e])
    BY <2>2
  <2>. HIDE DEF w
  <2>4. Cut(w, Rival(e))[e] = w[e]
    BY <2>1 DEF Cut
  <2>. QED
    BY <2>3, <2>4 DEF w
<1>10. CASE /\ session' = Closing(others, {e}, 0)
            /\ wire' = Cut(cut, {e})
            /\ UNCHANGED current
  <2>. HIDE DEF others, cut
  <2>1. /\ session'[e].phase = others[e].phase /\ session'[e].closing
        /\ \A f \in End : f # e => session'[f] = others[f]
        /\ \A f \in End : session'[f].behind = others[f].behind
    <3>. DEFINE T == Closing(others, {e}, 0)
    <3>1. others \in [End -> Session] /\ e \in {e}
      BY <1>7
    <3>2. /\ \A f \in End : f \notin {e} => T[f] = others[f]
          /\ \A f \in End : f \in {e} => T[f].phase = others[f].phase /\ T[f].closing
      BY <1>2, <3>1, ClosingAt
    <3>3. \A f \in End : T[f].behind = others[f].behind
      BY <3>1, ClosingBehind
    <3>4. session' = T
      BY <1>10
    <3>. HIDE DEF T
    <3>. QED
      BY <3>2, <3>3, <3>4
  <2>2. \A f \in End : f # e => wire'[f] = cut[f]
    BY <1>7, <1>10, CutAt
  <2>3. ~Open(e)' /\ session'[e].phase = session[e].phase
    BY <1>7, <2>1 DEF Open
  <2>4. \A x \in End : session'[x].behind = session[x].behind
    BY <1>8, <2>1
  <2>5. \A x \in End : Open(x)' => wire'[x] = wire[x]
    BY <1>7, <2>1, <2>2, <2>3 DEF Open
  <2>. QED
    BY <1>1, <1>3, <2>3, <2>4, <2>5, QuietMirror
<1>11. CASE /\ session[e].phase = "new"
            /\ ~Joining(e, Rival(e))
            /\ session' = [others EXCEPT ![e].phase = "hello"]
            /\ wire' = Send(cut, {e}, Answer(e))
            /\ current' = [current EXCEPT ![n][p] = e[1]]
  <2>1. /\ Answer(e) \in Seq(Msg)
        /\ Follows(NoNodes, Answer(e), Shown(tree[n], n, Others(e)))
    BY <1>2, <1>11, AnswerTells
  <2>. HIDE DEF others, cut
  <2>2. /\ session'[e].phase = "hello"
        /\ session'[e].behind = session[e].behind
        /\ \A f \in End : f # e => session'[f] = others[f]
    <3>1. others[e] \in Session /\ session'[e] = [others[e] EXCEPT !.phase = "hello"]
      BY <1>7, <1>11
    <3>. QED
      BY <1>7, <1>8, <1>11, <3>1 DEF Session
  <2>3. \A x \in End : /\ session'[x].behind = session[x].behind
                       /\ x # e => session'[x].phase = session[x].phase
                       /\ Open(x)' => /\ Open(x) /\ Alive(x)' /\ x \notin Rival(e)
                                      /\ x # e => cut[x] = wire[x]
    <3>. SUFFICES ASSUME NEW x \in End
                  PROVE  /\ session'[x].behind = session[x].behind
                         /\ x # e => session'[x].phase = session[x].phase
                         /\ Open(x)' => /\ Open(x) /\ Alive(x)' /\ x \notin Rival(e)
                                        /\ x # e => cut[x] = wire[x]
      OBVIOUS
    <3>1. session'[x].behind = session[x].behind
      BY <1>8, <2>2
    <3>2. x # e => session'[x].phase = session[x].phase /\ (Open(x)' => Open(x))
      BY <1>3, PhasesKept
    <3>3. Open(x)' => x \notin Rival(e)
      BY <1>7, <2>2 DEF Open
    <3>. QED
      BY <1>2, <1>7, <3>1, <3>2, <3>3 DEF Open
  <2>4. ~OwnsBranch(e) /\ ~OwnsBranch(e)'
    BY <1>11, <2>2 DEF OwnsBranch
  <2>5. \A x \in End : Open(x)' => Others(x)' = Others(x)
    BY <1>3, <1>11, <2>2, <2>3, OthersSame
  <2>6. Open(e)'
    BY <1>2, <1>7, <2>2, <1>11 DEF Open, Alive, Session
  <2>7. Other(e) \in End /\ Other(e) # e
    BY TwoEnds
  <2>8. \A x \in End : wire'[x] = IF Other(x) \in {e} /\ Open(x) THEN cut[x] \o Answer(e) ELSE cut[x]
    BY <1>11 DEF Send
  <2>9. \A x \in End : Open(x)' /\ x # e =>
           /\ Open(x) /\ Seen(x)' = Seen(x)
           /\ wire'[x] = IF Other(x) \in {e} THEN wire[x] \o Answer(e) ELSE wire[x]
    <3>. SUFFICES ASSUME NEW x \in End, Open(x)', x # e
                  PROVE  /\ Open(x) /\ Seen(x)' = Seen(x)
                         /\ wire'[x] = IF Other(x) \in {e} THEN wire[x] \o Answer(e) ELSE wire[x]
      OBVIOUS
    <3>1. Seen(x)' = Seen(x)
      BY <1>1, <1>3, <2>3, SeenKept
    <3>. QED
      BY <2>3, <2>8, <3>1
  <2>10. /\ Open(e) /\ Other(e) \notin {e} /\ wire[e] # <<>> /\ wire'[e] = Tail(wire[e])
         /\ \A u \in View : Reads(Seen(e), Head(wire[e]), u) => Seen(e)' = u
    <3>1. Seen(e) = NoNodes /\ Seen(e)' = NoNodes
      BY <2>4 DEF Seen
    <3>2. \A u : Reads(NoNodes, Head(wire[e]), u) => u = NoNodes
      BY <1>1 DEF Reads
    <3>. QED
      BY <1>1, <1>2, <1>9, <2>7, <2>8, <3>1, <3>2
  <2>11. \A g \in End : Open(g)' /\ InStep(g)' =>
           Open(g) /\ InStep(g) /\ (g \notin {e} => Told(g)' = Told(g))
    <3>. SUFFICES ASSUME NEW g \in End, Open(g)', InStep(g)'
                  PROVE  Open(g) /\ InStep(g) /\ (g # e => Told(g)' = Told(g))
      OBVIOUS
    <3>1. Open(g) /\ Alive(g)'
      BY <2>3
    <3>2. CASE g = e
      BY <1>11, <3>1, <3>2 DEF InStep
    <3>3. CASE g # e
      <4>1. session'[g].phase = session[g].phase /\ session'[g].behind = session[g].behind
        BY <2>3, <3>3
      <4>2. Told(g)' = Told(g)
        BY <1>1, <1>3, <2>5, <3>1, <4>1, ToldKept
      <4>. QED
        BY <3>1, <4>1, <4>2 DEF InStep
    <3>. QED
      BY <3>2, <3>3
  <2>12. \A g \in End : g \in {e} =>
           Open(g) /\ InStep(g) /\ Follows(Told(g), Answer(e), Told(g)')
    <3>1. InStep(e) /\ Told(e) = NoNodes
      BY <1>11 DEF InStep, Told
    <3>2. Owner(e)' = n
      BY <1>1 DEF Owner
    <3>3. Told(e)' = Shown(tree[n], n, Others(e))
      BY <1>1, <2>2, <2>5, <2>6, <3>2 DEF Told
    <3>. QED
      BY <1>2, <2>1, <3>1, <3>3
  <2>13. Mirror'
    <3>. DEFINE from == {e}
                msgs == Answer(e)
    <3>1. /\ Shape /\ Mirror /\ msgs \in Seq(Msg)
          /\ \A x \in End : Open(x)' /\ x # e =>
               /\ Open(x) /\ Seen(x)' = Seen(x)
               /\ wire'[x] = IF Other(x) \in from THEN wire[x] \o msgs ELSE wire[x]
          /\ Open(e)' =>
               /\ Open(e) /\ Other(e) \notin from /\ wire[e] # <<>> /\ wire'[e] = Tail(wire[e])
               /\ \A u \in View : Reads(Seen(e), Head(wire[e]), u) => Seen(e)' = u
          /\ \A g \in End : Open(g)' /\ InStep(g)' =>
               Open(g) /\ InStep(g) /\ (g \notin from => Told(g)' = Told(g))
          /\ \A g \in End : g \in from =>
               Open(g) /\ InStep(g) /\ Follows(Told(g), msgs, Told(g)')
      BY <2>1, <2>9, <2>10, <2>11, <2>12 DEF Base, MirrorParts
    <3>. HIDE DEF from, msgs
    <3>. QED
      BY <1>3, <3>1, MirrorStep
  <2>14. OneWaiting'
    <3>1. ASSUME NEW f \in End, f # e, Owner(f) = n PROVE ~Waiting(f)'
      <4>1. session'[f].phase = session[f].phase /\ (Open(f)' => Open(f) /\ f \notin Rival(e))
        BY <2>3, <3>1
      <4>2. session[f].phase # "gone" => f \in Sessions(n) \ {e}
        BY <3>1 DEF Sessions, Alive
      <4>3. session[f].phase # "admitted"
        BY <1>11, <4>2 DEF Joining
      <4>4. session[f].phase = "hello" /\ Open(f) => f \in Rival(e)
        BY <1>11, <4>2 DEF Joining
      <4>. QED
        BY <4>1, <4>3, <4>4 DEF Waiting
    <3>. QED
      BY <1>3, <3>1, WaitingNext DEF MirrorParts
  <2>15. Counted'
    BY <2>2, <2>3 DEF MirrorParts, Counted
  <2>. QED
    BY <2>13, <2>14, <2>15 DEF MirrorParts
<1>. QED
  BY <1>5, <1>6, <1>10, <1>11, Zenon DEF handle_hello

\* A handler that sends what has changed to the sessions of from.
LEMMA SendingMirror ==
  ASSUME Base, Owned, Shape', MirrorParts, NEW e \in End, SessionStep(e), wire[e] # <<>>,
         NEW from, NEW msgs \in Seq(Msg), Other(e) \notin from,
         wire' = Send(Taken(e), from, msgs),
         \A m \in Server : m # Owner(e) => tree'[m] = tree[m],
         \A q : q # Peer(e) => BranchOf(tree'[Owner(e)], q) = BranchOf(tree[Owner(e)], q),
         OwnsBranch(e) \/ Route(tree[Owner(e)], Peer(e)) # Peer(e) \/ UNCHANGED tree,
         \A u \in View : Reads(Seen(e), Head(wire[e]), u) => Seen(e)' = u,
         \A g \in End : Open(g)' /\ InStep(g)' =>
           Open(g) /\ InStep(g) /\ (g \notin from => Told(g)' = Told(g)),
         \A g \in End : g \in from =>
           Open(g) /\ InStep(g) /\ Follows(Told(g), msgs, Told(g)')
  PROVE  Mirror'
<1>1. /\ Open(e) /\ Taken(e)[e] = Tail(wire[e])
      /\ \A f \in End : f # e => Taken(e)[f] = wire[f]
  BY Receiving DEF Base, Shape, Taken
<1>2. ASSUME NEW x \in End, Open(x)', x # e
      PROVE  /\ Open(x) /\ Seen(x)' = Seen(x)
             /\ wire'[x] = IF Other(x) \in from THEN wire[x] \o msgs ELSE wire[x]
  <2>1. Open(x) /\ Alive(x)'
    BY <1>2, PhasesKept DEF Open
  <2>2. Seen(x)' = Seen(x)
    BY <1>2, <2>1, SeenKept
  <2>3. wire'[x] = IF Other(x) \in from /\ Open(x) THEN Taken(e)[x] \o msgs ELSE Taken(e)[x]
    BY DEF Send
  <2>. QED
    BY <1>1, <1>2, <2>1, <2>2, <2>3
<1>3. wire'[e] = Tail(wire[e])
  BY <1>1 DEF Send
<1>4. Shape /\ Mirror
  BY DEF Base, MirrorParts
<1>. QED
  BY <1>1, <1>2, <1>3, <1>4, MirrorStep

\* A session that is still to be admitted when its server's tree changes is
\* out of date from then on; the others are as they were.
LEMMA BumpedInStep ==
  ASSUME Base, MirrorParts, NEW e \in End, SessionStep(e),
         NEW ss \in [End -> Session],
         \A f \in End : f # e => ss[f].phase = session[f].phase /\ ss[f].behind = session[f].behind,
         \A f \in End : f # e => session'[f] = Bump(Owner(e), ss)[f],
         NEW g \in End, g # e, InStep(g)'
  PROVE  /\ InStep(g) /\ session'[g].phase = session[g].phase
         /\ Owner(g) = Owner(e) => session[g].phase \in {"new", "established"}
<1>1. session'[g].phase = session[g].phase
  BY PhasesKept
<1>2. session'[g].behind =
        IF session[g].phase \in {"hello", "admitted"} /\ Owner(g) = Owner(e)
        THEN IF session[g].behind = 2 THEN 2 ELSE session[g].behind + 1 ELSE session[g].behind
  <2>. DEFINE n == Owner(e)
  <2>. HIDE DEF n
  <2>1. Bump(n, ss)[g].behind =
          IF ss[g].phase \in {"hello", "admitted"} /\ Owner(g) = n
          THEN IF ss[g].behind = 2 THEN 2 ELSE ss[g].behind + 1 ELSE ss[g].behind
    BY BumpBehind
  <2>2. session'[g] = Bump(n, ss)[g]
    BY DEF n
  <2>. QED
    BY <2>1, <2>2 DEF n
<1>3. session[g].behind \in 0 .. 2 /\ (session[g].phase = "admitted" => session[g].behind >= 1)
  BY DEF Base, Shape, Session, MirrorParts, Counted
<1>. QED
  BY <1>1, <1>2, <1>3 DEF InStep

LEMMA BumpedCounted ==
  ASSUME Base, MirrorParts, NEW e \in End, SessionStep(e),
         NEW ss \in [End -> Session],
         \A f \in End : f # e => ss[f].phase = session[f].phase /\ ss[f].behind = session[f].behind,
         \A f \in End : f # e => session'[f] = Bump(Owner(e), ss)[f],
         session'[e].phase = "admitted" => session'[e].behind >= 1
  PROVE  Counted'
<1>. SUFFICES ASSUME NEW g \in End, session'[g].phase = "admitted", g # e
              PROVE  session'[g].behind >= 1
  BY DEF Counted
<1>1. session'[g].phase = session[g].phase
  BY PhasesKept
<1>2. Bump(Owner(e), ss)[g].behind =
        IF ss[g].phase \in {"hello", "admitted"} /\ Owner(g) = Owner(e)
        THEN IF ss[g].behind = 2 THEN 2 ELSE ss[g].behind + 1 ELSE ss[g].behind
  <2>. DEFINE n == Owner(e)
  <2>. HIDE DEF n
  <2>1. Bump(n, ss)[g].behind =
          IF ss[g].phase \in {"hello", "admitted"} /\ Owner(g) = n
          THEN IF ss[g].behind = 2 THEN 2 ELSE ss[g].behind + 1 ELSE ss[g].behind
    BY BumpBehind
  <2>. QED
    BY <2>1 DEF n
<1>3. session[g].behind \in 0 .. 2 /\ session[g].behind >= 1
  BY <1>1 DEF Base, Shape, Session, MirrorParts, Counted
<1>4. session'[g].behind = Bump(Owner(e), ss)[g].behind /\ ss[g].behind = session[g].behind
  OBVIOUS
<1>. QED
  BY <1>2, <1>3, <1>4

\* handle_snapshot.
LEMMA SnapshotMirror ==
  ASSUME Base, Owned, MirrorParts, NEW e \in End, handle_snapshot(e)
  PROVE  MirrorParts'
<1>. DEFINE n == Owner(e)
            p == Peer(e)
            nodes == Head(wire[e]).nodes
            bumped == Bump(n, session)
<1>1. wire[e] # <<>> /\ Head(wire[e]).op = "snapshot" /\ UNCHANGED <<current, blocked, ends, dialed, breaks>>
  BY DEF handle_snapshot, Received
<1>2. Open(e) /\ Alive(e) /\ nodes \in View /\ 0 \in 0 .. MaxDials
  BY <1>1, Receiving, LinksAssumption DEF Base, Msg, View
<1>3. SessionStep(e) /\ Shape'
  BY SnapshotSound DEF Sound
<1>4. n \in Server /\ p \in Server /\ n # p
  BY <1>2, Servers DEF Base
<1>5. CASE Fail(e) /\ UNCHANGED tree
  BY <1>2, <1>3, <1>5, FailMirror DEF Fail
<1>6. CASE /\ session[e].phase = "hello" /\ UnchangedSince(e, 0)
           /\ CanAttach(tree[n], p, nodes)
           /\ tree' = [tree EXCEPT ![n] = Attach(tree[n], n, p, nodes)]
           /\ session' = [bumped EXCEPT ![e].phase = "admitted"]
           /\ wire' = Send(Taken(e), {e}, <<Ready>>)
  <2>. DEFINE T == Attach(tree[n], n, p, nodes)
              from == {e}
              msgs == <<Ready>>
  <2>1. TreeOK(tree[n], n) /\ tree = [m \in Server |-> tree[m]]
    BY <1>4 DEF Base, TreesInv, TreesSound
  <2>2. tree'[n] = T /\ \A m \in Server : m # n => tree'[m] = tree[m]
    BY <1>4, <1>6, <2>1
  <2>3. /\ BranchOf(T, p) = nodes
        /\ \A q : q # p => BranchOf(T, q) = BranchOf(tree[n], q)
        /\ \A H : p \notin H => Shown(T, n, H) = Shown(tree[n], n, H)
    BY <1>2, <1>4, <1>6, <2>1, AttachViews
  <2>4. Route(tree[n], p) # p
    BY <1>4, <1>6, LinkTreeAssumption DEF CanAttach, Route
  <2>5. /\ bumped \in [End -> Session] /\ bumped[e].behind = 1
        /\ bumped[e].closing = session[e].closing
    <3>. HIDE DEF n
    <3>1. session \in [End -> Session]
      BY DEF Base, Shape
    <3>2. bumped[e].behind = IF session[e].phase \in {"hello", "admitted"} /\ Owner(e) = n
                             THEN IF session[e].behind = 2 THEN 2 ELSE session[e].behind + 1
                             ELSE session[e].behind
      BY <3>1, BumpBehind
    <3>3. bumped \in [End -> Session] /\ bumped[e].closing = session[e].closing
      BY <3>1, BumpAt
    <3>4. session[e].phase = "hello" /\ session[e].behind = 0
      BY <1>6 DEF UnchangedSince
    <3>. QED
      BY <3>2, <3>3, <3>4 DEF n
  <2>6. msgs \in Seq(Msg) /\ Ready \in Msg
    BY MessagesTyped DEF Base
  <2>. HIDE DEF T, bumped, msgs
  <2>7. /\ session'[e].phase = "admitted" /\ session'[e].behind = 1
        /\ session'[e].closing = session[e].closing
        /\ \A f \in End : f # e => session'[f] = bumped[f]
    <3>1. bumped[e] \in Session /\ session'[e] = [bumped[e] EXCEPT !.phase = "admitted"]
      BY <1>6, <2>5
    <3>. QED
      BY <1>6, <2>5, <3>1 DEF Session
  <2>8. Alive(e)' /\ Open(e)'
    BY <1>2, <2>7 DEF Alive, Open
  <2>9. /\ Owner(e)' = n /\ Peer(e)' = p
        /\ session[e].phase = "hello" /\ session[e].behind = 0
    BY <1>3, <1>6, <2>8, Survivor DEF Alive, UnchangedSince
  <2>10. \A g \in End : Alive(g)' => Others(g)' = Others(g)
    BY <1>3, <2>7, <2>9, OthersSame
  <2>11. /\ p \notin Others(e)
         /\ \A g \in End : Owner(g) = n /\ g # e => p \notin Others(g)
    BY <1>2, <2>4, OthersOf
  <2>12. Told(e)' = Told(e) /\ Told(e) \in View
    <3>1. Shown(tree'[n], n, Others(e)') = Shown(tree[n], n, Others(e))
      BY <2>2, <2>3, <2>8, <2>10, <2>11
    <3>2. Told(e) = Shown(tree[n], n, Others(e)) /\ Told(e)' = Shown(tree'[n], n, Others(e)')
      BY <2>7, <2>9 DEF Told
    <3>3. Told(e) \in View
      BY <1>4, <2>1, <3>2, ViewsTyped
    <3>. QED
      BY <3>1, <3>2, <3>3
  <2>13. Follows(Told(e), msgs, Told(e)')
    <3>1. Reads(Told(e), Ready, Told(e))
      BY MessageParts DEF Reads
    <3>. QED
      BY <2>12, <3>1, FollowsOne DEF msgs
  <2>14. ASSUME NEW g \in End, g # e, InStep(g)'
         PROVE  /\ InStep(g) /\ session'[g].phase = session[g].phase
                /\ Owner(g) = n => session[g].phase \in {"new", "established"}
    <3>1. session \in [End -> Session] /\ \A f \in End : f # e => session'[f] = Bump(Owner(e), session)[f]
      BY <2>7 DEF Base, Shape, bumped
    <3>. QED
      BY <1>3, <2>14, <3>1, BumpedInStep
  <2>15. ASSUME NEW g \in End, Open(g)', InStep(g)'
         PROVE  Open(g) /\ InStep(g) /\ (g \notin from => Told(g)' = Told(g))
    <3>1. CASE g = e
      BY <1>2, <2>9, <3>1 DEF InStep
    <3>2. CASE g # e
      <4>1. Open(g) /\ Alive(g)' /\ Alive(g)
        BY <1>3, <2>15, <3>2, PhasesKept DEF Open
      <4>2. /\ InStep(g) /\ session'[g].phase = session[g].phase
            /\ Owner(g) = n => session[g].phase \in {"new", "established"}
        BY <2>14, <2>15, <3>2
      <4>3. Others(g)' = Others(g) /\ Owner(g) \in Server
        BY <2>10, <4>1, Servers DEF Base
      <4>4. Shown(tree'[Owner(g)], Owner(g), Others(g)') = Shown(tree[Owner(g)], Owner(g), Others(g))
        <5>1. CASE Owner(g) = n
          BY <2>2, <2>3, <2>11, <3>2, <4>3, <5>1
        <5>2. CASE Owner(g) # n
          BY <2>2, <4>3, <5>2
        <5>. QED
          BY <5>1, <5>2
      <4>5. Told(g)' = Told(g)
        BY <1>3, <4>1, <4>2, <4>4, ToldKept
      <4>. QED
        BY <4>1, <4>2, <4>5
    <3>. QED
      BY <3>1, <3>2
  <2>16. \A u \in View : Reads(Seen(e), Head(wire[e]), u) => Seen(e)' = u
    <3>1. Seen(e) = NoNodes
      BY <2>9 DEF Seen, OwnsBranch
    <3>2. Seen(e)' = BranchOf(tree'[n], p)
      BY <2>7, <2>9 DEF Seen, OwnsBranch
    <3>3. \A u : Reads(NoNodes, Head(wire[e]), u) => u = nodes
      BY <1>1 DEF Reads
    <3>. QED
      BY <2>2, <2>3, <3>1, <3>2, <3>3
  <2>17. Other(e) \notin from
    BY TwoEnds
  <2>18. \A g \in End : g \in from => Open(g) /\ InStep(g) /\ Follows(Told(g), msgs, Told(g)')
    BY <1>2, <2>9, <2>13 DEF InStep
  <2>19. Mirror'
    <3>1. wire' = Send(Taken(e), from, msgs)
      BY <1>6 DEF msgs
    <3>2. /\ \A m \in Server : m # Owner(e) => tree'[m] = tree[m]
          /\ \A q : q # Peer(e) => BranchOf(tree'[Owner(e)], q) = BranchOf(tree[Owner(e)], q)
      BY <2>2, <2>3
    <3>. HIDE DEF from
    <3>. QED
      BY <1>1, <1>3, <2>4, <2>6, <2>15, <2>16, <2>17, <2>18, <3>1, <3>2, SendingMirror
  <2>20. OneWaiting'
    BY <1>2, <1>3, <2>9, WaitingNext DEF Waiting, MirrorParts
  <2>21. Counted'
    <3>1. session \in [End -> Session] /\ \A f \in End : f # e => session'[f] = Bump(Owner(e), session)[f]
      BY <2>7 DEF Base, Shape, bumped
    <3>2. session'[e].phase = "admitted" => session'[e].behind >= 1
      BY <2>7
    <3>. QED
      BY <1>3, <3>1, <3>2, BumpedCounted
  <2>. QED
    BY <2>19, <2>20, <2>21 DEF MirrorParts
<1>. QED
  BY <1>5, <1>6, Zenon DEF handle_snapshot

\* An established link applies a change to the branch of its peer and passes
\* it on to the other links.
LEMMA BroadcastMirror ==
  ASSUME Base, Owned, Shape', MirrorParts, NEW e \in End, SessionStep(e), wire[e] # <<>>,
         session[e].phase = "established", NEW T, NEW m \in Msg, m = Head(wire[e]),
         tree' = [tree EXCEPT ![Owner(e)] = T], TreeOK(T, Owner(e)),
         session' = Bump(Owner(e), session),
         wire' = Send(Taken(e), Audience(e), <<m>>),
         \A u \in View : Reads(BranchOf(tree[Owner(e)], Peer(e)), m, u) => BranchOf(T, Peer(e)) = u,
         \A q : q # Peer(e) => BranchOf(T, q) = BranchOf(tree[Owner(e)], q),
         \A H : Peer(e) \notin H => Shown(T, Owner(e), H) = Shown(tree[Owner(e)], Owner(e), H),
         \A H : Peer(e) \in H => Reads(Shown(tree[Owner(e)], Owner(e), H), m, Shown(T, Owner(e), H))
  PROVE  MirrorParts'
<1>. DEFINE n == Owner(e)
            p == Peer(e)
            t == tree[n]
            from == Audience(e)
            msgs == <<m>>
<1>1. Open(e) /\ Alive(e)
  BY Receiving DEF Base
<1>2. n \in Server /\ p \in Server /\ n # p
  BY <1>1, Servers DEF Base
<1>3. TreeOK(t, n) /\ tree = [k \in Server |-> tree[k]]
  BY <1>2 DEF Base, TreesInv, TreesSound
<1>4. tree'[n] = T /\ \A k \in Server : k # n => tree'[k] = tree[k]
  BY <1>2, <1>3
<1>5. /\ session \in [End -> Session] /\ session'[e] = session[e]
      /\ \A f \in End : f # e => session'[f] = Bump(Owner(e), session)[f]
  BY BumpAt DEF Base, Shape
<1>6. Alive(e)' /\ Open(e)' /\ session'[e].phase = "established"
  BY <1>1, <1>5 DEF Alive, Open
<1>7. Owner(e)' = n /\ Peer(e)' = p /\ OwnsBranch(e) /\ OwnsBranch(e)'
  BY <1>6, Survivor DEF OwnsBranch
<1>8. \A g \in End : Alive(g)' => Others(g)' = Others(g)
  BY <1>6, OthersSame
<1>9. /\ p \notin Others(e)
      /\ \A g \in End : Owner(g) = n /\ g # e => p \in Others(g)
  BY <1>1, <1>7, OthersOf
<1>10. \A g : g \in from <=> /\ g \in End /\ Alive(g) /\ Owner(g) = n /\ g # e
                             /\ session[g].phase = "established" /\ Open(g)
  BY DEF Audience, Sessions
<1>11. \A x \in End : x \in from => x # Other(e)
  BY <1>1, <1>2, <1>10, Servers DEF Base
<1>12. msgs \in Seq(Msg)
  OBVIOUS
<1>. HIDE DEF from, msgs
<1>13. ASSUME NEW g \in End, g # e, InStep(g)'
       PROVE  /\ InStep(g) /\ session'[g].phase = session[g].phase
              /\ Owner(g) = n => session[g].phase \in {"new", "established"}
  BY <1>5, <1>13, BumpedInStep
<1>14. ASSUME NEW g \in End, Open(g)', InStep(g)'
       PROVE  Open(g) /\ InStep(g) /\ (g \notin from => Told(g)' = Told(g))
  <2>1. CASE g = e
    <3>1. Shown(tree'[Owner(e)], Owner(e), Others(e)') = Shown(tree[Owner(e)], Owner(e), Others(e))
      BY <1>4, <1>6, <1>8, <1>9
    <3>2. Told(e)' = Told(e)
      BY <1>5, <1>6, <3>1, ToldKept
    <3>. QED
      BY <1>1, <2>1, <3>2 DEF InStep
  <2>2. CASE g # e
    <3>1. Open(g) /\ Alive(g)' /\ Alive(g)
      BY <1>14, <2>2, PhasesKept DEF Open
    <3>2. /\ InStep(g) /\ session'[g].phase = session[g].phase
          /\ Owner(g) = n => session[g].phase \in {"new", "established"}
      BY <1>13, <1>14, <2>2
    <3>3. Others(g)' = Others(g) /\ Owner(g) \in Server
      BY <1>8, <3>1, Servers DEF Base
    <3>4. g \notin from => Told(g)' = Told(g)
      <4>1. CASE Owner(g) # n
        <5>1. Shown(tree'[Owner(g)], Owner(g), Others(g)') = Shown(tree[Owner(g)], Owner(g), Others(g))
          BY <1>4, <3>3, <4>1
        <5>. QED
          BY <3>1, <3>2, <5>1, ToldKept
      <4>2. CASE Owner(g) = n /\ session[g].phase = "new"
        BY <3>1, <3>2, <4>2, ToldKept
      <4>3. CASE Owner(g) = n /\ session[g].phase = "established"
        BY <1>10, <2>2, <3>1, <4>3
      <4>. QED
        BY <3>2, <4>1, <4>2, <4>3
    <3>. QED
      BY <3>1, <3>2, <3>4
  <2>. QED
    BY <2>1, <2>2
<1>15. ASSUME NEW g \in End, g \in from
       PROVE  Open(g) /\ InStep(g) /\ Follows(Told(g), msgs, Told(g)')
  <2>1. Open(g) /\ Alive(g) /\ Owner(g) = n /\ g # e /\ session[g].phase = "established"
    BY <1>10, <1>15
  <2>2. session'[g] = session[g]
    BY <1>5, <2>1, BumpAt
  <2>3. Alive(g)' /\ session'[g].phase = "established"
    BY <2>1, <2>2 DEF Alive
  <2>4. Owner(g)' = n /\ Others(g)' = Others(g) /\ p \in Others(g)
    BY <1>8, <1>9, <2>1, <2>3, Survivor
  <2>5. Told(g) = Shown(t, n, Others(g)) /\ Told(g)' = Shown(T, n, Others(g))
    BY <1>4, <2>1, <2>3, <2>4 DEF Told
  <2>6. Told(g) \in View /\ Told(g)' \in View
    BY <1>2, <1>3, <2>5, ViewsTyped
  <2>7. Reads(Told(g), m, Told(g)')
    BY <2>4, <2>5
  <2>8. Follows(Told(g), msgs, Told(g)')
    BY <2>6, <2>7, FollowsOne DEF msgs
  <2>. QED
    BY <2>1, <2>8 DEF InStep
<1>16. \A u \in View : Reads(Seen(e), Head(wire[e]), u) => Seen(e)' = u
  <2>1. Seen(e) = BranchOf(t, p) /\ Seen(e)' = BranchOf(T, p)
    BY <1>4, <1>7 DEF Seen
  <2>. QED
    BY <2>1
<1>17. Mirror'
  <2>1. wire' = Send(Taken(e), from, msgs)
    BY DEF msgs, from
  <2>2. /\ \A k \in Server : k # Owner(e) => tree'[k] = tree[k]
        /\ \A q : q # Peer(e) => BranchOf(tree'[Owner(e)], q) = BranchOf(tree[Owner(e)], q)
    BY <1>4
  <2>3. Other(e) \notin from
    BY <1>11, TwoEnds
  <2>. QED
    BY <1>7, <1>12, <1>14, <1>15, <1>16, <2>1, <2>2, <2>3, SendingMirror
<1>18. OneWaiting'
  BY <1>6, WaitingNext DEF Waiting, MirrorParts
<1>19. Counted'
  BY <1>5, <1>6, BumpedCounted
<1>. QED
  BY <1>17, <1>18, <1>19 DEF MirrorParts

\* handle_introduce: what a peer introduces hangs below what it told before,
\* so the link is never blocked.
LEMMA IntroduceMirror ==
  ASSUME Base, Owned, MirrorParts, NEW e \in End, handle_introduce(e)
  PROVE  MirrorParts' /\ UNCHANGED blocked
<1>. DEFINE n == Owner(e)
            p == Peer(e)
            m == Head(wire[e])
<1>1. wire[e] # <<>> /\ m.op = "introduce" /\ UNCHANGED <<current, ends, dialed, breaks>>
  BY DEF handle_introduce, Received
<1>2. Open(e) /\ Alive(e) /\ m \in Msg /\ 0 \in 0 .. MaxDials
  BY <1>1, Receiving, LinksAssumption DEF Base
<1>3. SessionStep(e) /\ Shape'
  BY IntroduceSound DEF Sound
<1>4. n \in Server /\ p \in Server /\ n # p
  BY <1>2, Servers DEF Base
<1>5. TreeOK(tree[n], n)
  BY <1>4 DEF Base, TreesInv, TreesSound
<1>6. ASSUME Fail(e) /\ UNCHANGED tree
      PROVE  MirrorParts'
  BY <1>2, <1>3, <1>6, FailMirror DEF Fail
<1>7. ASSUME /\ session[e].phase = "established"
             /\ CanAdd(tree[n], p, m.node, m.parent)
             /\ tree' = [tree EXCEPT ![n] = Add(tree[n], p, m.node, m.parent)]
             /\ session' = Bump(n, session)
             /\ wire' = Send(Taken(e), Audience(e), <<m>>)
      PROVE  MirrorParts'
  <2>. DEFINE t == tree[n]
              T == Add(t, p, m.node, m.parent)
  <2>1. /\ BranchOf(T, p) = Grown(BranchOf(t, p), m.node, m.parent)
        /\ \A q : q # p => BranchOf(T, q) = BranchOf(t, q)
        /\ \A H : p \notin H => Shown(T, n, H) = Shown(t, n, H)
        /\ \A H : p \in H => /\ Shown(T, n, H) = Grown(Shown(t, n, H), m.node, m.parent)
                             /\ m.parent \in DOMAIN Shown(t, n, H)
    BY <1>4, <1>5, <1>7, AddViews
  <2>2. TreeOK(T, n)
    BY <1>4, <1>5, <1>7, AddSound
  <2>. HIDE DEF T, m
  <2>3. \A u \in View : Reads(BranchOf(t, p), m, u) => BranchOf(T, p) = u
    BY <1>1, <2>1 DEF Reads
  <2>4. \A H : p \in H => Reads(Shown(t, n, H), m, Shown(T, n, H))
    BY <1>1, <2>1 DEF Reads
  <2>5. m = Head(wire[e]) /\ tree' = [tree EXCEPT ![Owner(e)] = T]
    BY <1>7 DEF m, T
  <2>. QED
    BY <1>1, <1>2, <1>3, <1>7, <2>1, <2>2, <2>3, <2>4, <2>5, BroadcastMirror
<1>8. MirrorParts'
  BY <1>6, <1>7, Zenon DEF handle_introduce
<1>9. ASSUME session[e].phase = "established"
      PROVE  PathToPeer(tree[n], p, m.parent)
  <2>1. Mirrored(e)
    BY <1>2 DEF MirrorParts, Mirror
  <2>2. PICK w \in View : Follows(Seen(e), wire[e], w)
    BY <2>1 DEF Mirrored
  <2>3. wire[e] \in Seq(Msg)
    BY DEF Base, Shape
  <2>4. PICK u \in View : Reads(Seen(e), m, u)
    BY <1>1, <2>2, <2>3, FollowsRead
  <2>5. m.parent \in DOMAIN Seen(e)
    BY <1>1, <2>4 DEF Reads
  <2>6. Seen(e) = BranchOf(tree[n], p)
    BY <1>9 DEF Seen, OwnsBranch
  <2>. QED
    BY <2>5, <2>6 DEF BranchOf, PathToPeer
<1>10. UNCHANGED blocked
  BY <1>9 DEF handle_introduce
<1>. QED
  BY <1>8, <1>10

\* handle_withdraw.
LEMMA WithdrawMirror ==
  ASSUME Base, Owned, MirrorParts, NEW e \in End, handle_withdraw(e)
  PROVE  MirrorParts'
<1>. DEFINE n == Owner(e)
            p == Peer(e)
            m == Head(wire[e])
<1>1. wire[e] # <<>> /\ m.op = "withdraw" /\ UNCHANGED <<current, blocked, ends, dialed, breaks>>
  BY DEF handle_withdraw, Received
<1>2. Open(e) /\ Alive(e) /\ m \in Msg /\ 0 \in 0 .. MaxDials
  BY <1>1, Receiving, LinksAssumption DEF Base
<1>3. SessionStep(e) /\ Shape'
  BY WithdrawSound DEF Sound
<1>4. n \in Server /\ p \in Server /\ n # p
  BY <1>2, Servers DEF Base
<1>5. TreeOK(tree[n], n)
  BY <1>4 DEF Base, TreesInv, TreesSound
<1>6. CASE Fail(e) /\ UNCHANGED tree
  BY <1>2, <1>3, <1>6, FailMirror DEF Fail
<1>7. CASE /\ session[e].phase = "established"
           /\ m.node # p
           /\ CanRemove(tree[n], p, m.node)
           /\ tree' = [tree EXCEPT ![n] = Remove(tree[n], m.node)]
           /\ session' = Bump(n, session)
           /\ wire' = Send(Taken(e), Audience(e), <<m>>)
  <2>. DEFINE t == tree[n]
              T == Remove(t, m.node)
  <2>1. /\ BranchOf(T, p) = Pruned(BranchOf(t, p), m.node)
        /\ \A q : q # p => BranchOf(T, q) = BranchOf(t, q)
        /\ \A H : p \notin H => Shown(T, n, H) = Shown(t, n, H)
        /\ \A H : p \in H => Shown(T, n, H) = Pruned(Shown(t, n, H), m.node)
    BY <1>4, <1>5, <1>7, RemoveViews
  <2>2. TreeOK(T, n)
    BY <1>4, <1>5, <1>7, RemoveSound
  <2>. HIDE DEF T, m
  <2>3. \A u \in View : Reads(BranchOf(t, p), m, u) => BranchOf(T, p) = u
    BY <1>1, <2>1 DEF Reads
  <2>4. \A H : p \in H => Reads(Shown(t, n, H), m, Shown(T, n, H))
    BY <1>1, <2>1 DEF Reads
  <2>5. m = Head(wire[e]) /\ tree' = [tree EXCEPT ![Owner(e)] = T]
    BY <1>7 DEF m, T
  <2>. QED
    BY <1>1, <1>2, <1>3, <1>7, <2>1, <2>2, <2>3, <2>4, <2>5, BroadcastMirror
<1>. QED
  BY <1>6, <1>7, Zenon DEF handle_withdraw

\* A branch that is published parents first takes what a server shows without
\* it to what it shows with it.
LEMMA AnnounceViews ==
  ASSUME NEW t, NEW local \in Server, TreeOK(t, local), NEW peer \in Server, NEW H, peer \notin H,
         NEW order \in ParentFirst(t, peer), NEW msgs,
         msgs = [i \in DOMAIN order |-> Introduce(order[i], t[order[i]].parent)]
  PROVE  Follows(Shown(t, local, H), msgs, Shown(t, local, H \cup {peer}))
<1>. DEFINE branch == {s \in Known(t) : Route(t, s) = peer}
            size == Cardinality(branch)
            D == {x \in Known(t) : x = local \/ Route(t, x) \in H}
            Sent(i) == {order[j] : j \in {k \in 1 .. size : k <= i}}
            V == [i \in Nat |-> [s \in D \cup Sent(i) |-> t[s].parent]]
<1>1. Known(t) \subseteq Server /\ \A s \in Known(t) : t[s].parent \in Server \cup {NoServer}
  BY TreeFacts
<1>2. branch \subseteq Known(t) /\ IsFiniteSet(branch) /\ size \in Nat
  BY <1>1, FS_Subset, FS_CardinalityType, LinkTreeAssumption
<1>3. /\ order \in [1 .. size -> branch]
      /\ \A s \in branch : \E i \in 1 .. size :
           /\ order[i] = s
           /\ t[s].parent \in branch => \E j \in 1 .. i - 1 : order[j] = t[s].parent
  BY DEF ParentFirst
<1>4. \A i, j \in 1 .. size : order[i] = order[j] => i = j
  <2>. HIDE DEF branch
  <2>1. order \in Surjection(1 .. size, branch)
    BY <1>3 DEF Surjection
  <2>2. IsFiniteSet(1 .. size) /\ Cardinality(1 .. size) = Cardinality(branch)
    BY <1>2, FS_Interval
  <2>3. order \in Injection(1 .. size, branch)
    BY <2>1, <2>2, FS_SurjSameCardinalityImpliesInj
  <2>. QED
    BY <2>3 DEF Injection, IsInjective
<1>5. D \subseteq Known(t) /\ local \in D /\ D \cap branch = {}
  BY TreeFacts, LinkTreeAssumption
<1>6. \A s \in branch : t[s].parent \in branch \/ t[s].parent \in D
  <2>. SUFFICES ASSUME NEW s \in branch PROVE t[s].parent \in branch \/ t[s].parent = local
    BY <1>5
  <2>1. s \in Known(t) \ {local} /\ t[s].peer = peer
    BY <1>5, TreeFacts
  <2>2. t[s].parent # local => t[t[s].parent].peer = peer /\ t[s].parent \in Known(t)
    BY <2>1, TreeFacts
  <2>. QED
    BY <2>2, TreeFacts
<1>7. /\ Shown(t, local, H) = [s \in D |-> t[s].parent]
      /\ Shown(t, local, H \cup {peer}) = [s \in D \cup branch |-> t[s].parent]
  <2>1. {x \in Known(t) : x = local \/ Route(t, x) \in H \cup {peer}} = D \cup branch
    OBVIOUS
  <2>2. Shown(t, local, H \cup {peer})
          = [s \in {x \in Known(t) : x = local \/ Route(t, x) \in H \cup {peer}} |-> t[s].parent]
    BY DEF Shown
  <2>. QED
    BY <2>1, <2>2 DEF Shown
<1>8. DOMAIN order = 1 .. size /\ Len(msgs) = size
      /\ \A i \in 1 .. size : msgs[i] = Introduce(order[i], t[order[i]].parent)
  <2>. HIDE DEF branch, size
  <2>1. DOMAIN order = 1 .. size
    BY <1>3
  <2>2. DOMAIN msgs = 1 .. size
    BY <2>1
  <2>. QED
    BY <1>2, <2>1, <2>2
<1>. HIDE DEF branch, size, D
<1>9. \A i \in Nat : Sent(i) \subseteq branch
  BY <1>3
<1>10. \A i \in Nat : V[i] = [s \in D \cup Sent(i) |-> t[s].parent]
  OBVIOUS
<1>11. V \in [Nat -> View]
  <2>. SUFFICES ASSUME NEW i \in Nat PROVE [s \in D \cup Sent(i) |-> t[s].parent] \in View
    OBVIOUS
  <2>. DEFINE S == D \cup Sent(i)
  <2>1. S \in SUBSET Server /\ S \subseteq Known(t)
    BY <1>1, <1>2, <1>5, <1>9
  <2>. HIDE DEF S
  <2>2. [s \in S |-> t[s].parent] \in [S -> Server \cup {NoServer}]
    BY <1>1, <2>1
  <2>3. [s \in S |-> t[s].parent] \in View
    BY <2>1, <2>2 DEF View
  <2>. QED
    BY <2>3 DEF S
<1>12. V[0] = Shown(t, local, H)
  <2>1. Sent(0) = {}
    BY <1>2
  <2>2. V[0] = [s \in D \cup Sent(0) |-> t[s].parent]
    BY <1>10
  <2>3. D \cup Sent(0) = D
    BY <2>1
  <2>. QED
    BY <1>7, <2>2, <2>3
<1>13. V[Len(msgs)] = Shown(t, local, H \cup {peer})
  <2>1. Sent(size) = branch
    <3>1. ASSUME NEW s \in branch PROVE s \in Sent(size)
      <4>1. PICK i \in 1 .. size : order[i] = s
        BY <1>3
      <4>2. i <= size
        BY <1>2
      <4>. QED
        BY <4>1, <4>2
    <3>. QED
      BY <1>2, <1>9, <3>1
  <2>2. V[size] = [s \in D \cup Sent(size) |-> t[s].parent]
    BY <1>2, <1>10
  <2>. QED
    BY <1>7, <1>8, <2>1, <2>2
<1>14. ASSUME NEW i \in 1 .. Len(msgs) PROVE Reads(V[i - 1], msgs[i], V[i])
  <2>. DEFINE s == order[i]
  <2>1. i \in 1 .. size /\ i \in Nat /\ i - 1 \in Nat /\ s \in branch
    BY <1>2, <1>3, <1>8
  <2>2. msgs[i].op = "introduce" /\ msgs[i].node = s /\ msgs[i].parent = t[s].parent
    BY <1>8, <2>1, MessageParts
  <2>3. Sent(i) = Sent(i - 1) \cup {s} /\ s \notin Sent(i - 1)
    <3>1. {k \in 1 .. size : k <= i} = {k \in 1 .. size : k <= i - 1} \cup {i}
      BY <1>2, <2>1
    <3>2. i \notin {k \in 1 .. size : k <= i - 1}
      BY <1>2, <2>1
    <3>. QED
      BY <1>4, <2>1, <3>1, <3>2
  <2>4. t[s].parent \in D \cup Sent(i - 1)
    <3>1. CASE t[s].parent \in D
      BY <3>1
    <3>2. CASE t[s].parent \in branch
      <4>1. PICK h \in 1 .. size : order[h] = s /\ \E j \in 1 .. h - 1 : order[j] = t[s].parent
        BY <1>3, <2>1, <3>2
      <4>2. h = i
        BY <1>4, <2>1, <4>1
      <4>3. PICK j \in 1 .. i - 1 : order[j] = t[s].parent
        BY <4>1, <4>2
      <4>4. j \in {k \in 1 .. size : k <= i - 1}
        BY <1>2, <2>1, <4>3
      <4>. QED
        BY <4>3, <4>4
    <3>. QED
      BY <1>6, <2>1, <3>1, <3>2
  <2>5. V[i - 1] = [x \in D \cup Sent(i - 1) |-> t[x].parent] /\ V[i] = [x \in D \cup Sent(i) |-> t[x].parent]
    BY <1>10, <2>1
  <2>. HIDE DEF V, Sent, s
  <2>. DEFINE v == V[i - 1]
  <2>6. DOMAIN v = D \cup Sent(i - 1) /\ \A x \in D \cup Sent(i - 1) : v[x] = t[x].parent
    BY <2>5
  <2>. HIDE DEF v
  <2>7. Grown(v, s, t[s].parent) = [x \in D \cup Sent(i) |-> IF x = s THEN t[s].parent ELSE v[x]]
    BY <2>3, <2>6 DEF Grown
  <2>8. \A x \in D \cup Sent(i) : (IF x = s THEN t[s].parent ELSE v[x]) = t[x].parent
    BY <2>3, <2>6
  <2>9. V[i] = Grown(v, s, t[s].parent)
    BY <2>5, <2>7, <2>8
  <2>10. t[s].parent \in DOMAIN v
    BY <2>4, <2>6
  <2>. QED
    BY <2>2, <2>9, <2>10 DEF Reads, v
<1>. HIDE DEF V
<1>15. Through(V, Shown(t, local, H), msgs, Shown(t, local, H \cup {peer}))
  BY <1>11, <1>12, <1>13, <1>14 DEF Through
<1>. QED
  BY <1>15 DEF Follows

\* handle_ready: the branch is told over the other links, and no session that
\* is still to be admitted has been told the tree without it.
LEMMA ReadyMirror ==
  ASSUME Base, Owned, MirrorParts, NEW e \in End, handle_ready(e)
  PROVE  MirrorParts'
<1>. DEFINE n == Owner(e)
            p == Peer(e)
            t == tree[n]
            Ann(order) == [i \in DOMAIN order |-> Introduce(order[i], t[order[i]].parent)]
<1>1. wire[e] # <<>> /\ Head(wire[e]).op = "ready" /\ UNCHANGED <<tree, current, blocked, ends, dialed, breaks>>
  BY DEF handle_ready, Received
<1>2. Open(e) /\ Alive(e) /\ 0 \in 0 .. MaxDials
  BY <1>1, Receiving, LinksAssumption DEF Base
<1>3. SessionStep(e) /\ Shape'
  BY ReadySound DEF Sound
<1>4. n \in Server /\ p \in Server /\ n # p
  BY <1>2, Servers DEF Base
<1>5. CASE Fail(e)
  BY <1>1, <1>2, <1>3, <1>5, FailMirror DEF Fail
<1>6. CASE /\ session[e].phase = "admitted" /\ UnchangedSince(e, 1)
           /\ session' = [session EXCEPT ![e] = [Opened EXCEPT !.phase = "established"]]
           /\ \E order \in ParentFirst(t, p) : wire' = Send(Taken(e), Audience(e), Ann(order))
  <2>1. PICK order \in ParentFirst(t, p) : wire' = Send(Taken(e), Audience(e), Ann(order))
    BY <1>6
  <2>. DEFINE from == Audience(e)
              msgs == Ann(order)
  <2>2. msgs \in Seq(Msg)
    BY <1>4, AnnouncementTyped DEF Base
  <2>3. TreeOK(t, n)
    BY <1>4 DEF Base, TreesInv, TreesSound
  <2>4. /\ session'[e].phase = "established" /\ ~session'[e].closing
        /\ \A f \in End : f # e => session'[f] = session[f]
    BY <1>6 DEF Base, Shape, Opened
  <2>5. session[e].phase = "admitted" /\ session[e].behind = 1 /\ OwnsBranch(e) /\ OwnsBranch(e)'
    BY <1>6, <2>4 DEF UnchangedSince, OwnsBranch
  <2>6. Alive(e)' /\ Owner(e)' = n /\ Peer(e)' = p
    BY <1>3, <2>4, Survivor DEF Alive
  <2>7. \A H : p \notin H => Follows(Shown(t, n, H), msgs, Shown(t, n, H \cup {p}))
    BY <1>4, <2>3, AnnounceViews
  <2>8. \A g : g \in from <=> /\ g \in End /\ Alive(g) /\ Owner(g) = n /\ g # e
                              /\ session[g].phase = "established" /\ Open(g)
    BY DEF Audience, Sessions
  <2>. HIDE DEF from, msgs
  <2>9. Other(e) \notin from
    BY <1>2, <1>4, <2>8, Servers DEF Base
  <2>10. ASSUME NEW g \in End, Open(g)', InStep(g)'
         PROVE  Open(g) /\ InStep(g) /\ (g \notin from => Told(g)' = Told(g))
    <3>1. CASE g = e
      <4>1. Others(e)' = Others(e)
        BY <1>3, <2>6, OthersSame
      <4>2. Shown(tree'[n], n, Others(e)') = Shown(tree[n], n, Others(e))
        BY <1>1, <4>1
      <4>3. Told(e)' = Told(e)
        BY <1>3, <2>4, <2>5, <2>6, <4>2, ToldKept
      <4>. QED
        BY <1>2, <2>5, <3>1, <4>3 DEF InStep
    <3>2. CASE g # e
      <4>1. session'[g] = session[g] /\ Open(g) /\ InStep(g) /\ Alive(g) /\ Alive(g)'
        BY <2>4, <2>10, <3>2 DEF Open, Alive, InStep
      <4>2. CASE Owner(g) # n
        <5>1. Others(g)' = Others(g)
          BY <1>3, <4>1, <4>2, OthersSame
        <5>2. Shown(tree'[Owner(g)], Owner(g), Others(g)') = Shown(tree[Owner(g)], Owner(g), Others(g))
          BY <1>1, <5>1
        <5>3. Told(g)' = Told(g)
          BY <1>3, <4>1, <5>2, ToldKept
        <5>. QED
          BY <4>1, <5>3
      <4>3. CASE Owner(g) = n
        <5>1. ~Waiting(g)
          BY <1>2, <2>5, <3>2, <4>3 DEF Waiting, MirrorParts, OneWaiting
        <5>2. session[g].phase \in {"new", "established"}
          BY <4>1, <5>1 DEF Waiting, InStep
        <5>3. session[g].phase = "new" => Told(g)' = Told(g)
          BY <1>3, <4>1, ToldKept
        <5>. QED
          BY <2>8, <3>2, <4>1, <4>3, <5>2, <5>3
      <4>. QED
        BY <4>2, <4>3
    <3>. QED
      BY <3>1, <3>2
  <2>11. ASSUME NEW g \in End, g \in from
         PROVE  Open(g) /\ InStep(g) /\ Follows(Told(g), msgs, Told(g)')
    <3>1. Open(g) /\ Alive(g) /\ Owner(g) = n /\ g # e /\ session[g].phase = "established"
      BY <2>8, <2>11
    <3>2. Alive(g)' /\ session'[g].phase = "established"
      BY <2>4, <3>1 DEF Alive
    <3>3. Others(g)' = Others(g) \cup {p}
      BY <1>3, <2>4, <2>5, <3>1, <3>2, OthersGrow
    <3>4. p \notin Others(g)
      BY <1>2, <2>5, <3>1, OthersOf
    <3>5. Owner(g)' = n
      BY <1>3, <3>1, <3>2, Survivor
    <3>6. Told(g) = Shown(t, n, Others(g)) /\ Told(g)' = Shown(t, n, Others(g) \cup {p})
      BY <1>1, <3>1, <3>2, <3>3, <3>5 DEF Told
    <3>. QED
      BY <2>7, <3>1, <3>4, <3>6 DEF InStep
  <2>12. \A u \in View : Reads(Seen(e), Head(wire[e]), u) => Seen(e)' = u
    <3>1. Seen(e)' = Seen(e)
      BY <1>1, <2>5, <2>6 DEF Seen
    <3>2. \A u : Reads(Seen(e), Head(wire[e]), u) => u = Seen(e)
      BY <1>1 DEF Reads
    <3>. QED
      BY <3>1, <3>2
  <2>13. Mirror'
    <3>1. wire' = Send(Taken(e), from, msgs)
      BY <2>1 DEF from, msgs
    <3>2. /\ \A m \in Server : m # Owner(e) => tree'[m] = tree[m]
          /\ \A q : q # Peer(e) => BranchOf(tree'[Owner(e)], q) = BranchOf(tree[Owner(e)], q)
      BY <1>1
    <3>. QED
      BY <1>1, <1>3, <2>2, <2>5, <2>9, <2>10, <2>11, <2>12, <3>1, <3>2, SendingMirror
  <2>14. OneWaiting'
    BY <1>3, <2>4, WaitingNext DEF Waiting, MirrorParts
  <2>15. Counted'
    BY <2>4 DEF Counted, MirrorParts
  <2>. QED
    BY <2>13, <2>14, <2>15 DEF MirrorParts
<1>. QED
  BY <1>5, <1>6, Zenon DEF handle_ready

\* A session that owns a branch can always take it out again.
LEMMA OwnerRemoves ==
  ASSUME Base, Owned, NEW e \in End, Alive(e), OwnsBranch(e)
  PROVE  /\ TreeOK(tree[Owner(e)], Owner(e))
         /\ CanRemove(tree[Owner(e)], Peer(e), Peer(e))
         /\ Route(tree[Owner(e)], Peer(e)) = Peer(e)
<1>. DEFINE n == Owner(e)
            p == Peer(e)
<1>1. n \in Server /\ p \in Server \ {n}
  BY Servers DEF Base
<1>2. Route(tree[n], p) = p
  BY <1>1 DEF Owned, Owns
<1>3. CanRemove(tree[n], p, p)
  BY <1>1, <1>2, LinkTreeAssumption DEF CanRemove, Route
<1>. QED
  BY <1>1, <1>2, <1>3 DEF Base, TreesInv, TreesSound

\* close_session of an established link: its branch is withdrawn.
LEMMA LostMirror ==
  ASSUME Base, Owned, MirrorParts, NEW e \in End, close_session(e), session[e].phase = "established"
  PROVE  MirrorParts'
<1>. DEFINE n == Owner(e)
            p == Peer(e)
            t == tree[n]
            T == Remove(t, p)
            closed == [session EXCEPT ![e] = Gone]
            drained == [wire EXCEPT ![e] = <<>>]
            from == Audience(e)
            m == Withdraw(p)
            msgs == <<m>>
<1>1. SessionStep(e) /\ Shape'
  BY CloseSound DEF Sound
<1>2. Alive(e) /\ OwnsBranch(e)
  BY DEF close_session, OwnsBranch
<1>3. n \in Server /\ p \in Server /\ n # p
  BY <1>2, Servers DEF Base
<1>4. TreeOK(t, n) /\ CanRemove(t, p, p) /\ Route(t, p) = p /\ tree = [k \in Server |-> tree[k]]
  BY <1>2, OwnerRemoves DEF Base, TreesInv
<1>5. /\ tree' = [tree EXCEPT ![n] = T]
      /\ session' = Bump(n, closed)
      /\ wire' = Send(drained, from, msgs)
  BY <1>2, <1>4 DEF close_session
<1>6. tree'[n] = T /\ \A k \in Server : k # n => tree'[k] = tree[k]
  BY <1>3, <1>4, <1>5
<1>7. /\ closed \in [End -> Session] /\ closed[e] = Gone
      /\ \A f \in End : f # e => closed[f] = session[f]
      /\ \A f \in End : f # e => drained[f] = wire[f]
  BY LinksAssumption DEF Base, Shape, Gone, Session, Phase
<1>. HIDE DEF closed, drained, T
<1>8. session'[e].phase = "gone" /\ \A f \in End : session'[f].phase = closed[f].phase
  <2>1. \A f \in End : Bump(n, closed)[f].phase = closed[f].phase
    <3>. HIDE DEF n
    <3>. QED
      BY <1>7, BumpAt
  <2>. QED
    BY <1>5, <1>7, <2>1 DEF Gone
<1>9. TreeOK(T, n)
  BY <1>3, <1>4, RemoveSound DEF T
<1>10. /\ \A q : q # p => BranchOf(T, q) = BranchOf(t, q)
       /\ \A H : p \in H => Shown(T, n, H \ {p}) = Pruned(Shown(t, n, H), p)
  BY <1>3, <1>4, RemoveViews DEF T
<1>11. \A g : g \in from <=> /\ g \in End /\ Alive(g) /\ Owner(g) = n /\ g # e
                             /\ session[g].phase = "established" /\ Open(g)
  BY DEF Audience, Sessions
<1>12. m \in Msg /\ m.op = "withdraw" /\ m.node = p
  BY <1>3, MessagesTyped, MessageParts DEF Base
<1>13. msgs \in Seq(Msg)
  BY <1>12
<1>. HIDE DEF from, msgs, m
<1>14. ASSUME NEW g \in End, Alive(g), g # e
       PROVE  /\ Alive(g)' /\ Owner(g)' = Owner(g) /\ session'[g].phase = session[g].phase
              /\ Owner(g) \in Server
              /\ Owner(g) = n => p \in Others(g) /\ Others(g)' = Others(g) \ {p}
              /\ Owner(g) # n => Others(g)' = Others(g)
  <2>1. session'[g].phase = session[g].phase /\ Alive(g)'
    BY <1>1, <1>14, PhasesKept DEF Alive
  <2>2. Owner(g)' = Owner(g) /\ Owner(g) \in Server
    BY <1>1, <1>14, <2>1, Survivor, Servers DEF Alive, Base
  <2>3. Owner(g) = n => p \in Others(g)
    BY <1>2, <1>14, OthersOf
  <2>4. Owner(g) = n => Others(g)' = Others(g) \ {p}
    BY <1>1, <1>8, <1>14, <2>1, OthersShrink
  <2>5. Owner(g) # n => Others(g)' = Others(g)
    BY <1>1, <2>1, OthersSame
  <2>. QED
    BY <2>1, <2>2, <2>3, <2>4, <2>5
<1>15. ASSUME NEW g \in End, g # e, InStep(g)'
       PROVE  /\ InStep(g) /\ session'[g].phase = session[g].phase
              /\ Owner(g) = n => session[g].phase \in {"new", "established"}
  <2>1. \A f \in End : f # e => closed[f].phase = session[f].phase /\ closed[f].behind = session[f].behind
    BY <1>7
  <2>2. \A f \in End : f # e => session'[f] = Bump(Owner(e), closed)[f]
    BY <1>5
  <2>. QED
    BY <1>1, <1>7, <1>15, <2>1, <2>2, BumpedInStep
<1>16. ASSUME NEW x \in End, Open(x)'
       PROVE  /\ x # e /\ Open(x) /\ Alive(x) /\ Alive(x)' /\ Seen(x)' = Seen(x)
              /\ wire'[x] = IF Other(x) \in from THEN wire[x] \o msgs ELSE wire[x]
  <2>1. x # e
    BY <1>8, <1>16 DEF Open, Alive
  <2>2. Open(x) /\ Alive(x) /\ Alive(x)'
    BY <1>1, <1>16, <2>1, PhasesKept DEF Open
  <2>3. Seen(x)' = Seen(x)
    BY <1>1, <1>2, <1>6, <1>10, <2>1, <2>2, SeenKept
  <2>4. wire'[x] = IF Other(x) \in from /\ Open(x) THEN drained[x] \o msgs ELSE drained[x]
    BY <1>5 DEF Send
  <2>. QED
    BY <1>7, <2>1, <2>2, <2>3, <2>4
<1>17. ASSUME NEW g \in End, Open(g)', InStep(g)'
       PROVE  Open(g) /\ InStep(g) /\ (g \notin from => Told(g)' = Told(g))
  <2>1. g # e /\ Open(g) /\ Alive(g) /\ Alive(g)'
    BY <1>16, <1>17
  <2>2. /\ InStep(g) /\ session'[g].phase = session[g].phase
        /\ Owner(g) = n => session[g].phase \in {"new", "established"}
    BY <1>15, <1>17, <2>1
  <2>3. g \notin from => Told(g)' = Told(g)
    <3>1. CASE Owner(g) # n
      <4>1. Others(g)' = Others(g) /\ Owner(g) \in Server
        BY <1>14, <2>1, <3>1
      <4>2. Shown(tree'[Owner(g)], Owner(g), Others(g)') = Shown(tree[Owner(g)], Owner(g), Others(g))
        BY <1>6, <3>1, <4>1
      <4>. QED
        BY <1>1, <2>1, <2>2, <4>2, ToldKept
    <3>2. CASE Owner(g) = n /\ session[g].phase = "new"
      BY <1>1, <2>1, <2>2, <3>2, ToldKept
    <3>3. CASE Owner(g) = n /\ session[g].phase = "established"
      BY <1>11, <2>1, <3>3
    <3>. QED
      BY <2>2, <3>1, <3>2, <3>3
  <2>. QED
    BY <2>1, <2>2, <2>3
<1>18. ASSUME NEW g \in End, g \in from
       PROVE  Open(g) /\ InStep(g) /\ Follows(Told(g), msgs, Told(g)')
  <2>1. Open(g) /\ Alive(g) /\ Owner(g) = n /\ g # e /\ session[g].phase = "established"
    BY <1>11, <1>18
  <2>2. Alive(g)' /\ Owner(g)' = n /\ session'[g].phase = "established"
        /\ p \in Others(g) /\ Others(g)' = Others(g) \ {p}
    BY <1>14, <2>1
  <2>3. Told(g) = Shown(t, n, Others(g)) /\ Told(g)' = Shown(T, n, Others(g) \ {p})
    BY <1>6, <2>1, <2>2 DEF Told
  <2>4. Told(g) \in View /\ Told(g)' \in View
    BY <1>3, <1>4, <1>9, <2>3, ViewsTyped
  <2>5. Told(g)' = Pruned(Told(g), p)
    BY <1>10, <2>2, <2>3
  <2>6. Reads(Told(g), m, Told(g)')
    BY <1>12, <2>5 DEF Reads
  <2>7. Follows(Told(g), msgs, Told(g)')
    BY <2>4, <2>6, FollowsOne DEF msgs
  <2>. QED
    BY <2>1, <2>7 DEF InStep
<1>19. Mirror'
  <2>1. Shape /\ Mirror
    BY DEF Base, MirrorParts
  <2>2. ~Open(e)'
    BY <1>16
  <2>. QED
    BY <1>1, <1>13, <1>16, <1>17, <1>18, <2>1, <2>2, MirrorStep
<1>20. OneWaiting'
  BY <1>1, <1>8, WaitingNext DEF Waiting, MirrorParts
<1>21. Counted'
  <2>1. \A f \in End : f # e => closed[f].phase = session[f].phase /\ closed[f].behind = session[f].behind
    BY <1>7
  <2>2. \A f \in End : f # e => session'[f] = Bump(Owner(e), closed)[f]
    BY <1>5
  <2>3. session'[e].phase = "admitted" => session'[e].behind >= 1
    BY <1>8
  <2>. QED
    BY <1>1, <1>7, <2>1, <2>2, <2>3, BumpedCounted
<1>. QED
  BY <1>19, <1>20, <1>21 DEF MirrorParts

\* close_session of an attempt: its branch, if it was attached, was told to
\* nobody.
LEMMA DroppedMirror ==
  ASSUME Base, Owned, MirrorParts, NEW e \in End, close_session(e), session[e].phase # "established"
  PROVE  MirrorParts'
<1>. DEFINE n == Owner(e)
            p == Peer(e)
            t == tree[n]
            closed == [session EXCEPT ![e] = Gone]
            drained == [wire EXCEPT ![e] = <<>>]
<1>1. SessionStep(e) /\ Shape'
  BY CloseSound DEF Sound
<1>2. Alive(e) /\ session' = (IF OwnsBranch(e) THEN Bump(n, closed) ELSE closed) /\ wire' = drained
  BY DEF close_session
<1>3. n \in Server /\ p \in Server /\ n # p
  BY <1>2, Servers DEF Base
<1>4. /\ closed \in [End -> Session] /\ closed[e] = Gone
      /\ \A f \in End : f # e => closed[f] = session[f]
      /\ \A f \in End : f # e => drained[f] = wire[f]
  BY LinksAssumption DEF Base, Shape, Gone, Session, Phase
<1>. HIDE DEF closed, drained
<1>5. session'[e].phase = "gone"
  <2>1. closed[e].phase = "gone"
    BY <1>4 DEF Gone
  <2>2. Bump(n, closed)[e].phase = closed[e].phase
    <3>. HIDE DEF n
    <3>. QED
      BY <1>4, BumpAt
  <2>. QED
    BY <1>2, <2>1, <2>2
<1>6. /\ \A k \in Server : k # n => tree'[k] = tree[k]
      /\ \A q : q # p => BranchOf(tree'[n], q) = BranchOf(t, q)
      /\ \A H : (OwnsBranch(e) /\ p \in H) \/ Shown(tree'[n], n, H) = Shown(t, n, H)
      /\ OwnsBranch(e) \/ UNCHANGED tree
  <2>1. CASE OwnsBranch(e)
    <3>1. TreeOK(t, n) /\ CanRemove(t, p, p) /\ tree = [k \in Server |-> tree[k]]
      BY <1>2, <2>1, OwnerRemoves DEF Base, TreesInv
    <3>2. tree' = [tree EXCEPT ![n] = Remove(t, p)]
      BY <2>1, <3>1 DEF close_session
    <3>3. tree'[n] = Remove(t, p) /\ \A k \in Server : k # n => tree'[k] = tree[k]
      BY <1>3, <3>1, <3>2
    <3>4. /\ \A q : q # p => BranchOf(Remove(t, p), q) = BranchOf(t, q)
          /\ \A H : p \notin H => Shown(Remove(t, p), n, H) = Shown(t, n, H)
      BY <1>3, <3>1, RemoveViews
    <3>. QED
      BY <2>1, <3>3, <3>4
  <2>2. CASE ~OwnsBranch(e)
    BY <2>2 DEF close_session
  <2>. QED
    BY <2>1, <2>2
<1>7. ASSUME NEW g \in End, Open(g)'
      PROVE  /\ g # e /\ Open(g) /\ Alive(g) /\ Alive(g)'
             /\ Seen(g)' = Seen(g) /\ Told(g)' = Told(g) /\ wire'[g] = wire[g]
             /\ InStep(g)' => InStep(g)
  <2>1. g # e
    BY <1>5, <1>7 DEF Open, Alive
  <2>2. Open(g) /\ Alive(g) /\ Alive(g)' /\ session'[g].phase = session[g].phase
    BY <1>1, <1>7, <2>1, PhasesKept DEF Open
  <2>3. Seen(g)' = Seen(g)
    BY <1>1, <1>2, <1>6, <2>1, <2>2, SeenKept
  <2>4. Others(g)' = Others(g) /\ Owner(g) \in Server
    BY <1>1, <1>5, <2>2, OthersSame, Servers DEF Base
  <2>5. OwnsBranch(e) /\ Owner(g) = n => p \notin Others(g)
    BY <1>2, <2>1, OthersOf DEF OwnsBranch
  <2>6. Shown(tree'[Owner(g)], Owner(g), Others(g)') = Shown(tree[Owner(g)], Owner(g), Others(g))
    <3>1. CASE Owner(g) = n
      BY <1>6, <2>4, <2>5, <3>1
    <3>2. CASE Owner(g) # n
      BY <1>6, <2>4, <3>2
    <3>. QED
      BY <3>1, <3>2
  <2>7. Told(g)' = Told(g)
    BY <1>1, <2>2, <2>6, ToldKept
  <2>8. wire'[g] = wire[g]
    BY <1>2, <1>4, <2>1
  <2>9. InStep(g)' => InStep(g)
    <3>1. CASE OwnsBranch(e)
      <4>1. \A f \in End : f # e => closed[f].phase = session[f].phase /\ closed[f].behind = session[f].behind
        BY <1>4
      <4>2. \A f \in End : f # e => session'[f] = Bump(Owner(e), closed)[f]
        BY <1>2, <3>1
      <4>. QED
        BY <1>1, <1>4, <2>1, <4>1, <4>2, BumpedInStep
    <3>2. CASE ~OwnsBranch(e)
      <4>1. session'[g] = session[g]
        BY <1>2, <1>4, <2>1, <3>2
      <4>. QED
        BY <4>1 DEF InStep
    <3>. QED
      BY <3>1, <3>2
  <2>. QED
    BY <2>1, <2>2, <2>3, <2>7, <2>8, <2>9
<1>8. Mirror'
  <2>. DEFINE from == {}
              msgs == <<>>
  <2>1. msgs \in Seq(Msg) /\ Shape /\ Mirror
    BY DEF Base, MirrorParts
  <2>2. \A x \in End : Open(x)' /\ x # e =>
           /\ Open(x) /\ Seen(x)' = Seen(x)
           /\ wire'[x] = IF Other(x) \in from THEN wire[x] \o msgs ELSE wire[x]
    BY <1>7
  <2>3. \A g \in End : Open(g)' /\ InStep(g)' =>
           Open(g) /\ InStep(g) /\ (g \notin from => Told(g)' = Told(g))
    BY <1>7
  <2>4. \A g \in End : g \notin from
    OBVIOUS
  <2>5. ~Open(e)'
    BY <1>7
  <2>. HIDE DEF from, msgs
  <2>. QED
    BY <1>1, <2>1, <2>2, <2>3, <2>4, <2>5, MirrorStep
<1>9. OneWaiting'
  BY <1>1, <1>5, WaitingNext DEF Waiting, MirrorParts
<1>10. Counted'
  <2>1. CASE OwnsBranch(e)
    <3>1. \A f \in End : f # e => closed[f].phase = session[f].phase /\ closed[f].behind = session[f].behind
      BY <1>4
    <3>2. \A f \in End : f # e => session'[f] = Bump(Owner(e), closed)[f]
      BY <1>2, <2>1
    <3>3. session'[e].phase = "admitted" => session'[e].behind >= 1
      BY <1>5
    <3>. QED
      BY <1>1, <1>4, <3>1, <3>2, <3>3, BumpedCounted
  <2>2. CASE ~OwnsBranch(e)
    <3>1. \A f \in End : f # e => session'[f] = session[f]
      BY <1>2, <1>4, <2>2
    <3>. QED
      BY <1>5, <3>1 DEF Counted, MirrorParts
  <2>. QED
    BY <2>1, <2>2
<1>. QED
  BY <1>8, <1>9, <1>10 DEF MirrorParts

\* A dial opens two sessions that have told nothing yet.
LEMMA DialMirror ==
  ASSUME LinkInv, MirrorParts, NEW a \in Server, NEW b \in Server, Dial(a, b)
  PROVE  MirrorParts'
<1>0. PICK k : k = dialed + 1
  OBVIOUS
<1>. DEFINE o == <<k, "out">>
            i == <<k, "in">>
            h == Hello
<1>1. /\ dialed < MaxDials
      /\ ends' = [ends EXCEPT ![k] = <<a, b>>]
      /\ session' = [session EXCEPT ![o] = Opened, ![i] = Opened]
      /\ wire' = [wire EXCEPT ![i] = <<h>>]
      /\ UNCHANGED tree
  BY <1>0 DEF Dial, MayDial
<1>2. /\ ends \in [Socket -> Dials \cup {<<NoServer, NoServer>>}]
      /\ session \in [End -> Session] /\ wire \in [End -> Seq(Msg)]
      /\ dialed \in 0 .. MaxDials
  BY DEF LinkInv, Base, Shape
<1>3. k \in Socket /\ dialed \in Nat
  BY <1>0, <1>1, <1>2, LinksAssumption DEF Socket
<1>4. o \in End /\ i \in End /\ o # i /\ Other(o) = i /\ Other(i) = o
  BY <1>3 DEF End, Side, Other
<1>5. \A f \in End : f[1] \in Socket /\ (f[1] = k <=> f = o \/ f = i)
  BY DEF End, Side
<1>6. /\ Opened.phase = "new" /\ ~Opened.closing
      /\ h \in Msg /\ h.op = "hello"
  BY MessagesTyped, MessageParts DEF Opened, LinkInv, Base
<1>. HIDE DEF o, i, h
<1>7. /\ session'[o] = Opened /\ session'[i] = Opened
      /\ \A f \in End : f[1] # k => session'[f] = session[f]
  BY <1>1, <1>2, <1>4, <1>5
<1>8. /\ wire'[i] = <<h>> /\ wire'[o] = wire[o]
      /\ \A f \in End : f[1] # k => wire'[f] = wire[f]
  BY <1>1, <1>2, <1>4, <1>5
<1>9. \A j \in Socket : j # k => ends'[j] = ends[j]
  BY <1>1, <1>2, <1>3
<1>10. \A f \in End : f[1] = k => ~Alive(f) /\ wire[f] = <<>>
  <2>. SUFFICES ASSUME NEW f \in End, f[1] = k PROVE ~Alive(f) /\ wire[f] = <<>>
    OBVIOUS
  <2>1. ~(k <= dialed)
    BY <1>0, <1>3
  <2>2. ~Alive(f)
    BY <2>1 DEF LinkInv, Base, Lives
  <2>. QED
    BY <2>2 DEF LinkInv, Base, Lives, Open
<1>11. \A f \in End : f[1] # k => Owner(f)' = Owner(f) /\ Peer(f)' = Peer(f)
  BY <1>5, <1>9, TwoEnds DEF Owner, Peer, Other
<1>12. \A f \in End : f[1] = k => session'[f].phase = "new" /\ (f = o \/ f = i)
  BY <1>5, <1>6, <1>7
<1>13. NoNodes \in View
  BY DEF NoNodes, View
<1>14. Follows(NoNodes, <<h>>, NoNodes) /\ Follows(NoNodes, <<>>, NoNodes)
  <2>1. Reads(NoNodes, h, NoNodes)
    BY <1>6 DEF Reads
  <2>. QED
    BY <1>13, <2>1, FollowsOne, FollowsNothing
<1>15. ASSUME NEW f \in End, f[1] # k, Alive(f) PROVE Others(f)' = Others(f)
  <2>1. ASSUME NEW g \in End
        PROVE  /\ g \in Serving(f)' <=> g \in Serving(f)
               /\ g \in Serving(f) => Peer(g)' = Peer(g)
    <3>1. CASE g[1] = k
      BY <1>10, <1>12, <3>1 DEF Serving, Sessions
    <3>2. CASE g[1] # k
      BY <1>7, <1>11, <1>15, <3>2 DEF Serving, Sessions, Alive
    <3>. QED
      BY <3>1, <3>2
  <2>2. Serving(f) \subseteq End /\ Serving(f)' \subseteq End
    BY DEF Serving, Sessions
  <2>. QED
    BY <2>1, <2>2 DEF Others
<1>16. ASSUME NEW x \in End, Open(x)' PROVE Mirrored(x)'
  <2>1. CASE x[1] = k
    <3>1. session'[x].phase = "new" /\ session'[Other(x)].phase = "new"
      BY <1>12, <2>1, TwoEnds
    <3>2. Seen(x)' = NoNodes /\ Told(Other(x))' = NoNodes
      BY <3>1 DEF Seen, OwnsBranch, Told
    <3>3. wire'[x] = <<h>> \/ wire'[x] = <<>>
      BY <1>4, <1>8, <1>10, <1>12, <2>1
    <3>4. Follows(Seen(x)', wire'[x], NoNodes)
      BY <1>14, <3>2, <3>3
    <3>. QED
      BY <1>13, <3>2, <3>4 DEF Mirrored
  <2>2. CASE x[1] # k
    <3>1. session'[x] = session[x] /\ wire'[x] = wire[x] /\ Open(x)
      BY <1>7, <1>8, <1>16, <2>2 DEF Open, Alive
    <3>2. Other(x) \in End /\ Other(x)[1] # k
      BY <2>2, TwoEnds
    <3>3. PICK w \in View : /\ Follows(Seen(x), wire[x], w)
                            /\ Open(Other(x)) /\ InStep(Other(x)) => w = Told(Other(x))
      BY <3>1 DEF MirrorParts, Mirror, Mirrored
    <3>4. Seen(x)' = Seen(x)
      BY <1>1, <1>11, <2>2, <3>1 DEF Seen, OwnsBranch
    <3>. DEFINE y == Other(x)
    <3>5. session'[y] = session[y] /\ Owner(y)' = Owner(y)
      BY <1>7, <1>11, <3>2
    <3>6. Alive(y) => Others(y)' = Others(y)
      BY <1>15, <3>2
    <3>. HIDE DEF y
    <3>7. Open(y)' /\ InStep(y)' => Open(y) /\ InStep(y) /\ Told(y)' = Told(y)
      BY <1>1, <3>5, <3>6 DEF Open, Alive, InStep, Told
    <3>. QED
      BY <3>1, <3>3, <3>4, <3>7 DEF Mirrored, y
  <2>. QED
    BY <2>1, <2>2
<1>17. OneWaiting'
  <2>1. \A f \in End : Waiting(f)' => f[1] # k /\ Waiting(f)
    BY <1>7, <1>12 DEF Waiting, Open, Alive
  <2>. QED
    BY <1>11, <2>1 DEF MirrorParts, OneWaiting
<1>18. Counted'
  BY <1>7, <1>12 DEF MirrorParts, Counted
<1>. QED
  BY <1>16, <1>17, <1>18 DEF MirrorParts, Mirror

\* The inductive invariant: a step on a message needs that the message is accepted, and
\* that it is accepted follows from the mirror.
MirrorInv == LinkInv /\ MirrorParts /\ NeverBlocked

\* It holds before anything is dialed.
LEMMA MirrorInvInit == Init => MirrorInv
<1>. SUFFICES ASSUME Init PROVE MirrorInv
  OBVIOUS
<1>1. \A e \in End : session[e].phase = "gone"
  BY DEF Init, Gone
<1>2. MirrorParts
  BY <1>1 DEF MirrorParts, Mirror, OneWaiting, Counted, Waiting, Open, Alive
<1>3. NeverBlocked
  BY DEF Init, NeverBlocked
<1>. QED
  BY <1>2, <1>3, LinkInvInit DEF MirrorInv

\* And every step keeps it.
LEMMA MirrorInvNext == MirrorInv /\ [Next]_vars => MirrorInv'
<1>. SUFFICES ASSUME MirrorInv, [Next]_vars PROVE MirrorInv'
  OBVIOUS
<1>0. LinkInv /\ LinkInv' /\ MirrorParts /\ NeverBlocked /\ Base /\ Owned
  BY LinkInvNext DEF MirrorInv, LinkInv
<1>1. ASSUME NEW a \in Server, NEW b \in Server, Dial(a, b) PROVE MirrorInv'
  <2>1. MirrorParts'
    BY <1>0, <1>1, DialMirror
  <2>2. UNCHANGED blocked
    BY <1>1 DEF Dial
  <2>. QED
    BY <1>0, <2>1, <2>2 DEF MirrorInv, NeverBlocked
<1>2. ASSUME NEW e \in End, handle_frame(e) \/ close_session(e) \/ Break(e)
      PROVE  MirrorParts' /\ UNCHANGED blocked
  <2>1. CASE handle_hello(e)
    BY <1>0, <2>1, HelloMirror DEF handle_hello
  <2>2. CASE handle_snapshot(e)
    BY <1>0, <2>2, SnapshotMirror DEF handle_snapshot
  <2>3. CASE handle_ready(e)
    BY <1>0, <2>3, ReadyMirror DEF handle_ready
  <2>4. CASE handle_introduce(e)
    BY <1>0, <2>4, IntroduceMirror
  <2>5. CASE handle_withdraw(e)
    BY <1>0, <2>5, WithdrawMirror DEF handle_withdraw
  <2>6. CASE close_session(e)
    <3>1. MirrorParts'
      BY <1>0, <2>6, LostMirror, DroppedMirror
    <3>. QED
      BY <2>6, <3>1 DEF close_session
  <2>7. CASE Break(e)
    BY <1>0, <2>7, BreakMirror DEF Break
  <2>. QED
    BY <1>2, <2>1, <2>2, <2>3, <2>4, <2>5, <2>6, <2>7 DEF handle_frame
<1>3. ASSUME UNCHANGED vars PROVE MirrorParts' /\ UNCHANGED blocked
  <2>1. UNCHANGED <<tree, ends, session, wire, blocked>>
    BY <1>3 DEF vars
  <2>2. \A e \in End : /\ (Open(e)' <=> Open(e)) /\ (InStep(e)' <=> InStep(e))
                       /\ Seen(e)' = Seen(e) /\ Told(e)' = Told(e)
    BY <2>1 DEF Open, Alive, InStep, Seen, Told, OwnsBranch, Others, Serving, Sessions, Owner, Peer, Other
  <2>3. Mirror'
    <3>. SUFFICES ASSUME NEW x \in End, Open(x) PROVE Mirrored(x)'
      BY <2>2 DEF Mirror
    <3>1. PICK w \in View : /\ Follows(Seen(x), wire[x], w)
                            /\ Open(Other(x)) /\ InStep(Other(x)) => w = Told(Other(x))
      BY <1>0 DEF MirrorParts, Mirror, Mirrored
    <3>2. Other(x) \in End
      BY TwoEnds
    <3>. DEFINE y == Other(x)
    <3>3. /\ Follows(Seen(x)', wire'[x], w)
          /\ Open(y)' /\ InStep(y)' => w = Told(y)'
      BY <2>1, <2>2, <3>1, <3>2
    <3>. HIDE DEF y
    <3>. QED
      BY <3>3 DEF Mirrored, y
  <2>4. OneWaiting' /\ Counted'
    BY <1>0, <2>1 DEF MirrorParts, OneWaiting, Counted, Waiting, Open, Alive, Owner
  <2>. QED
    BY <2>1, <2>3, <2>4 DEF MirrorParts
<1>4. CASE Next
  BY <1>0, <1>1, <1>2, <1>4 DEF Next, MirrorInv, NeverBlocked
<1>5. CASE UNCHANGED vars
  BY <1>0, <1>3, <1>5 DEF MirrorInv, NeverBlocked
<1>. QED
  BY <1>4, <1>5

\* What a session has attached of its peer, followed through the messages on their way,
\* is what the peer has told, whatever is opened, admitted, introduced and lost; link.c
\* sends a snapshot at admission and single changes after it and relies on this.
THEOREM LinksMirror == Spec => []MirrorInv
  BY MirrorInvInit, MirrorInvNext, PTL DEF Spec

\* Servers that keep to the protocol never block each other, however links are
\* opened, admitted and lost: whatever a peer introduces hangs below what this
\* session was told before, so topology_reject is never called for it.
THEOREM LinksNeverBlocked == Spec => []NeverBlocked
<1>1. MirrorInv => NeverBlocked
  BY DEF MirrorInv
<1>. QED
  BY <1>1, LinksMirror, PTL

(***************************************************************************)
(* A network at rest.  When nothing is on its way the mirror says that two *)
(* linked servers know the same of each other's side, and that makes every *)
(* tree the component of the network it is in.                             *)
(***************************************************************************)
\* What the tree t of m holds behind q is what the tree s of q holds without
\* what is behind m.
Facing(t, m, s, q) ==
  \A x : /\ (x \in Known(t) /\ Route(t, x) = q) <=> (x \in Known(s) /\ Route(s, x) # m)
         /\ x \in Known(t) /\ Route(t, x) = q /\ x # q => s[x].parent = t[x].parent

LEMMA FollowsNone ==
  ASSUME NEW v, NEW w, Follows(v, <<>>, w)
  PROVE  v = w
<1>1. PICK V : Through(V, v, <<>>, w)
  BY DEF Follows
<1>2. Len(<<>>) = 0
  OBVIOUS
<1>. QED
  BY <1>1, <1>2 DEF Through

LEMMA FacingViews ==
  ASSUME NEW t, NEW s, NEW m \in Server, NEW q \in Server, TreeOK(t, m), TreeOK(s, q),
         NEW H, m \notin H, \A x \in Known(s) : x # q /\ Route(s, x) # m => Route(s, x) \in H,
         BranchOf(t, q) = Shown(s, q, H)
  PROVE  Facing(t, m, s, q)
<1>. DEFINE v == BranchOf(t, q)
            w == Shown(s, q, H)
<1>1. /\ \A x : x \in DOMAIN v <=> x \in Known(t) /\ Route(t, x) = q
      /\ \A x \in DOMAIN v : x # q => v[x] = t[x].parent
  BY DEF BranchOf
<1>2. /\ \A x : x \in DOMAIN w <=> x \in Known(s) /\ (x = q \/ Route(s, x) \in H)
      /\ \A x \in DOMAIN w : w[x] = s[x].parent
  BY DEF Shown
<1>3. Route(s, q) # m
  BY TreeFacts, LinkTreeAssumption
<1>4. v = w
  OBVIOUS
<1>. HIDE DEF v, w
<1>5. \A x : x \in Known(s) /\ (x = q \/ Route(s, x) \in H) <=> x \in Known(s) /\ Route(s, x) # m
  BY <1>3
<1>. QED
  BY <1>1, <1>2, <1>4, <1>5 DEF Facing

\* What Quiet makes of the sessions and of the mirror.
LEMMA AtRest ==
  ASSUME LinkInv, MirrorParts, Quiet
  PROVE  /\ \A m \in Server : TreeOK(tree[m], m)
         /\ \A m, q \in Server : Linked(m, q) <=> m # q /\ Route(tree[m], q) = q
         /\ \A m, q \in Server : Linked(m, q) => Linked(q, m)
         /\ \A m, q \in Server : Linked(m, q) => Facing(tree[m], m, tree[q], q)
<1>1. \A m \in Server : TreeOK(tree[m], m)
  BY DEF LinkInv, Base, TreesInv, TreesSound
<1>2. \A e \in End : Alive(e) => /\ Open(e) /\ wire[e] = <<>> /\ session[e].phase = "established"
                                 /\ Alive(Other(e)) /\ OwnsBranch(e)
                                 /\ Owner(e) \in Server /\ Peer(e) \in Server /\ Owner(e) # Peer(e)
                                 /\ Owner(Other(e)) = Peer(e) /\ Peer(Other(e)) = Owner(e)
  BY Servers DEF Quiet, OwnsBranch, LinkInv, Base
<1>3. \A m, q \in Server : Linked(m, q) <=> m # q /\ Route(tree[m], q) = q
  <2>. SUFFICES ASSUME NEW m \in Server, NEW q \in Server
                PROVE  Linked(m, q) <=> m # q /\ Route(tree[m], q) = q
    OBVIOUS
  <2>1. Linked(m, q) <=> m # q /\ \E e \in End : Owns(e, m, q)
    BY <1>2 DEF Linked, Owns
  <2>. QED
    BY <2>1 DEF LinkInv, Owned
<1>4. \A m, q \in Server : Linked(m, q) => Linked(q, m)
  <2>. SUFFICES ASSUME NEW m \in Server, NEW q \in Server, Linked(m, q) PROVE Linked(q, m)
    OBVIOUS
  <2>1. PICK e \in End : Alive(e) /\ Owner(e) = m /\ Peer(e) = q
    BY DEF Linked
  <2>2. Other(e) \in End
    BY TwoEnds
  <2>. QED
    BY <1>2, <2>1, <2>2 DEF Linked
<1>5. ASSUME NEW m \in Server, NEW q \in Server, Linked(m, q)
      PROVE  Facing(tree[m], m, tree[q], q)
  <2>1. PICK e \in End : Alive(e) /\ Owner(e) = m /\ Peer(e) = q
    BY <1>5 DEF Linked
  <2>. DEFINE o == Other(e)
  <2>2. o \in End /\ Alive(o) /\ Open(o) /\ OwnsBranch(o) /\ session[o].phase = "established"
        /\ Owner(o) = q /\ Peer(o) = m /\ m # q
    BY <1>2, <2>1, TwoEnds
  <2>3. PICK w \in View : Follows(Seen(e), wire[e], w) /\ (Open(o) /\ InStep(o) => w = Told(o))
    BY <1>2, <2>1 DEF MirrorParts, Mirror, Mirrored
  <2>. HIDE DEF o
  <2>4. Seen(e) = BranchOf(tree[m], q) /\ wire[e] = <<>>
    BY <1>2, <2>1 DEF Seen
  <2>5. Told(o) = Shown(tree[q], q, Others(o)) /\ InStep(o)
    BY <2>2 DEF Told, InStep
  <2>6. BranchOf(tree[m], q) = Shown(tree[q], q, Others(o))
    BY <2>2, <2>3, <2>4, <2>5, FollowsNone
  <2>7. m \notin Others(o)
    BY <2>2, OthersOf DEF LinkInv
  <2>8. ASSUME NEW x \in Known(tree[q]), x # q, Route(tree[q], x) # m
        PROVE  Route(tree[q], x) \in Others(o)
    <3>. DEFINE r == Route(tree[q], x)
    <3>1. r \in Server \ {q} /\ Route(tree[q], r) = r
      BY <1>1, <2>8, HeadsRoute
    <3>2. PICK g \in End : Owns(g, q, r)
      BY <3>1 DEF LinkInv, Owned
    <3>3. g # o /\ session[g].phase = "established"
      BY <1>2, <2>2, <2>8, <3>2 DEF Owns
    <3>4. g \in Serving(o) /\ Peer(g) = r
      BY <2>2, <3>2, <3>3 DEF Serving, Sessions, Owns
    <3>. QED
      BY <3>4 DEF Others
  <2>. QED
    BY <1>1, <2>6, <2>7, <2>8, FacingViews
<1>. QED
  BY <1>1, <1>3, <1>4, <1>5

\* In a tree of such a network, the server a is linked to its parent, and what
\* the parent has behind a hangs below a in this tree as well.
Hangs(t, a) ==
  LET b == t[a].parent
      C == {x \in Known(tree[b]) : Route(tree[b], x) = a}
  IN /\ Route(tree[b], a) = a
     /\ \A x \in C : x \in Known(t) /\ tree[b][x].parent = t[x].parent
     /\ \A y \in Known(t) : t[y].parent \in C => y \in C

LEMMA AllHang ==
  ASSUME \A m \in Server : TreeOK(tree[m], m),
         \A m, q \in Server : m # q /\ Route(tree[m], q) = q => Facing(tree[m], m, tree[q], q),
         NEW n \in Server
  PROVE  \A a \in Known(tree[n]) \ {n} : Hangs(tree[n], a)
<1>. DEFINE t == tree[n]
            bad == {a \in Known(t) \ {n} : ~Hangs(t, a)}
<1>1. TreeOK(t, n)
  OBVIOUS
<1>. SUFFICES ASSUME bad # {} PROVE FALSE
  OBVIOUS
<1>2. PICK a \in bad : t[a].parent \notin bad
  <2>1. bad \in SUBSET (Known(t) \ {n})
    OBVIOUS
  <2>. QED
    BY <1>1, <2>1 DEF TreeOK, NoCycle
<1>. DEFINE b == t[a].parent
            C == {x \in Known(tree[b]) : Route(tree[b], x) = a}
<1>3. a \in Known(t) /\ a # n /\ a \in Server /\ b \in Known(t) /\ b \in Server
      /\ (b = n \/ (b \in Known(t) \ {n} /\ Hangs(t, b)))
  BY <1>1, <1>2, TreeFacts
<1>4. CASE b = n
  <2>1. Route(t, a) = a
    BY <1>1, <1>3, <1>4, TreeFacts
  <2>2. ASSUME NEW y \in Known(t), t[y].parent \in C PROVE y \in C
    <3>1. t[y].parent \in Known(t) /\ Route(t, t[y].parent) = a
      BY <1>4, <2>2
    <3>2. y # n /\ t[y].parent # n
      BY <1>1, <1>3, <3>1, TreeFacts, LinkTreeAssumption
    <3>3. t[t[y].parent].peer = t[y].peer
      BY <1>1, <2>2, <3>2, TreeFacts
    <3>4. Route(t, y) = a
      BY <1>1, <3>1, <3>3, TreeFacts
    <3>. QED
      BY <1>4, <3>4
  <2>3. \A x \in C : x \in Known(t) /\ tree[b][x].parent = t[x].parent
    BY <1>4
  <2>4. Hangs(t, a)
    BY <1>4, <2>1, <2>2, <2>3 DEF Hangs
  <2>. QED
    BY <1>2, <2>4
<1>5. CASE b # n /\ Hangs(t, b)
  <2>. DEFINE c == t[b].parent
              B == {x \in Known(tree[c]) : Route(tree[c], x) = b}
  <2>1. c \in Known(t) /\ c \in Server
    BY <1>1, <1>3, <1>5, TreeFacts
  <2>2. /\ Route(tree[c], b) = b
        /\ \A x \in B : x \in Known(t) /\ tree[c][x].parent = t[x].parent
        /\ \A y \in Known(t) : t[y].parent \in B => y \in B
    BY <1>5 DEF Hangs
  <2>3. c # b /\ a # b
    <3>1. \A s \in Known(t) \ {n} : t[s].parent # s
      <4>. SUFFICES ASSUME NEW s \in Known(t) \ {n} PROVE t[s].parent # s
        OBVIOUS
      <4>1. {s} \in SUBSET (Known(t) \ {n}) /\ {s} # {}
        OBVIOUS
      <4>. QED
        BY <1>1, <4>1 DEF TreeOK, NoCycle
    <3>. QED
      BY <1>3, <1>5, <3>1
  <2>4. Facing(tree[c], c, tree[b], b)
    BY <1>3, <2>1, <2>2, <2>3
  <2>5. TreeOK(tree[b], b) /\ TreeOK(tree[c], c)
    BY <1>3, <2>1
  <2>. HIDE DEF c
  <2>6. /\ \A x : x \in B <=> x \in Known(tree[b]) /\ Route(tree[b], x) # c
        /\ \A x \in B : x # b => tree[b][x].parent = t[x].parent
    BY <2>2, <2>4 DEF Facing
  <2>7. Route(tree[b], b) = NoServer /\ Route(tree[c], c) = NoServer /\ b \in Known(tree[b])
    BY <1>3, <2>1, <2>5, TreeFacts
  <2>8. b \in B
    BY <2>1, <2>6, <2>7, LinkTreeAssumption
  <2>9. a \in B
    BY <1>3, <2>2, <2>8
  <2>10. a \in Known(tree[b]) \ {b} /\ Route(tree[b], a) # c /\ tree[b][a].parent = b
    BY <2>3, <2>6, <2>9
  <2>11. Route(tree[b], a) = a /\ a # c
    BY <1>3, <2>5, <2>10, TreeFacts
  <2>12. \A x \in C : x \in B /\ x # b /\ x \in Known(t) /\ tree[b][x].parent = t[x].parent
    <3>. SUFFICES ASSUME NEW x \in C PROVE x \in B /\ x # b
      BY <2>2, <2>6
    <3>1. x \in Known(tree[b]) /\ Route(tree[b], x) = a
      OBVIOUS
    <3>. QED
      BY <1>3, <2>6, <2>7, <2>11, <3>1, LinkTreeAssumption
  <2>13. ASSUME NEW y \in Known(t), t[y].parent \in C PROVE y \in C
    <3>. DEFINE z == t[y].parent
    <3>1. z \in B /\ z # b /\ z \in Known(tree[b]) /\ Route(tree[b], z) = a
      BY <2>12, <2>13
    <3>2. y \in B
      BY <2>2, <3>1
    <3>3. c \notin B
      BY <1>3, <2>7, LinkTreeAssumption
    <3>4. y # b
      BY <3>1, <3>3 DEF c
    <3>5. y \in Known(tree[b]) \ {b} /\ tree[b][y].parent = z
      BY <2>6, <3>2, <3>4
    <3>6. tree[b][z].peer = tree[b][y].peer
      <4>1. \A s \in Known(tree[b]) \ {b} :
              tree[b][s].parent # b => tree[b][tree[b][s].parent].peer = tree[b][s].peer
        BY <1>3, <2>5, TreeFacts
      <4>. QED
        BY <3>1, <3>5, <4>1
    <3>7. Route(tree[b], y) = a
      BY <1>3, <2>5, <3>1, <3>5, <3>6, TreeFacts
    <3>. QED
      BY <3>5, <3>7
  <2>14. Hangs(t, a)
    BY <2>11, <2>12, <2>13 DEF Hangs
  <2>. QED
    BY <1>2, <2>14
<1>. QED
  BY <1>3, <1>4, <1>5

\* In a network at rest every server's tree is the component of the network it
\* is linked to: it knows both ends of a link or neither, and the links among
\* the servers it knows are its tree edges.
THEOREM LinksTreesAgree == Spec => []TreesAgree
<1>1. ASSUME LinkInv, MirrorParts PROVE TreesAgree
  <2>. SUFFICES ASSUME Quiet, NEW n \in Server
                PROVE  \A a, b \in Server :
                         LET t == tree[n] IN
                         /\ Linked(a, b) => (a \in Known(t) <=> b \in Known(t))
                         /\ a \in Known(t) /\ b \in Known(t) =>
                              (Linked(a, b) <=> t[a].parent = b \/ t[b].parent = a)
    BY DEF TreesAgree
  <2>. DEFINE t == tree[n]
  <2>1. /\ \A m \in Server : TreeOK(tree[m], m)
        /\ \A m, q \in Server : Linked(m, q) <=> m # q /\ Route(tree[m], q) = q
        /\ \A m, q \in Server : Linked(m, q) => Linked(q, m)
        /\ \A m, q \in Server : Linked(m, q) => Facing(tree[m], m, tree[q], q)
    BY <1>1, AtRest
  <2>2. \A a \in Known(t) \ {n} : Hangs(t, a)
    BY <2>1, AllHang
  <2>3. /\ Known(t) \subseteq Server /\ n \in Known(t) /\ t[n].parent = NoServer /\ Route(t, n) = NoServer
        /\ \A s \in Known(t) \ {n} : t[s].parent \in Known(t)
        /\ \A s \in Known(t) \ {n} : t[s].parent = n <=> t[s].peer = s
        /\ \A s \in Known(t) : Route(t, s) = t[s].peer
    BY <2>1, TreeFacts
  <2>4. ASSUME NEW a \in Server, NEW b \in Server, Linked(a, b), a \in Known(t)
        PROVE  b \in Known(t) /\ (t[a].parent = b \/ t[b].parent = a)
    <3>0. a # b /\ Route(tree[a], b) = b
      BY <2>1, <2>4
    <3>1. CASE a = n
      <4>1. b \in Known(t)
        BY <3>0, <3>1, LinkTreeAssumption DEF Route
      <4>. QED
        BY <2>3, <3>0, <3>1, <4>1
    <3>2. CASE a # n
      <4>. DEFINE c == t[a].parent
      <4>1. c \in Server /\ c \in Known(t)
        BY <2>3, <2>4, <3>2
      <4>2. /\ Route(tree[c], a) = a
            /\ \A x \in Known(tree[c]) : Route(tree[c], x) = a =>
                 x \in Known(t) /\ tree[c][x].parent = t[x].parent
        BY <2>2, <2>4, <3>2 DEF Hangs
      <4>3. CASE b = c
        BY <4>1, <4>3
      <4>4. CASE b # c
        <5>1. c # a
          <6>1. Route(tree[a], a) = NoServer
            BY <2>1, <2>4, TreeFacts
          <6>. QED
            BY <2>4, <4>2, <6>1, LinkTreeAssumption
        <5>2. Facing(tree[c], c, tree[a], a)
          BY <2>1, <2>4, <4>1, <4>2, <5>1
        <5>3. b \in Known(tree[a]) /\ Route(tree[a], b) # c
          BY <3>0, <4>4, LinkTreeAssumption DEF Route
        <5>4. /\ b \in Known(tree[c]) /\ Route(tree[c], b) = a
              /\ tree[a][b].parent = tree[c][b].parent
          BY <3>0, <5>2, <5>3 DEF Facing
        <5>5. b \in Known(t) /\ tree[c][b].parent = t[b].parent
          BY <4>2, <5>4
        <5>6. tree[a][b].parent = a
          <6>1. \A s \in Known(tree[a]) \ {a} :
                  (tree[a][s].parent = a <=> tree[a][s].peer = s) /\ Route(tree[a], s) = tree[a][s].peer
            BY <2>1, <2>4, TreeFacts
          <6>. QED
            BY <3>0, <5>3, <6>1
        <5>. QED
          BY <5>4, <5>5, <5>6
      <4>. QED
        BY <4>3, <4>4
    <3>. QED
      BY <3>1, <3>2
  <2>5. ASSUME NEW a \in Server, NEW b \in Server, a \in Known(t), b \in Known(t), t[a].parent = b
        PROVE  Linked(b, a)
    <3>1. a # n
      BY <2>3, <2>5, LinkTreeAssumption
    <3>2. Route(tree[b], a) = a
      BY <2>2, <2>5, <3>1 DEF Hangs
    <3>3. a # b
      <4>1. Route(tree[a], a) = NoServer
        BY <2>1, <2>5, TreeFacts
      <4>. QED
        BY <2>5, <3>2, <4>1, LinkTreeAssumption
    <3>. QED
      BY <2>1, <3>2, <3>3
  <2>. QED
    BY <2>1, <2>4, <2>5
<1>2. MirrorInv => TreesAgree
  BY <1>1 DEF MirrorInv
<1>. QED
  BY <1>2, LinksMirror, PTL
=============================================================================
