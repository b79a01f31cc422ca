------------------------------ MODULE LinkTree ------------------------------
(***************************************************************************)
(* The routing tree that every server keeps of the linked network          *)
(* (link.tree.c): the server itself is the root, each directly linked peer *)
(* is the top of a branch, and every other server hangs below the server   *)
(* it is linked through.  A tree maps the known servers to link_node       *)
(* entries.  A snapshot received from a peer is untrusted input: it maps   *)
(* the servers it lists to the parents it claims, NoServer for "-".  (That *)
(* a list names a server once is checked at lines 131-135; here it is a    *)
(* function.)  Site names and the spelling of UUIDs are left out.          *)
(***************************************************************************)
EXTENDS Integers, FiniteSets

CONSTANTS
  Server,       \* the server UUIDs, ordered by strcmp
  NoServer,     \* the NULL or empty UUID
  TreeLimit     \* links.max-servers: the entries a tree has room for

ASSUME LinkTreeAssumption ==
  /\ Server \subseteq Nat
  /\ IsFiniteSet(Server)
  /\ NoServer \notin Server
  /\ TreeLimit \in Nat \ {0}

Node == [parent : Server \cup {NoServer}, peer : Server \cup {NoServer}]

Known(tree) == DOMAIN tree

\* rr_link_tree_new
NewTree(local) == [s \in {local} |-> [parent |-> NoServer, peer |-> NoServer]]

\* rr_link_tree_route: the next hop towards a server.
Route(tree, server) ==
  IF server \in Known(tree) THEN tree[server].peer ELSE NoServer

\* The walk from every listed server to the peer: steps[s] parents away, and
\* no walk longer than the list.  It rejects cycles, unlisted parents and
\* second roots.
EveryChainReaches(peer, nodes) ==
  \E steps \in [DOMAIN nodes -> 0 .. Cardinality(DOMAIN nodes)] :
     /\ steps[peer] = 0
     /\ \A s \in DOMAIN nodes \ {peer} :
           nodes[s] \in DOMAIN nodes /\ steps[s] = steps[nodes[s]] + 1

\* rr_link_tree_attach returns RR_LINK_OK.
CanAttach(tree, peer, nodes) ==
  /\ DOMAIN nodes \subseteq Server
  /\ Cardinality(DOMAIN nodes) <= TreeLimit - Cardinality(Known(tree))
  /\ DOMAIN nodes \cap Known(tree) = {}
  /\ peer \in DOMAIN nodes
  /\ nodes[peer] = NoServer
  /\ EveryChainReaches(peer, nodes)

\* The whole list becomes the branch of peer, whose own parent is the root.
Attach(tree, local, peer, nodes) ==
  [s \in Known(tree) \cup DOMAIN nodes |->
     IF s \in Known(tree) THEN tree[s]
     ELSE [parent |-> IF nodes[s] = NoServer THEN local ELSE nodes[s],
           peer   |-> peer]]

\* rr_link_tree_add returns RR_LINK_OK: peer may extend its own branch only.
CanAdd(tree, peer, server, parent) ==
  /\ server \in Server
  /\ peer \in Known(tree) /\ tree[peer].peer = peer
  /\ parent \in Known(tree) /\ tree[parent].peer = peer
  /\ server \notin Known(tree)
  /\ Cardinality(Known(tree)) # TreeLimit

Add(tree, peer, server, parent) ==
  [s \in Known(tree) \cup {server} |->
     IF s = server THEN [parent |-> parent, peer |-> peer] ELSE tree[s]]

\* The marks left by the loop of rr_link_tree_remove: the smallest set that
\* holds server and every entry whose parent it holds.
Subtree(tree, server) ==
  {x \in Known(tree) :
     \A marked \in SUBSET Known(tree) :
        (/\ server \in marked
         /\ \A s \in Known(tree) : tree[s].parent \in marked => s \in marked)
        => x \in marked}

\* rr_link_tree_remove returns true: the server is in this peer's branch.
CanRemove(tree, peer, server) ==
  /\ server \in Known(tree)
  /\ tree[server].peer # NoServer
  /\ tree[server].peer = peer

\* Mutant: the server is removed and what hangs below it stays.
RemoveOne(tree, server) == [s \in Known(tree) \ {server} |-> tree[s]]

Remove(tree, server) ==
  [s \in Known(tree) \ Subtree(tree, server) |-> tree[s]]

(***************************************************************************)
(* What a tree must be for every walk and every lookup in link.c to be     *)
(* right.                                                                  *)
(***************************************************************************)
\* The root is the server itself and it alone has no parent and no next hop.
RootLocal(tree, local) ==
  /\ local \in Known(tree)
  /\ tree[local] = [parent |-> NoServer, peer |-> NoServer]

\* Every other entry hangs below a known server of its own branch, and the
\* tops of the branches are exactly the direct peers.
BranchesOK(tree, local) ==
  \A s \in Known(tree) \ {local} :
     /\ tree[s].parent \in Known(tree)
     /\ tree[s].peer \in Known(tree) \ {local}
     /\ tree[s].parent = local <=> tree[s].peer = s
     /\ tree[s].parent # local => tree[tree[s].parent].peer = tree[s].peer

\* No set of entries is closed under parent: every parent chain ends at the
\* root, so the walks of introduction_policy and establish terminate.
NoCycle(tree, local) ==
  \A S \in SUBSET (Known(tree) \ {local}) :
     S # {} => \E s \in S : tree[s].parent \notin S

TreeOK(tree, local) ==
  /\ Known(tree) \subseteq Server
  /\ tree \in [Known(tree) -> Node]
  /\ Cardinality(Known(tree)) <= TreeLimit
  /\ RootLocal(tree, local)
  /\ BranchesOK(tree, local)
  /\ NoCycle(tree, local)
=============================================================================
