------------------------------- MODULE Lists -------------------------------
(***************************************************************************)
(* Singly linked lists of the server, as sequences.  The C code unlinks    *)
(* every node a test selects in one walk under the lock (backend.worker.c, *)
(* ptt.c); Filter and Without are what such a walk leaves behind.  They    *)
(* are written with cardinalities rather than recursion so that            *)
(* ListsProofs can prove facts about them for sequences of every length.   *)
(***************************************************************************)
EXTENDS Naturals, Sequences, FiniteSets

\* The elements of a list.
Elems(q) == {q[i] : i \in 1..Len(q)}

\* The positions of a list that hold an element of S.
Positions(q, S) == {i \in 1..Len(q) : q[i] \in S}

\* The number of members of I that are at most i.
Rank(I, i) == Cardinality({j \in I : j <= i})

\* The k-th smallest member of a finite set I of numbers.
Nth(I, k) == CHOOSE i \in I : Rank(I, i) = k

\* The elements of q that are in S, in the order of q.
Filter(q, S) ==
  LET I == Positions(q, S)
  IN  [k \in 1..Cardinality(I) |-> q[Nth(I, k)]]

\* The elements of q that are not in S, in the order of q.
Without(q, S) == Filter(q, Elems(q) \ S)
============================================================================
