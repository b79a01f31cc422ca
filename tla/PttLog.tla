------------------------------- MODULE PttLog -------------------------------
(***************************************************************************)
(* The transmission log of ptt.c: which ptt_log row of the database is     *)
(* open for which VFO and who opened it.  The debit when it is closed has  *)
(* no effect on transmit control and is left out.                          *)
(* ptt_log_start and ptt_log_stop are called from the middle of longer     *)
(* handlers, so they are functions from one log to the next.               *)
(***************************************************************************)
EXTENDS Integers, FiniteSets

CONSTANTS
  Clients,   \* connections that may transmit
  NoClient,  \* the NULL connection
  MaxVfos    \* MAX_VFOS

ASSUME LogAssumption ==
  /\ IsFiniteSet(Clients)
  /\ NoClient \notin Clients
  /\ MaxVfos \in Nat

VFO == 0..(MaxVfos - 1)
Client == Clients \cup {NoClient}

\* Enough row numbers for one that nothing refers to to be always left.
Rows == 1..(MaxVfos + Cardinality(Clients))

\* session, owner: ptt_log_session and ptt_log_owner, 0 for "none".
\* ptt_session: the connection's own copy of its row number.
\* row: the user of an open database row, NoClient for a closed one.
EmptyLog ==
  [session |-> [v \in VFO |-> 0], owner |-> [v \in VFO |-> NoClient],
   ptt_session |-> [c \in Clients |-> 0], row |-> [s \in Rows |-> NoClient]]

LogType ==
  [session : [VFO -> Rows \cup {0}], owner : [VFO -> Client],
   ptt_session : [Clients -> Rows \cup {0}], row : [Rows -> Client]]

\* The row number the insert returns.
NewRow(L) ==
  CHOOSE s \in Rows : /\ \A v \in VFO : L.session[v] # s
                      /\ \A c \in Clients : L.ptt_session[c] # s

\* ptt_log_start(c, v); ok says whether the insert succeeds.
LogStart(L, c, v, ok) ==
  IF L.session[v] # 0 \/ ~ok
    THEN L
    ELSE [session |-> [L.session EXCEPT ![v] = NewRow(L)],
          owner |-> [L.owner EXCEPT ![v] = c],
          ptt_session |-> [L.ptt_session EXCEPT ![c] = NewRow(L)],
          row |-> [L.row EXCEPT ![NewRow(L)] = c]]

\* The connection ptt_log_stop works for, and the row it closes.
Holder(L, c, v) == IF c = NoClient THEN L.owner[v] ELSE c

RowOf(L, c, v) ==
  IF L.session[v] # 0 \/ Holder(L, c, v) = NoClient
    THEN L.session[v]
    ELSE L.ptt_session[Holder(L, c, v)]

\* Mutant: the row stays in the session table when it is closed.
LogStopKeepsSession(L, c, v, ok) ==
  [session |-> L.session, owner |-> [L.owner EXCEPT ![v] = NoClient],
   ptt_session |-> L.ptt_session, row |-> L.row]

\* Mutant: the row is taken out of the table and not closed.
LogStopUnwritten(L, c, v, ok) ==
  [L EXCEPT !.session[v] = 0, !.owner[v] = NoClient]

\* ptt_log_stop(c, v); ok says whether the update succeeds (that of a row
\* already closed never does).
LogStop(L, c, v, ok) ==
  LET who == Holder(L, c, v)
      s == RowOf(L, c, v)
  IN  [session |-> IF s = 0 THEN L.session ELSE [L.session EXCEPT ![v] = 0],
       owner |-> [L.owner EXCEPT ![v] = NoClient],
       ptt_session |-> IF s = 0 \/ who = NoClient THEN L.ptt_session
                       ELSE [L.ptt_session EXCEPT ![who] = 0],
       row |-> IF s = 0 \/ ~ok THEN L.row ELSE [L.row EXCEPT ![s] = NoClient]]

\* ptt_log_stop for every VFO whose number is in V, in ascending order.
LogStopAll(L, c, V, ok) ==
  LET stopped[n \in 0..MaxVfos] ==
        IF n = 0 THEN L
        ELSE IF n - 1 \in V THEN LogStop(stopped[n - 1], c, n - 1, ok)
        ELSE stopped[n - 1]
  IN  stopped[MaxVfos]
============================================================================
