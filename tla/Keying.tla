------------------------------- MODULE Keying -------------------------------
(***************************************************************************)
(* What the hardware worker promises about keying, without its queue: key- *)
(* downs wait and may be dropped, a release drops the waiting key-downs of *)
(* its VFO and is owed until it was sent, one command is sent at a time,   *)
(* and no key-down is begun while any release is owed.  BackendWorker      *)
(* implements this specification.                                          *)
(***************************************************************************)
EXTENDS Naturals

CONSTANT VFO

VARIABLES
  open,     \* requests are accepted
  waiting,  \* the VFOs with an accepted key-down that was not begun
  owed,     \* the VFOs with an accepted release that is not finished
  current,  \* the command in hand
  tx        \* VFO -> the transmitter is on the air

vars == <<open, waiting, owed, current, tx>>

NoCommand == [state |-> "none"]

Command == [vfo : VFO, on : BOOLEAN, state : {"begun", "ok", "failed"}]

Init ==
  /\ open = TRUE /\ waiting = {} /\ owed = {} /\ current = NoCommand
  /\ tx = [v \in VFO |-> FALSE]

AskOn(v) ==
  /\ open
  /\ waiting' = waiting \cup {v}
  /\ UNCHANGED <<open, owed, current, tx>>

AskOff(v) ==
  /\ open
  /\ waiting' = waiting \ {v}
  /\ owed' = owed \cup {v}
  /\ UNCHANGED <<open, current, tx>>

\* A key-down is begun; others of the same VFO may still wait.
BeginOn(v) ==
  /\ current = NoCommand /\ v \in waiting /\ owed = {}
  /\ current' = [vfo |-> v, on |-> TRUE, state |-> "begun"]
  /\ waiting' \in {waiting, waiting \ {v}}
  /\ UNCHANGED <<open, owed, tx>>

BeginOff(v) ==
  /\ current = NoCommand /\ v \in owed
  /\ current' = [vfo |-> v, on |-> FALSE, state |-> "begun"]
  /\ UNCHANGED <<open, waiting, owed, tx>>

\* The command is sent, or not when it is refused.  A success took effect; a
\* failure may have.
Send ==
  /\ current # NoCommand /\ current.state = "begun"
  /\ \E state \in {"ok", "failed"} :
       /\ current' = [current EXCEPT !.state = state]
       /\ \/ tx' = [tx EXCEPT ![current.vfo] = current.on]
          \/ state = "failed" /\ UNCHANGED tx
  /\ UNCHANGED <<open, waiting, owed>>

\* A finished release pays for all that were asked for in the meantime.
End ==
  /\ current # NoCommand /\ current.state # "begun"
  /\ owed' = IF current.on THEN owed ELSE owed \ {current.vfo}
  /\ current' = NoCommand
  /\ UNCHANGED <<open, waiting, tx>>

\* Shutdown drops every waiting key-down, and no release.
Close ==
  /\ open
  /\ open' = FALSE /\ waiting' = {}
  /\ UNCHANGED <<owed, current, tx>>

\* The last releases, after all that were owed.
FinalOff(v) ==
  /\ ~open /\ owed = {} /\ current = NoCommand
  /\ tx' = [tx EXCEPT ![v] = FALSE]
  /\ UNCHANGED <<open, waiting, owed, current>>

Next ==
  \/ \E v \in VFO : AskOn(v) \/ AskOff(v) \/ BeginOn(v) \/ BeginOff(v) \/ FinalOff(v)
  \/ Send \/ End \/ Close

Spec == Init /\ [][Next]_vars
=============================================================================
