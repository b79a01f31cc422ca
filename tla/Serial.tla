------------------------------- MODULE Serial -------------------------------
(***************************************************************************)
(* Serial tunnels: a local endpoint of the client (rrclient/sercom.c, the  *)
(* floating ttyMODEM or a host: binding) attached to a device that the     *)
(* server exports (rrserver/serial.c).  Control messages and data frames   *)
(* share one connection and stay in order; one block per direction is in   *)
(* flight.  When a connection breaks the server may go on reading what it  *)
(* had received before it notices.                                         *)
(*                                                                         *)
(* A block stands for the bytes of one frame.  A partial write belongs to  *)
(* the poll that completes it.  Line settings, GPS services and the names  *)
(* of several bindings on one connection are left out; a device in use by  *)
(* another user is one that cannot be opened.                              *)
(***************************************************************************)
EXTENDS Integers, Sequences

CONSTANTS
  Port,         \* the exported devices
  NoBlock,
  Streams,      \* stream identifiers of a connection (255 in the code)
  BufferLimit,  \* blocks the server buffers for a device
  MaxConns,     \* bound: connections
  MaxTyped,     \* bound: blocks typed
  MaxRead,      \* bound: blocks read from a device during one attachment
  MaxUpsets     \* bound: broken connections, time-outs, refusals, failures, and
                \*        changes of rig, mode or privilege

ASSUME SerialAssumption ==
  /\ NoBlock \notin Nat
  /\ Streams \in Nat \ {0} /\ BufferLimit \in Nat \ {0} /\ MaxConns \in Nat
  /\ MaxTyped \in Nat /\ MaxRead \in Nat /\ MaxUpsets \in Nat

VARIABLES
  exports,      \* exports[]: struct serial_export of each device
  issued,       \* the stream identifiers issued to each connection
  sessions,     \* the connections the server has
  may,          \* the user may use the devices
  b,            \* serial_binding_t of the endpoint
  active,       \* what modem_mode_active returns
  conn, conns,  \* the client's connection (0: none), and how many there were
  up, down,     \* messages to the server, by connection, and to the client
  typed,        \* blocks typed so far
  upsets,       \* upsets so far
  \* History, read by properties only.
  wrote,        \* what each device was sent, with its attachment
  heard         \* what the endpoint got during its last attachment

vars == <<exports, issued, sessions, may, b, active, conn, conns, up, down,
          typed, upsets, wrote, heard>>

Export == [
  owner : 0..MaxConns, stream : 0..Streams,
  tx_seq : 0..MaxTyped, rx_seq : 0..MaxRead,
  rx_pending : BOOLEAN, close_pending : BOOLEAN,
  pending : 1..MaxTyped \cup {NoBlock},
  buffer : Seq(1..MaxRead), read : 0..MaxRead]

Binding == [
  host_port : Port, stream : 0..Streams,
  tx_seq : 0..MaxTyped, rx_seq : 0..MaxRead,
  opening : BOOLEAN, tx_pending : BOOLEAN, rx_pending : BOOLEAN, failed : BOOLEAN,
  host_pending : Seq(1..MaxTyped)]

Closed == [owner |-> 0, stream |-> 0, tx_seq |-> 0, rx_seq |-> 0,
           rx_pending |-> FALSE, close_pending |-> FALSE, pending |-> NoBlock,
           buffer |-> <<>>, read |-> 0]

Unattached(port) == [host_port |-> port, stream |-> 0, tx_seq |-> 0, rx_seq |-> 0,
                     opening |-> FALSE, tx_pending |-> FALSE, rx_pending |-> FALSE,
                     failed |-> FALSE, host_pending |-> <<>>]

Init ==
  /\ exports = [p \in Port |-> Closed]
  /\ issued = [c \in 1..MaxConns |-> 0] /\ sessions = {} /\ may = TRUE
  /\ b \in {Unattached(p) : p \in Port} /\ active = TRUE
  /\ conn = 0 /\ conns = 0
  /\ up = [c \in 1..MaxConns |-> <<>>] /\ down = <<>>
  /\ typed = 0 /\ upsets = 0
  /\ wrote = [p \in Port |-> <<>>]
  /\ heard = [conn |-> 0, stream |-> 0, blocks |-> <<>>]

Upset == upsets < MaxUpsets /\ upsets' = upsets + 1

\* Something happens by itself, or as an upset.
Perhaps(upset) == IF upset THEN Upset ELSE UNCHANGED upsets

----------------------------------------------------------------------------
(* The client.  A handler leaves the binding b and the messages out to send. *)

\* host_command and the data frame.  Nothing is sent without a connection.
Send(e, m) == IF conn = 0 THEN e ELSE [e EXCEPT !.out = Append(@, m)]

Opens(e) == Send(e, [cmd |-> "open", port |-> e.b.host_port])
Closes(e) == Send(e, [cmd |-> "close", stream |-> e.b.stream])
Reads(e) == Send(e, [cmd |-> "read", stream |-> e.b.stream, seq |-> e.b.rx_seq])

\* Unacknowledged bytes are dropped.
host_retry(e) ==
  [e EXCEPT !.b = [Unattached(e.b.host_port) EXCEPT !.failed = TRUE]]

\* Mutant: a block stays queued until it is acknowledged.
TransmitsKeeps(e) ==
  [Send(e, [cmd |-> "frame", stream |-> e.b.stream, seq |-> e.b.tx_seq + 1,
            block |-> Head(e.b.host_pending)])
     EXCEPT !.b.tx_seq = @ + 1, !.b.tx_pending = TRUE]

Transmits(e) ==
  [Send(e, [cmd |-> "frame", stream |-> e.b.stream, seq |-> e.b.tx_seq + 1,
            block |-> Head(e.b.host_pending)])
     EXCEPT !.b.tx_seq = @ + 1, !.b.tx_pending = TRUE, !.b.host_pending = Tail(@)]

\* The mode is not one for a modem: give the device back.
Inactive(e) ==
  [IF e.b.stream # 0 THEN Closes(e) ELSE e EXCEPT
     !.b.stream = 0, !.b.opening = FALSE, !.b.rx_pending = FALSE,
     !.b.tx_pending = FALSE, !.b.failed = FALSE]

Open(e) ==
  IF e.b.opening THEN e ELSE Opens([e EXCEPT !.b.opening = TRUE])

Flow(e, drained, ready) ==
  LET r == IF e.b.rx_pending /\ drained
             THEN [Reads(e) EXCEPT !.b.rx_pending = FALSE] ELSE e
  IN  IF r.b.tx_pending \/ r.b.host_pending = <<>> \/ ~ready THEN r
      ELSE Transmits(r)

\* late: the open takes more than ten seconds; due: the retry delay is over;
\* drained: the endpoint took what was written to it; ready: the connection
\* takes a frame.
host_sync(e, late, due, drained, ready) ==
  IF ~active THEN Inactive(e)
  ELSE IF conn = 0 \/ (e.b.failed /\ ~due) THEN e
  ELSE LET r == [e EXCEPT !.b.failed = FALSE]
       IN  IF r.b.opening /\ late THEN host_retry(r)
           ELSE IF r.b.stream = 0 THEN Open(r) ELSE Flow(r, drained, ready)

Edit(binding) == [b |-> binding, out |-> <<>>]

\* The handler is done.
Done(e) ==
  /\ b' = e.b
  /\ up' = IF conn = 0 THEN up ELSE [up EXCEPT ![conn] = @ \o e.out]

Server == <<exports, issued, sessions, may, wrote>>

host_tick(late) ==
  /\ Perhaps(late)
  /\ late => b.opening /\ active /\ conn # 0
  /\ \E due, drained, ready \in BOOLEAN :
       Done(host_sync(Edit(b), late, due, drained, ready))
  /\ UNCHANGED <<Server, active, conn, conns, down, typed, heard>>

\* receive: bytes from the endpoint.  It is not read while failed.
receive(late) ==
  /\ ~b.failed /\ typed < MaxTyped
  /\ Perhaps(late)
  /\ late => b.opening /\ active /\ conn # 0
  /\ typed' = typed + 1
  /\ \E drained, ready \in BOOLEAN :
       Done(host_sync(Edit([b EXCEPT !.host_pending = Append(@, typed + 1)]),
                      late, FALSE, drained, ready))
  /\ UNCHANGED <<Server, active, conn, conns, down, heard>>

\* rr_sercom_focus_room: the endpoint follows the operator to another rig.
focus_room(port) ==
  /\ port # b.host_port /\ Upset
  /\ LET left == IF b.stream # 0 THEN Closes(Edit(b)) ELSE Edit(b)
     IN Done(host_sync([left EXCEPT !.b = Unattached(port)], FALSE, FALSE, FALSE, FALSE))
  /\ UNCHANGED <<Server, active, conn, conns, down, typed, heard>>

\* The rig's mode changes; host_sync finds out.
ModeChange ==
  /\ Upset
  /\ active' = ~active
  /\ UNCHANGED <<Server, b, conn, conns, up, down, typed, heard>>

\* host_connection(authorized).
Authorized ==
  /\ conn = 0 /\ conns < MaxConns
  /\ conns' = conns + 1 /\ conn' = conns + 1
  /\ sessions' = sessions \cup {conns + 1}
  /\ LET fresh == [Unattached(b.host_port) EXCEPT !.host_pending = b.host_pending]
     IN IF active
          THEN /\ b' = [fresh EXCEPT !.opening = TRUE]
               /\ up' = [up EXCEPT ![conns + 1] =
                           <<[cmd |-> "open", port |-> b.host_port]>>]
          ELSE b' = fresh /\ UNCHANGED up
  /\ UNCHANGED <<exports, issued, may, wrote, active, down, typed, upsets, heard>>

\* host_connection(disconnected).
Disconnected ==
  /\ conn # 0 /\ Upset
  /\ conn' = 0 /\ b' = Unattached(b.host_port) /\ down' = <<>>
  /\ UNCHANGED <<Server, active, conns, up, typed, heard>>

----------------------------------------------------------------------------
(* Messages from the server *)

Opened(m, ready) ==
  IF ~b.opening THEN Edit(b)
  ELSE host_sync(Edit([b EXCEPT !.stream = m.stream, !.opening = FALSE, !.failed = FALSE]),
                 FALSE, FALSE, FALSE, ready)

Written(m, drained, ready) ==
  IF m.stream = b.stream /\ b.tx_pending /\ m.seq = b.tx_seq
    THEN host_sync(Edit([b EXCEPT !.tx_pending = FALSE]), FALSE, FALSE, drained, ready)
    ELSE Edit(b)

\* Mutant: a refusal counts during an open only.
RefusedOpening(m) == IF ~b.opening THEN Edit(b) ELSE host_retry(Edit(b))

\* "error" and "closed"; stream 0 is no stream.
Refused(m) ==
  IF m.stream # 0 /\ m.stream # b.stream THEN Edit(b) ELSE host_retry(Edit(b))

Accepts(m) == ~b.rx_pending /\ m.seq = b.rx_seq + 1

Hears(m) ==
  IF heard.conn = conn /\ heard.stream = m.stream
    THEN [heard EXCEPT !.blocks = Append(@, m.block)]
    ELSE [conn |-> conn, stream |-> m.stream, blocks |-> <<m.block>>]

\* host_frame.  blocked: the endpoint does not take the bytes.
host_frame(m, blocked) ==
  /\ Perhaps(blocked)
  /\ IF b.stream # m.stream
       THEN Done(Edit(b)) /\ UNCHANGED heard
       ELSE IF blocked \/ ~Accepts(m)
         THEN Done(host_retry(Closes(Edit(b)))) /\ UNCHANGED heard
         ELSE /\ Done(Edit([b EXCEPT !.rx_seq = m.seq, !.rx_pending = TRUE]))
              /\ heard' = Hears(m)

host_message(m) ==
  /\ \E drained, ready \in BOOLEAN :
       Done(CASE m.cmd = "opened" -> Opened(m, ready)
              [] m.cmd = "written" -> Written(m, drained, ready)
              [] m.cmd \in {"error", "closed"} -> Refused(m))
  /\ UNCHANGED <<upsets, heard>>

ClientReads(blocked) ==
  /\ down # <<>> /\ down' = Tail(down)
  /\ IF Head(down).cmd = "frame"
       THEN host_frame(Head(down), blocked)
       ELSE ~blocked /\ host_message(Head(down))
  /\ UNCHANGED <<Server, active, conn, conns, typed>>

----------------------------------------------------------------------------
(* The server *)

\* reply, to the connection c.
Reply(c, msgs) == down' = IF c = conn THEN down \o msgs ELSE down

Error(stream) == <<[cmd |-> "error", stream |-> stream]>>
ClosedReply(p) == <<[cmd |-> "closed", stream |-> exports[p].stream]>>

owned(c) == {p \in Port : exports[p].owner = c}

\* Mutant: the buffer of the last attachment survives.
ClosePortKeepsBuffer(p) ==
  [exports[p] EXCEPT
     !.owner = 0, !.stream = 0, !.rx_pending = FALSE, !.close_pending = FALSE,
     !.pending = NoBlock, !.read = 0]

close_port(p) ==
  [exports[p] EXCEPT
     !.owner = 0, !.stream = 0, !.rx_pending = FALSE, !.close_pending = FALSE,
     !.pending = NoBlock, !.buffer = <<>>, !.read = 0]

\* allocate_stream: an identifier is used once per connection.
allocate_stream(c) == IF issued[c] < Streams THEN issued[c] + 1 ELSE 0

\* request "open".  fails: the device is busy or cannot be opened.
open(c, port, fails) ==
  /\ UNCHANGED wrote
  /\ \/ /\ owned(c) # {} /\ ~fails
        /\ Reply(c, IF may /\ owned(c) = {port}
                    THEN <<[cmd |-> "opened", stream |-> exports[port].stream]>>
                    ELSE Error(0))
        /\ UNCHANGED <<exports, issued>>
     \/ /\ owned(c) = {}
        /\ LET stream == allocate_stream(c)
           IN IF ~may \/ exports[port].owner # 0 \/ fails \/ stream = 0
                THEN Reply(c, Error(0)) /\ UNCHANGED <<exports, issued>>
                ELSE /\ exports' = [exports EXCEPT ![port] =
                          [@ EXCEPT !.owner = c, !.stream = stream,
                                    !.tx_seq = 0, !.rx_seq = 0]]
                     /\ issued' = [issued EXCEPT ![c] = stream]
                     /\ Reply(c, <<[cmd |-> "opened", stream |-> stream]>>)

Finish(c, p) ==
  IF exports[p].pending = NoBlock
    THEN /\ Reply(c, ClosedReply(p))
         /\ exports' = [exports EXCEPT ![p] = close_port(p)]
    ELSE /\ exports' = [exports EXCEPT ![p].close_pending = TRUE]
         /\ UNCHANGED down

Acknowledge(p, seq) ==
  /\ exports' = [exports EXCEPT ![p].rx_pending = @ /\ seq # exports[p].rx_seq]
  /\ UNCHANGED down

\* request "close" and "read".
request(c, m) ==
  /\ UNCHANGED <<issued, wrote>>
  /\ IF owned(c) = {} \/ ~may
       THEN Reply(c, Error(0)) /\ UNCHANGED exports
       ELSE \E p \in owned(c) :
              IF m.stream # 0 /\ m.stream # exports[p].stream
                THEN UNCHANGED <<exports, down>>
                ELSE IF m.cmd = "close" THEN Finish(c, p) ELSE Acknowledge(p, m.seq)

\* Mutant: a frame out of sequence is ignored.
FrameIgnored(c, m) ==
  /\ UNCHANGED <<issued, wrote>>
  /\ LET to == {p \in owned(c) : exports[p].stream = m.stream /\ may}
     IN \/ to = {} /\ UNCHANGED <<exports, down>>
        \/ \E p \in to :
             IF exports[p].pending # NoBlock \/ m.seq # exports[p].tx_seq + 1
               THEN UNCHANGED <<exports, down>>
               ELSE /\ exports' = [exports EXCEPT ![p].pending = m.block,
                                                  ![p].tx_seq = m.seq]
                    /\ UNCHANGED down

frame(c, m) ==
  /\ UNCHANGED <<issued, wrote>>
  /\ LET to == {p \in owned(c) : exports[p].stream = m.stream /\ may}
     IN \/ to = {} /\ UNCHANGED <<exports, down>>
        \/ \E p \in to :
             IF exports[p].pending # NoBlock \/ m.seq # exports[p].tx_seq + 1
               THEN /\ Reply(c, Error(m.stream))
                    /\ exports' = [exports EXCEPT ![p] = close_port(p)]
               ELSE /\ exports' = [exports EXCEPT ![p].pending = m.block,
                                                  ![p].tx_seq = m.seq]
                    /\ UNCHANGED down

ServerReads(c, fails) ==
  /\ c \in sessions /\ up[c] # <<>>
  /\ Perhaps(fails)
  /\ up' = [up EXCEPT ![c] = Tail(@)]
  /\ LET m == Head(up[c])
     IN CASE m.cmd = "open" -> open(c, m.port, fails)
          [] m.cmd = "frame" -> ~fails /\ frame(c, m)
          [] m.cmd \in {"close", "read"} -> ~fails /\ request(c, m)
  /\ UNCHANGED <<sessions, may, b, active, conn, conns, typed, heard>>

\* closed: the server notices that a connection is gone.
closed(c) ==
  /\ c \in sessions /\ c # conn
  /\ sessions' = sessions \ {c}
  /\ exports' = [p \in Port |-> IF exports[p].owner = c THEN close_port(p) ELSE exports[p]]
  /\ up' = [up EXCEPT ![c] = <<>>]
  /\ UNCHANGED <<issued, may, b, active, conn, conns, down, typed, upsets, wrote, heard>>

\* The user's privilege changes.  It is not given back before the next poll,
\* which the main loop makes in every round.
Privilege ==
  /\ Upset
  /\ may \/ \A p \in Port : exports[p].owner = 0
  /\ may' = ~may
  /\ UNCHANGED <<exports, issued, sessions, b, active, conn, conns, up, down,
                 typed, wrote, heard>>

----------------------------------------------------------------------------
(* rrserver_serial_poll, for one device *)

\* The pending block has been written.
WritesOut(p) ==
  wrote' = [wrote EXCEPT ![p] = Append(@,
    [conn |-> exports[p].owner, stream |-> exports[p].stream, block |-> exports[p].pending])]

\* The exported device after a read of one more block.
ReadIn(x) ==
  IF Len(x.buffer) < BufferLimit /\ x.read < MaxRead
    THEN [x EXCEPT !.buffer = Append(@, x.read + 1), !.read = @ + 1] ELSE x

CanSend(x) == ~x.rx_pending /\ x.buffer # <<>>

SendsOn(x) ==
  [x EXCEPT !.rx_seq = @ + 1, !.rx_pending = TRUE, !.buffer = Tail(@)]

\* writes: the device takes the pending block; reads: it has data; ready: the
\* connection takes a frame; fails: the device or worker fails.
poll(p, writes, reads, ready, fails) ==
  /\ exports[p].owner # 0
  /\ writes => exports[p].pending # NoBlock
  /\ Perhaps(fails)
  /\ LET x == exports[p]
         done == IF writes THEN <<[cmd |-> "written", stream |-> x.stream, seq |-> x.tx_seq]>>
                 ELSE <<>>
         y == IF writes THEN [x EXCEPT !.pending = NoBlock] ELSE x
         z == IF reads THEN ReadIn(y) ELSE y
     IN IF ~may \/ fails
          THEN /\ ~writes /\ ~reads /\ ~ready
               /\ Reply(x.owner, ClosedReply(p))
               /\ exports' = [exports EXCEPT ![p] = close_port(p)]
               /\ UNCHANGED wrote
          ELSE /\ IF writes THEN WritesOut(p) ELSE UNCHANGED wrote
               /\ IF writes /\ x.close_pending
                    THEN /\ ~reads /\ ~ready
                         /\ Reply(x.owner, done \o ClosedReply(p))
                         /\ exports' = [exports EXCEPT ![p] = close_port(p)]
                    ELSE IF ready /\ CanSend(z)
                      THEN /\ Reply(x.owner, done \o
                                <<[cmd |-> "frame", stream |-> z.stream,
                                   seq |-> z.rx_seq + 1, block |-> Head(z.buffer)]>>)
                           /\ exports' = [exports EXCEPT ![p] = SendsOn(z)]
                      ELSE /\ Reply(x.owner, done)
                           /\ exports' = [exports EXCEPT ![p] = z]
  /\ UNCHANGED <<issued, sessions, may, b, active, conn, conns, up, typed, heard>>

----------------------------------------------------------------------------
Next ==
  \/ \E late \in BOOLEAN : host_tick(late) \/ receive(late)
  \/ \E p \in Port : focus_room(p)
  \/ ModeChange
  \/ Authorized \/ Disconnected
  \/ \E blocked \in BOOLEAN : ClientReads(blocked)
  \/ \E c \in 1..MaxConns, fails \in BOOLEAN : ServerReads(c, fails)
  \/ \E c \in 1..MaxConns : closed(c)
  \/ Privilege
  \/ \E p \in Port : \E writes, reads, ready, fails \in BOOLEAN :
       poll(p, writes, reads, ready, fails)

Spec == Init /\ [][Next]_vars

\* What the scheduling gives: the server reads the messages of the client's
\* connection and polls its devices, a device takes what is written to it in
\* the end, and the client reads its messages.
ServerWorks == \E fails \in BOOLEAN : conn # 0 /\ ServerReads(conn, fails)
ClientWorks == \E blocked \in BOOLEAN : ClientReads(blocked)
PollWorks(p) ==
  \E writes, reads, ready, fails \in BOOLEAN :
    (writes \/ ~may) /\ poll(p, writes, reads, ready, fails)

ServerDue == conn # 0 /\ up[conn] # <<>>
ClientDue == down # <<>>
PollDue(p) == exports[p].owner # 0 /\ (exports[p].pending # NoBlock \/ ~may)

\* Weak fairness of each; the "due" predicates say when it is enabled.
Fairness ==
  /\ []<>~ServerDue \/ []<><<ServerWorks>>_vars
  /\ []<>~ClientDue \/ []<><<ClientWorks>>_vars
  /\ \A p \in Port : []<>~PollDue(p) \/ []<><<PollWorks(p)>>_vars

FairSpec == Spec /\ Fairness

----------------------------------------------------------------------------
(* Properties *)

\* Type invariant of both ends.
TypeOK ==
  /\ exports \in [Port -> Export] /\ b \in Binding
  /\ issued \in [1..MaxConns -> 0..Streams] /\ sessions \subseteq 1..MaxConns
  /\ may \in BOOLEAN /\ active \in BOOLEAN
  /\ conn \in 0..MaxConns /\ conns \in 0..MaxConns
  /\ typed \in 0..MaxTyped /\ upsets \in 0..MaxUpsets

SameAttachment(r, s) == r.conn = s.conn /\ r.stream = s.stream

\* "replaying AT/CAT commands after reconnect could execute them twice on the
\* physical device": a device gets the blocks typed in order and none twice,
\* over retries, reconnections and changes of rig; and during one attachment it
\* gets all of them ("backpressure rather than silently dropping").
WrittenOnce ==
  \A p \in Port : \A i \in 1 .. Len(wrote[p]) - 1 :
    LET r == wrote[p][i]
        s == wrote[p][i + 1]
    IN  IF SameAttachment(r, s) THEN s.block = r.block + 1 ELSE s.block > r.block

\* What the endpoint hears is what the device said since it was attached, from
\* the first block on, without a gap or a repetition.
HeardInOrder == \A i \in DOMAIN heard.blocks : heard.blocks[i] = i

Says(m) == m.cmd \in {"closed", "error"} /\ m.stream \in {0, b.stream}

\* An endpoint that is shown as connected has a device at the server that goes
\* by its stream, or the news that it was closed is on its way.  (With the type
\* invariant of both ends.)
NoGhost ==
  /\ TypeOK
  /\ conn # 0 /\ b.stream # 0 =>
       \/ \E p \in owned(conn) : exports[p].stream = b.stream
       \/ \E i \in DOMAIN down : Says(down[i])

\* A block the endpoint has sent is answered, by the acknowledgement, a refusal
\* or the end of the attachment: the endpoint never waits for ever.
SendResolves == []<>~b.tx_pending
=============================================================================
