---------------------------- MODULE SerialProofs ----------------------------
(***************************************************************************)
(* What Serial promises of a tunnel, for every number of devices, stream   *)
(* identifiers, connections, blocks and upsets: a device gets the blocks   *)
(* typed in order, none twice and none skipped during an attachment; the   *)
(* endpoint hears the device from its first block on without a gap; and no *)
(* endpoint is shown as connected to a device it does not have.            *)
(***************************************************************************)
EXTENDS Serial, ListsProofs

----------------------------------------------------------------------------
(* Shapes, with counters that the type invariant bounds *)

Bind == [
  host_port : Port, stream : Nat, tx_seq : Nat, rx_seq : Nat,
  opening : BOOLEAN, tx_pending : BOOLEAN, rx_pending : BOOLEAN, failed : BOOLEAN,
  host_pending : Seq(Nat)]

Device == [
  owner : Nat, stream : Nat, tx_seq : Nat, rx_seq : Nat,
  rx_pending : BOOLEAN, close_pending : BOOLEAN,
  pending : Nat \cup {NoBlock}, buffer : Seq(Nat), read : Nat]

Conn == 1..MaxConns

ToServer ==
  [cmd : {"open"}, port : Port]
    \cup [cmd : {"close"}, stream : Nat]
    \cup [cmd : {"read"}, stream : Nat, seq : Nat]
    \cup [cmd : {"frame"}, stream : Nat, seq : Nat, block : Nat]

ToClient ==
  [cmd : {"opened", "error", "closed"}, stream : Nat]
    \cup [cmd : {"written"}, stream : Nat, seq : Nat]
    \cup [cmd : {"frame"}, stream : Nat, seq : Nat, block : Nat]

Entry == [conn : Nat, stream : Nat, block : Nat]

Shape ==
  /\ exports \in [Port -> Device] /\ b \in Bind
  /\ issued \in [Conn -> 0..Streams] /\ sessions \subseteq Conn
  /\ may \in BOOLEAN /\ active \in BOOLEAN
  /\ conn \in 0..MaxConns /\ conns \in 0..MaxConns
  /\ typed \in 0..MaxTyped /\ upsets \in 0..MaxUpsets
  /\ up \in [Conn -> Seq(ToServer)] /\ down \in Seq(ToClient)
  /\ wrote \in [Port -> Seq(Entry)]
  /\ heard \in [conn : Nat, stream : Nat, blocks : Seq(Nat)]

\* The client is on its newest connection or on none; what is to come is
\* untouched.
Connections ==
  /\ conn \in {0, conns} /\ heard.conn <= conns
  /\ \A c \in Conn : c > conns => up[c] = <<>>
  /\ conn = 0 => b.stream = 0 /\ down = <<>>
  /\ b.opening => b.stream = 0

\* A device has one owner at most and an owner one device, which goes by the
\* newest identifier of the connection.
Owners ==
  \A p \in Port :
    /\ exports[p].owner <= conns
    /\ exports[p].owner # 0 =>
         /\ exports[p].stream = issued[exports[p].owner] /\ exports[p].stream # 0
         /\ \A q \in Port : exports[q].owner = exports[p].owner => q = p
    /\ exports[p].owner = 0 =>
         /\ exports[p].pending = NoBlock /\ exports[p].buffer = <<>>
         /\ exports[p].read = 0 /\ ~exports[p].rx_pending
    /\ exports[p].pending # NoBlock => exports[p].tx_seq # 0

----------------------------------------------------------------------------
(* Identifiers only grow *)

IsFrame(m) == m.cmd = "frame"
IsOpened(m) == m.cmd = "opened"

\* The frames of q go by identifiers that never fall, ...
Rising(q) ==
  \A i \in 1..Len(q) : IsFrame(q[i]) =>
    /\ q[i].stream # 0
    /\ \A k \in 1..Len(q) : IsFrame(q[k]) /\ i < k => q[i].stream <= q[k].stream

\* ... by none above s, or all by s.
UpTo(q, s) == \A i \in 1..Len(q) : IsFrame(q[i]) => q[i].stream <= s
AllOf(q, s) == \A i \in 1..Len(q) : IsFrame(q[i]) => q[i].stream = s

\* The device p has accepted a frame of connection c.
Begins(p, c) == exports[p].owner = c /\ exports[p].tx_seq # 0

\* Along a connection, from the device to the frames still unread, ...
FrameStreams ==
  \A c \in Conn :
    /\ Rising(up[c]) /\ UpTo(up[c], issued[c])
    /\ \A p \in Port : Begins(p, c) => AllOf(up[c], exports[p].stream)

\* ... what the endpoint goes by, or will ...
Follows(s) ==
  /\ s # 0 /\ s <= issued[conn]
  /\ heard.conn = conn => heard.stream <= s
  /\ UpTo(up[conn], s)
  /\ \A p \in Port : Begins(p, conn) => exports[p].stream = s

BindingStream == conn # 0 /\ b.stream # 0 => Follows(b.stream)

\* ... when it reads the answers it has not read yet.
OpenedStreams ==
  conn # 0 => \A k \in 1..Len(down) : IsOpened(down[k]) =>
    /\ Follows(down[k].stream) /\ b.stream <= down[k].stream
    /\ \A i \in 1..Len(down) : IsOpened(down[i]) /\ i < k => down[i].stream <= down[k].stream

\* What was heard came by an identifier of its connection.
HeardStream == heard.conn # 0 => heard.stream <= issued[heard.conn]

StreamsGrow == FrameStreams /\ BindingStream /\ OpenedStreams /\ HeardStream

----------------------------------------------------------------------------
(* From the endpoint to the device *)

\* Blocks q are queued, the last of the first t.
Queue(q, t) == Len(q) <= t /\ \A i \in 1..Len(q) : q[i] = t - Len(q) + i

\* The blocks sent or given up; what is queued follows them.
Sent == typed - Len(b.host_pending)

Contiguous == Queue(b.host_pending, typed) /\ b.tx_seq <= Sent

\* A frame with which the client starts to count anew.
Restart(q, i, k) == \E j \in i..k : IsFrame(q[j]) /\ q[j].seq = 1

\* Between two such frames blocks and sequence numbers go together; n blocks
\* have been sent.
FramesJoined(q, n) ==
  \A i \in 1..Len(q) : IsFrame(q[i]) =>
    /\ q[i].seq # 0 /\ q[i].block # 0 /\ q[i].block <= n
    /\ \A k \in 1..Len(q) : IsFrame(q[k]) /\ i < k =>
         /\ q[i].block < q[k].block
         /\ q[k].block - q[k].seq = q[i].block - q[i].seq \/ Restart(q, i + 1, k)

\* The frame that is sent after n blocks and number t goes with block x and
\* number k of a frame behind which the messages from position i on are unread.
GoesOn(q, i, n, t, x, k) == t = 0 \/ n - t = x - k \/ Restart(q, i, Len(q))

OwnJoined(q, n, t) ==
  \A i \in 1..Len(q) : IsFrame(q[i]) => GoesOn(q, i + 1, n, t, q[i].block, q[i].seq)

\* What is unread goes with block x and number k, accepted last.
DeviceJoined(q, x, k) ==
  \A i \in 1..Len(q) : IsFrame(q[i]) =>
    q[i].block - q[i].seq = x - k \/ Restart(q, 1, i)

\* What is unread of attachment s is newer than block x.
Above(q, s, x) ==
  \A i \in 1..Len(q) : IsFrame(q[i]) /\ q[i].stream = s => x < q[i].block

\* The last block a device accepted.
LastBlock(p) ==
  IF exports[p].pending # NoBlock THEN exports[p].pending
                                  ELSE wrote[p][Len(wrote[p])].block

ServerJoined ==
  \A p \in Port : LET x == exports[p] IN
    may /\ x.owner # 0 /\ x.tx_seq # 0 =>
      /\ DeviceJoined(up[x.owner], LastBlock(p), x.tx_seq)
      /\ x.owner = conn =>
           GoesOn(up[conn], 1, Sent, b.tx_seq, LastBlock(p), x.tx_seq)

\* What a device was sent is older than what it is to be sent.
Ledger ==
  \A p \in Port : \A i \in 1..Len(wrote[p]) : LET w == wrote[p][i] x == exports[p] IN
    /\ w.conn \in Conn /\ w.stream <= issued[w.conn] /\ w.block <= Sent
    /\ \A k \in 1..Len(wrote[p]) : i < k => w.block < wrote[p][k].block
    /\ x.pending # NoBlock => w.block < x.pending
    /\ x.owner # 0 => Above(up[x.owner], x.stream, w.block)

\* The last block written belongs to the present attachment.
WroteNow(p) ==
  /\ wrote[p] # <<>>
  /\ SameAttachment(wrote[p][Len(wrote[p])],
                    [conn |-> exports[p].owner, stream |-> exports[p].stream])

\* A device that has accepted a frame has the last one still pending, or wrote
\* it last.
Accepted ==
  \A p \in Port : LET x == exports[p] IN x.owner # 0 =>
    /\ x.pending # NoBlock =>
         /\ x.pending # 0 /\ x.pending <= Sent /\ Above(up[x.owner], x.stream, x.pending)
         /\ WroteNow(p) => x.pending = wrote[p][Len(wrote[p])].block + 1
    /\ x.pending = NoBlock => (x.tx_seq # 0 <=> WroteNow(p))
    /\ x.tx_seq = 0 => ~WroteNow(p)

WInv ==
  /\ Contiguous
  /\ \A c \in Conn : FramesJoined(up[c], Sent)
  /\ conn # 0 => OwnJoined(up[conn], Sent, b.tx_seq)
  /\ ServerJoined
  /\ Ledger
  /\ Accepted
  /\ WrittenOnce

----------------------------------------------------------------------------
(* From the device to the endpoint *)

\* The buffer of a device continues what was sent on.
Buffered ==
  \A p \in Port : LET x == exports[p] IN x.owner # 0 =>
    /\ x.read = x.rx_seq + Len(x.buffer) /\ x.read <= MaxRead
    /\ \A i \in 1..Len(x.buffer) : x.buffer[i] = x.rx_seq + i

\* Identifiers the endpoint has heard nothing of.
Unheard(s) == heard.conn # conn \/ heard.stream < s

\* The frames on their way to the endpoint.
FramesDown ==
  \A i \in 1..Len(down) : IsFrame(down[i]) =>
    /\ down[i].stream # 0 /\ down[i].stream <= issued[conn]
    /\ down[i].block = down[i].seq /\ down[i].seq # 0 /\ down[i].seq <= MaxRead
    /\ Unheard(down[i].stream) => down[i].seq = 1
    /\ heard.conn = conn /\ heard.stream = down[i].stream => Len(heard.blocks) < down[i].seq
    /\ \A k \in 1..Len(down) : IsFrame(down[k]) /\ i < k /\ down[i].stream = down[k].stream =>
         down[i].seq < down[k].seq
    /\ \A p \in Port : exports[p].owner = conn /\ exports[p].stream = down[i].stream =>
         down[i].seq <= exports[p].rx_seq

\* A device of which nothing was heard has sent one frame at most.
FramesSent ==
  conn # 0 => \A p \in Port : LET x == exports[p] IN x.owner = conn =>
    /\ Unheard(x.stream) /\ x.rx_seq # 0 => x.rx_seq = 1 /\ x.rx_pending
    /\ heard.conn = conn /\ heard.stream = x.stream => Len(heard.blocks) <= x.rx_seq

\* Acknowledgements are of frames that were heard.
ReadsHeard ==
  conn # 0 => \A i \in 1..Len(up[conn]) : up[conn][i].cmd = "read" =>
    up[conn][i].stream # 0 /\ ~Unheard(up[conn][i].stream)

\* The endpoint counts what it heard, or nothing.
Counts ==
  /\ b.rx_seq <= MaxRead
  /\ b.rx_seq # 0 => heard.conn = conn /\ b.rx_seq = Len(heard.blocks)
  /\ b.rx_pending => b.stream # 0 /\ heard.conn = conn /\ heard.stream = b.stream
  /\ heard.conn # 0 => heard.blocks # <<>>

HInv == Buffered /\ FramesDown /\ FramesSent /\ ReadsHeard /\ Counts /\ HeardInOrder

----------------------------------------------------------------------------
(* Both ends agree on what is attached *)

Attached(s) == \E p \in Port : exports[p].owner = conn /\ exports[p].stream = s

\* The news, behind position i, that s is not attached any more.
Told(s, i) ==
  \E k \in 1..Len(down) : i < k /\ down[k].cmd \in {"closed", "error"} /\ down[k].stream \in {0, s}

GInv ==
  conn # 0 =>
    /\ b.stream # 0 => Attached(b.stream) \/ Told(b.stream, 0)
    /\ \A i \in 1..Len(down) : IsOpened(down[i]) =>
         Attached(down[i].stream) \/ Told(down[i].stream, i)

SerialInv == Shape /\ Connections /\ Owners /\ StreamsGrow /\ WInv /\ HInv /\ GInv

----------------------------------------------------------------------------
(* What a handler of the client does to a binding: e before, f after it *)

Editing == [b : Bind, out : Seq(ToServer)]

\* Messages other than frames, that acknowledge nothing but what x holds.
Plain(x, m) ==
  /\ ~IsFrame(m)
  /\ m.cmd = "read" => x.rx_pending /\ m.stream = x.stream

AllPlain(x, o) == \A i \in 1..Len(o) : Plain(x, o[i])

Sane(x) == /\ x.opening => x.stream = 0
           /\ x.rx_pending => x.stream # 0

\* What is being edited before host_sync looks at it.
Begun(e) ==
  /\ e \in Editing /\ Sane(e.b)
  /\ AllPlain(e.b, e.out)
  /\ conn = 0 => e.out = <<>>

Kept(x, f) ==
  /\ f.b.stream \in {0, x.stream} /\ f.b.tx_seq = x.tx_seq /\ f.b.rx_seq = x.rx_seq
  /\ f.b.host_pending = x.host_pending
  /\ f.b.rx_pending => x.rx_pending /\ f.b.stream = x.stream
  /\ AllPlain(x, f.out)

Dropped(x, f) ==
  /\ f.b.stream = 0 /\ f.b.tx_seq = 0 /\ f.b.rx_seq = 0 /\ f.b.host_pending = <<>>
  /\ ~f.b.rx_pending
  /\ AllPlain(x, f.out)

FrameOf(x) == [cmd |-> "frame", stream |-> x.stream, seq |-> x.tx_seq + 1,
               block |-> Head(x.host_pending)]

Transmitted(x, f) ==
  /\ conn # 0 /\ x.stream # 0 /\ x.host_pending # <<>>
  /\ f.b.stream = x.stream /\ f.b.tx_seq = x.tx_seq + 1 /\ f.b.rx_seq = x.rx_seq
  /\ f.b.host_pending = Tail(x.host_pending)
  /\ f.b.rx_pending => x.rx_pending
  /\ Len(f.out) # 0 /\ f.out[Len(f.out)] = FrameOf(x)
  /\ \A i \in 1..Len(f.out) : i < Len(f.out) => Plain(x, f.out[i])

Handled(x, f) ==
  /\ f \in Editing /\ Sane(f.b)
  /\ conn = 0 => f.out = <<>>
  /\ Kept(x, f) \/ Dropped(x, f) \/ Transmitted(x, f)

\* A message is added to what the handler sends, unless there is no connection.
LEMMA SendAdds ==
  ASSUME NEW e \in Editing, NEW m \in ToServer
  PROVE  /\ Send(e, m) \in Editing /\ Send(e, m).b = e.b
         /\ conn = 0 => Send(e, m).out = e.out
         /\ conn # 0 => Send(e, m).out = Append(e.out, m)
<1>1. CASE conn = 0
  BY <1>1 DEF Send
<1>2. CASE conn # 0
  <2> DEFINE f == [e EXCEPT !.out = Append(@, m)]
  <2>1. Send(e, m) = f
    BY <1>2 DEF Send
  <2>2. f.b = e.b /\ f.out = Append(e.out, m) /\ f \in Editing
    BY DEF Editing
  <2> QED
    BY <1>2, <2>1, <2>2
<1> QED
  BY <1>1, <1>2

\* Appending a message.
LEMMA AppendOne ==
  ASSUME NEW o \in Seq(ToServer), NEW m \in ToServer
  PROVE  /\ Append(o, m) \in Seq(ToServer) /\ Len(o) \in Nat
         /\ Len(Append(o, m)) = Len(o) + 1
         /\ Append(o, m)[Len(o) + 1] = m
         /\ \A i \in 1..Len(o) : Append(o, m)[i] = o[i]
  OBVIOUS

\* A plain message more.
LEMMA SendPlain ==
  ASSUME NEW e \in Editing, NEW m \in ToServer, NEW x,
         Plain(x, m), AllPlain(x, e.out), conn = 0 => e.out = <<>>
  PROVE  /\ Send(e, m) \in Editing /\ Send(e, m).b = e.b
         /\ AllPlain(x, Send(e, m).out)
         /\ conn = 0 => Send(e, m).out = <<>>
<1> DEFINE o == e.out
           r == Append(o, m)
           f == Send(e, m)
<1>1. f \in Editing /\ f.b = e.b /\ (conn = 0 => f.out = o) /\ (conn # 0 => f.out = r)
  BY SendAdds
<1>2. o \in Seq(ToServer)
  BY DEF Editing
<1>3. /\ Len(o) \in Nat /\ Len(r) = Len(o) + 1 /\ r[Len(o) + 1] = m
      /\ \A i \in 1..Len(o) : r[i] = o[i]
  BY <1>2, AppendOne
<1>4. AllPlain(x, o)
  OBVIOUS
<1>5. conn = 0 => o = <<>>
  OBVIOUS
<1> HIDE DEF o, r, f
<1>6. AllPlain(x, r)
  BY <1>3, <1>4 DEF AllPlain
<1>7. AllPlain(x, f.out) /\ (conn = 0 => f.out = <<>>)
  BY <1>1, <1>4, <1>5, <1>6
<1> QED
  BY <1>1, <1>7 DEF f

\* An endpoint without a device.
LEMMA UnattachedFields ==
  ASSUME NEW p \in Port, NEW y, y = Unattached(p)
  PROVE  /\ y \in Bind /\ y.stream = 0 /\ y.tx_seq = 0 /\ y.rx_seq = 0 /\ ~y.opening
         /\ y.host_pending = <<>> /\ ~y.rx_pending
  BY DEF Unattached, Bind

\* host_retry drops what is queued and starts to count anew.
LEMMA RetryDrops ==
  ASSUME NEW e \in Editing, NEW x, AllPlain(x, e.out), conn = 0 => e.out = <<>>
  PROVE  Handled(x, host_retry(e)) /\ Dropped(x, host_retry(e))
<1> DEFINE u == Unattached(e.b.host_port)
           y == [u EXCEPT !.failed = TRUE]
           f == host_retry(e)
<1>1. e.b.host_port \in Port
  BY DEF Editing, Bind
<1>2. /\ u \in Bind /\ u.stream = 0 /\ u.tx_seq = 0 /\ u.rx_seq = 0 /\ ~u.opening
      /\ u.host_pending = <<>> /\ ~u.rx_pending
  BY <1>1, UnattachedFields
<1>3. f = [e EXCEPT !.b = y]
  BY DEF host_retry
<1> HIDE DEF u
<1>4. /\ y \in Bind /\ y.stream = 0 /\ y.tx_seq = 0 /\ y.rx_seq = 0 /\ ~y.opening
      /\ y.host_pending = <<>> /\ ~y.rx_pending
  BY <1>2 DEF Bind
<1> HIDE DEF f, y
<1>5. f.b = y /\ f.out = e.out /\ f \in Editing
  BY <1>3, <1>4 DEF Editing
<1>6. Dropped(x, f)
  BY <1>4, <1>5 DEF Dropped
<1>7. Handled(x, f)
  BY <1>4, <1>5, <1>6 DEF Handled, Sane
<1> QED
  BY <1>6, <1>7 DEF f

\* A mode that is not one for a modem gives the device back.
LEMMA InactiveKeeps ==
  ASSUME NEW e, Begun(e)
  PROVE  Handled(e.b, Inactive(e))
<1> DEFINE x == e.b
           m == [cmd |-> "close", stream |-> x.stream]
           z == IF x.stream # 0 THEN Closes(e) ELSE e
           f == Inactive(e)
<1>1. x \in Bind /\ e \in Editing
  BY DEF Begun, Editing
<1>2. m \in ToServer /\ Plain(x, m)
  BY <1>1 DEF ToServer, Plain, IsFrame, Bind
<1>3. z \in Editing /\ z.b = x /\ AllPlain(x, z.out) /\ (conn = 0 => z.out = <<>>)
  <2>1. CASE x.stream # 0
    <3>1. z = Send(e, m)
      BY <2>1 DEF Closes
    <3> HIDE DEF m, z, x
    <3> QED
      BY <1>1, <1>2, <3>1, SendPlain DEF Begun, x
  <2>2. CASE x.stream = 0
    BY <2>2 DEF Begun
  <2> QED
    BY <2>1, <2>2
<1>4. f = [z EXCEPT !.b.stream = 0, !.b.opening = FALSE, !.b.rx_pending = FALSE,
                    !.b.tx_pending = FALSE, !.b.failed = FALSE]
  BY DEF Inactive
<1> HIDE DEF x, z, f
<1> DEFINE q == z.out
<1>5. z = [b |-> x, out |-> q]
  BY <1>3 DEF Editing
<1> HIDE DEF q
<1>6. /\ f.out = q /\ f.b \in Bind /\ f.b.stream = 0 /\ ~f.b.opening /\ ~f.b.rx_pending
      /\ f.b.tx_seq = x.tx_seq /\ f.b.rx_seq = x.rx_seq /\ f.b.host_pending = x.host_pending
  BY <1>1, <1>4, <1>5 DEF Bind
<1>7. f = [b |-> f.b, out |-> f.out]
  BY <1>3, <1>4 DEF Editing
<1>8. f \in Editing
  BY <1>3, <1>6, <1>7 DEF Editing, q
<1>9. Handled(x, f)
  BY <1>3, <1>6, <1>8 DEF Handled, Kept, Sane, q
<1> QED
  BY <1>9 DEF x, f

\* An endpoint without a device asks for it.
LEMMA OpenKeeps ==
  ASSUME NEW e, Begun(e), e.b.stream = 0
  PROVE  Handled(e.b, Open(e))
<1> DEFINE x == e.b
           m == [cmd |-> "open", port |-> x.host_port]
           z == [e EXCEPT !.b.opening = TRUE]
           f == Open(e)
<1>1. x \in Bind /\ e \in Editing /\ x.stream = 0 /\ ~x.rx_pending
  BY DEF Begun, Editing, Sane, Bind
<1>2. m \in ToServer /\ Plain(x, m)
  BY <1>1 DEF ToServer, Plain, IsFrame, Bind
<1>3. CASE x.opening
  <2>1. f = e
    BY <1>3 DEF Open
  <2> HIDE DEF f
  <2> QED
    BY <1>1, <2>1 DEF Handled, Kept, Begun, f
<1>4. CASE ~x.opening
  <2>1. f = Send(z, [cmd |-> "open", port |-> z.b.host_port])
    BY <1>4 DEF Open, Opens
  <2>2. z.b \in Bind /\ z.out = e.out /\ z.b.host_port = x.host_port /\ z.b.stream = 0
    BY <1>1 DEF Editing, Bind
  <2>3. /\ z.b.tx_seq = x.tx_seq /\ z.b.rx_seq = x.rx_seq
        /\ z.b.host_pending = x.host_pending /\ z.b.rx_pending = x.rx_pending
    BY <1>1 DEF Editing, Bind
  <2>4. z \in Editing
    BY <1>1, <2>2 DEF Editing
  <2>5. f = Send(z, m)
    BY <2>1, <2>2
  <2> HIDE DEF x, m, z, f
  <2>6. AllPlain(x, z.out) /\ (conn = 0 => z.out = <<>>)
    BY <2>2 DEF Begun, x
  <2>7. f \in Editing /\ f.b = z.b /\ AllPlain(x, f.out) /\ (conn = 0 => f.out = <<>>)
    BY <1>2, <2>4, <2>5, <2>6, SendPlain
  <2>8. Handled(x, f)
    BY <1>1, <2>2, <2>3, <2>7 DEF Handled, Kept, Sane
  <2> QED
    BY <2>8 DEF x, f
<1> QED
  BY <1>3, <1>4

\* The acknowledgement of what the endpoint took.
LEMMA ReadKeeps ==
  ASSUME NEW e, Begun(e), e.b.rx_pending,
         NEW f, f = [Reads(e) EXCEPT !.b.rx_pending = FALSE]
  PROVE  /\ f \in Editing /\ Sane(f.b) /\ Kept(e.b, f) /\ f.b.stream = e.b.stream
         /\ f.b.tx_pending = e.b.tx_pending
         /\ conn = 0 => f.out = <<>>
<1> DEFINE x == e.b
           m == [cmd |-> "read", stream |-> x.stream, seq |-> x.rx_seq]
           z == Reads(e)
<1>1. x \in Bind /\ e \in Editing /\ Sane(x) /\ x.rx_pending
  BY DEF Begun, Editing
<1>2. m \in ToServer /\ Plain(x, m)
  BY <1>1 DEF ToServer, Plain, IsFrame, Bind
<1>3. z = Send(e, m)
  BY DEF Reads
<1> HIDE DEF x, m, z
<1>4. AllPlain(x, e.out) /\ (conn = 0 => e.out = <<>>)
  BY DEF Begun, x
<1>5. z \in Editing /\ z.b = e.b /\ AllPlain(x, z.out) /\ (conn = 0 => z.out = <<>>)
  BY <1>1, <1>2, <1>3, <1>4, SendPlain
<1>6. f = [z EXCEPT !.b.rx_pending = FALSE]
  BY DEF z
<1> DEFINE q == z.out
<1>7. z = [b |-> x, out |-> q]
  BY <1>5 DEF Editing, x
<1> HIDE DEF q
<1> DEFINE y == [x EXCEPT !.rx_pending = FALSE]
<1>8. f = [b |-> y, out |-> q]
  BY <1>6, <1>7
<1>9. /\ y \in Bind /\ y.stream = x.stream /\ ~y.rx_pending
      /\ y.tx_seq = x.tx_seq /\ y.rx_seq = x.rx_seq /\ y.host_pending = x.host_pending
      /\ y.opening = x.opening /\ y.tx_pending = x.tx_pending
  BY <1>1 DEF Bind
<1> HIDE DEF y
<1>10. /\ f.out = q /\ f.b = y
  BY <1>8
<1>11. q \in Seq(ToServer)
  BY <1>5 DEF Editing, q
<1>12. [b |-> y, out |-> q] \in Editing
  BY <1>9, <1>11 DEF Editing
<1>13. f \in Editing
  BY Zenon, <1>8, <1>12
<1> QED
  BY <1>1, <1>5, <1>9, <1>10, <1>13 DEF Kept, Sane, x, q

\* The first block that is queued is sent.
LEMMA TransmitSends ==
  ASSUME NEW e \in Editing, NEW x, Sane(e.b), Kept(x, e), e.b.stream = x.stream, x.stream # 0,
         x.host_pending # <<>>, x \in Bind, conn # 0
  PROVE  Handled(x, Transmits(e))
<1> DEFINE y == e.b
           m == FrameOf(x)
           z == Send(e, m)
           f == Transmits(e)
           o == e.out
<1>1. /\ y \in Bind /\ y.stream = x.stream /\ y.tx_seq = x.tx_seq /\ y.rx_seq = x.rx_seq
      /\ y.host_pending = x.host_pending /\ (y.rx_pending => x.rx_pending)
      /\ Sane(y) /\ o \in Seq(ToServer) /\ AllPlain(x, o)
  BY DEF Editing, Kept
<1>2. Head(x.host_pending) \in Nat /\ Tail(x.host_pending) \in Seq(Nat) /\ x.tx_seq + 1 \in Nat
  BY DEF Bind
<1>3. m \in ToServer
  BY <1>2 DEF ToServer, Bind, FrameOf
<1>4. f = [z EXCEPT !.b.tx_seq = @ + 1, !.b.tx_pending = TRUE, !.b.host_pending = Tail(@)]
  BY <1>1 DEF Transmits, FrameOf
<1> HIDE DEF m, z, f
<1>5. z \in Editing /\ z.b = y /\ z.out = Append(o, m)
  BY <1>3, SendAdds DEF z
<1> DEFINE q == z.out
<1>6. z = [b |-> y, out |-> q]
  BY <1>5 DEF Editing
<1> HIDE DEF y, o, q
<1>7. /\ f.out = q /\ f.b \in Bind /\ f.b.stream = y.stream /\ f.b.rx_pending = y.rx_pending
      /\ f.b.tx_seq = y.tx_seq + 1 /\ f.b.rx_seq = y.rx_seq
      /\ f.b.host_pending = Tail(y.host_pending)
      /\ f.b.opening = y.opening
  BY <1>1, <1>2, <1>4, <1>6 DEF Bind
<1>8. f \in Editing
  BY <1>4, <1>5, <1>7 DEF Editing, q
<1>9. /\ Len(o) \in Nat /\ Len(f.out) = Len(o) + 1 /\ f.out[Len(o) + 1] = m
      /\ \A i \in 1..Len(o) : f.out[i] = o[i]
  BY <1>1, <1>3, <1>5, <1>7, AppendOne DEF q
<1>10. \A i \in 1..Len(f.out) : i < Len(f.out) => Plain(x, f.out[i])
  BY <1>1, <1>9 DEF AllPlain
<1>11. Transmitted(x, f)
  BY <1>1, <1>7, <1>9, <1>10 DEF Transmitted, m
<1>12. Sane(f.b)
  BY <1>1, <1>7 DEF Sane
<1> QED
  BY <1>8, <1>11, <1>12 DEF Handled, f

\* What passes between the endpoint and the device it has.
LEMMA FlowHandles ==
  ASSUME NEW e, Begun(e), e.b.stream # 0, conn # 0,
         NEW drained \in BOOLEAN, NEW ready \in BOOLEAN
  PROVE  Handled(e.b, Flow(e, drained, ready))
<1> DEFINE x == e.b
           r == IF x.rx_pending /\ drained
                  THEN [Reads(e) EXCEPT !.b.rx_pending = FALSE] ELSE e
           f == Flow(e, drained, ready)
<1>1. x \in Bind /\ e \in Editing /\ Sane(x) /\ AllPlain(x, e.out)
  BY DEF Begun, Editing
<1>2. /\ r \in Editing /\ Sane(r.b) /\ Kept(x, r) /\ r.b.stream = x.stream
  <2>1. CASE x.rx_pending /\ drained
    <3>1. r = [Reads(e) EXCEPT !.b.rx_pending = FALSE]
      BY <2>1
    <3> HIDE DEF r
    <3> QED
      BY <2>1, <3>1, ReadKeeps
  <2>2. CASE ~(x.rx_pending /\ drained)
    <3>1. r = e
      BY <2>2
    <3> HIDE DEF r
    <3> QED
      BY <1>1, <3>1 DEF Kept
  <2> QED
    BY <2>1, <2>2
<1>3. f = IF r.b.tx_pending \/ r.b.host_pending = <<>> \/ ~ready THEN r ELSE Transmits(r)
  BY DEF Flow
<1>4. x.stream # 0
  OBVIOUS
<1> HIDE DEF x, r, f
<1>5. CASE r.b.host_pending = <<>> \/ f = r
  <2>1. f = r
    BY <1>3, <1>5
  <2> QED
    BY <1>2, <2>1 DEF Handled, f, x
<1>6. CASE r.b.host_pending # <<>> /\ f = Transmits(r)
  <2>1. x.host_pending # <<>>
    BY <1>2, <1>6 DEF Kept
  <2>2. Handled(x, Transmits(r))
    BY <1>1, <1>2, <1>4, <2>1, TransmitSends
  <2> QED
    BY <1>6, <2>2 DEF f, x
<1> QED
  BY <1>3, <1>5, <1>6

\* host_sync as a whole.
LEMMA SyncHandles ==
  ASSUME NEW e, Begun(e), NEW late \in BOOLEAN, NEW due \in BOOLEAN,
         NEW drained \in BOOLEAN, NEW ready \in BOOLEAN
  PROVE  Handled(e.b, host_sync(e, late, due, drained, ready))
<1> DEFINE x == e.b
           r == [e EXCEPT !.b.failed = FALSE]
           f == host_sync(e, late, due, drained, ready)
<1>1. x \in Bind /\ e \in Editing /\ Sane(x) /\ AllPlain(x, e.out) /\ (conn = 0 => e.out = <<>>)
  BY DEF Begun, Editing
<1> DEFINE y == [x EXCEPT !.failed = FALSE]
<1>2. /\ y \in Bind /\ y.stream = x.stream /\ y.rx_pending = x.rx_pending
      /\ y.tx_seq = x.tx_seq /\ y.rx_seq = x.rx_seq /\ y.host_pending = x.host_pending
      /\ y.opening = x.opening
  BY <1>1 DEF Bind
<1>3. r \in Editing /\ r.b = y /\ r.out = e.out
  BY <1>1, <1>2 DEF Editing
<1>4. f = IF ~active THEN Inactive(e)
          ELSE IF conn = 0 \/ (x.failed /\ ~due) THEN e
          ELSE IF r.b.opening /\ late THEN host_retry(r)
          ELSE IF r.b.stream = 0 THEN Open(r) ELSE Flow(r, drained, ready)
  BY DEF host_sync
<1> HIDE DEF x, y, r, f
<1>5. \A m : Plain(y, m) <=> Plain(x, m)
  BY <1>2 DEF Plain
<1>6. AllPlain(y, r.out) /\ AllPlain(x, r.out)
  BY <1>1, <1>3, <1>5 DEF AllPlain
<1>7. Begun(r)
  BY <1>1, <1>2, <1>3, <1>6 DEF Begun, Sane
<1>8. \A g : Handled(y, g) => Handled(x, g)
  <2>1. FrameOf(y) = FrameOf(x)
    BY <1>2 DEF FrameOf
  <2>2. \A g : Kept(y, g) => Kept(x, g)
    BY <1>2, <1>5 DEF Kept, AllPlain
  <2>3. \A g : Dropped(y, g) => Dropped(x, g)
    BY <1>5 DEF Dropped, AllPlain
  <2>4. \A g : Transmitted(y, g) => Transmitted(x, g)
    BY <1>2, <1>5, <2>1 DEF Transmitted
  <2> QED
    BY <2>2, <2>3, <2>4 DEF Handled
<1>9. CASE f = Inactive(e)
  BY <1>9, InactiveKeeps DEF f, x
<1>10. CASE f = e
  <2>1. Handled(x, e)
    BY <1>1 DEF Handled, Kept, x
  <2> QED
    BY <1>10, <2>1 DEF f, x
<1>11. CASE f = host_retry(r)
  <2>1. conn = 0 => r.out = <<>>
    BY <1>1, <1>3
  <2>2. Handled(x, host_retry(r))
    BY <1>3, <1>6, <2>1, RetryDrops
  <2> QED
    BY <1>11, <2>2 DEF f, x
<1>12. CASE f = Open(r) /\ r.b.stream = 0
  <2>1. Handled(r.b, Open(r))
    BY <1>7, <1>12, OpenKeeps
  <2> QED
    BY <1>3, <1>8, <1>12, <2>1 DEF f, x
<1>13. CASE f = Flow(r, drained, ready) /\ r.b.stream # 0 /\ conn # 0
  <2>1. Handled(r.b, Flow(r, drained, ready))
    BY <1>7, <1>13, FlowHandles
  <2> QED
    BY <1>3, <1>8, <1>13, <2>1 DEF f, x
<1> QED
  BY <1>4, <1>9, <1>10, <1>11, <1>12, <1>13

----------------------------------------------------------------------------
(* What a step of the client does, whatever handler it is *)

\* The client sends o.
Posted(o) == up' = IF conn = 0 THEN up ELSE [up EXCEPT ![conn] = @ \o o]

NoFrames(o) == \A i \in 1..Len(o) : ~IsFrame(o[i])

EndsIn(o, m) ==
  /\ Len(o) # 0 /\ o[Len(o)] = m
  /\ \A i \in 1..Len(o) : i < Len(o) => ~IsFrame(o[i])

QuietTx(o) ==
  /\ NoFrames(o) /\ Sent <= Sent'
  /\ b'.tx_seq = 0 \/ (b'.tx_seq = b.tx_seq /\ Sent' = Sent /\ conn' = conn)

NextFrame(s) == [cmd |-> "frame", stream |-> s, seq |-> b.tx_seq + 1, block |-> Sent + 1]

FrameTx(o) ==
  /\ conn # 0 /\ conn' = conn /\ b'.stream # 0
  /\ EndsIn(o, NextFrame(b'.stream))
  /\ Sent' = Sent + 1 /\ b'.tx_seq = b.tx_seq + 1

\* s is the identifier the endpoint goes by, if it still has one.
Acts(o, s) ==
  /\ b' \in Bind /\ Sane(b') /\ o \in Seq(ToServer)
  /\ conn = 0 => o = <<>>
  /\ b'.stream \in {0, s}
  /\ Contiguous'
  /\ QuietTx(o) \/ FrameTx(o)
  /\ \A i \in 1..Len(o) : o[i].cmd = "read" => b.rx_pending /\ o[i].stream = b.stream

\* It hears nothing.
RxKept ==
  /\ b'.rx_seq \in {0, b.rx_seq}
  /\ b'.rx_pending => b.rx_pending /\ b'.stream = b.stream

\* Blocks are queued at the end and taken from the front.
LEMMA QueueAppend ==
  ASSUME NEW q \in Seq(Nat), NEW t \in Nat, Queue(q, t)
  PROVE  /\ Queue(Append(q, t + 1), t + 1)
         /\ (t + 1) - Len(Append(q, t + 1)) = t - Len(q)
         /\ Append(q, t + 1) \in Seq(Nat)
<1> DEFINE r == Append(q, t + 1)
<1>1. /\ r \in Seq(Nat) /\ Len(q) \in Nat /\ Len(r) = Len(q) + 1 /\ r[Len(q) + 1] = t + 1
      /\ \A i \in 1..Len(q) : r[i] = q[i]
  OBVIOUS
<1> HIDE DEF r
<1>2. (t + 1) - Len(r) = t - Len(q) /\ Len(r) <= t + 1
  BY <1>1 DEF Queue
<1>3. \A i \in 1..Len(r) : r[i] = t - Len(q) + i
  BY <1>1, SMTT(30) DEF Queue
<1> QED
  BY <1>1, <1>2, <1>3 DEF Queue, r

\* The queue after its head was sent.
LEMMA QueueTail ==
  ASSUME NEW q \in Seq(Nat), NEW t \in Nat, Queue(q, t), q # <<>>
  PROVE  /\ Queue(Tail(q), t) /\ Head(q) = (t - Len(q)) + 1
         /\ t - Len(Tail(q)) = (t - Len(q)) + 1
<1> DEFINE r == Tail(q)
<1>1. /\ Len(q) \in Nat \ {0} /\ Len(r) = Len(q) - 1 /\ Head(q) = q[1]
      /\ \A i \in 1..Len(r) : r[i] = q[i + 1]
  OBVIOUS
<1> HIDE DEF r
<1>2. Head(q) = (t - Len(q)) + 1 /\ t - Len(r) = (t - Len(q)) + 1 /\ Len(r) <= t
  BY <1>1 DEF Queue
<1>3. \A i \in 1..Len(r) : r[i] = t - Len(r) + i
  BY <1>1 DEF Queue
<1> QED
  BY <1>2, <1>3 DEF Queue, r

\* The number of blocks sent or given up is one.
LEMMA SentNumber ==
  ASSUME Shape, Contiguous
  PROVE  Sent \in Nat /\ Sent <= typed /\ Len(b.host_pending) \in Nat /\ typed \in Nat
         /\ b.tx_seq \in Nat /\ b.tx_seq <= Sent
<1>1. b.host_pending \in Seq(Nat) /\ typed \in Nat /\ b.tx_seq \in Nat
  BY SerialAssumption DEF Shape, Bind
<1>2. Len(b.host_pending) \in Nat
  BY <1>1
<1> QED
  BY <1>1, <1>2 DEF Contiguous, Queue, Sent

\* Handlers that end in host_sync.
LEMMA HandledActs ==
  ASSUME Shape, Contiguous, UNCHANGED conn,
         NEW x \in Bind, NEW f, Handled(x, f), b' = f.b,
         x.tx_seq = b.tx_seq, x.rx_seq = b.rx_seq, x.rx_pending = b.rx_pending,
         x.rx_pending => x.stream = b.stream,
         \/ x.host_pending = b.host_pending /\ typed' = typed
         \/ x.host_pending = Append(b.host_pending, typed + 1) /\ typed' = typed + 1
  PROVE  Acts(f.out, x.stream) /\ RxKept
<1> DEFINE hp == b.host_pending
           t == typed
           o == f.out
           q == x.host_pending
           u == typed'
           y == f.b
           r == y.host_pending
           S == Sent
<1>1. /\ hp \in Seq(Nat) /\ t \in Nat /\ Queue(hp, t) /\ b.tx_seq \in Nat
      /\ b.tx_seq <= S /\ S = t - Len(hp) /\ S \in Nat
  BY SentNumber DEF Shape, Bind, Contiguous, Sent
<1>2. q \in Seq(Nat) /\ u \in Nat /\ Queue(q, u) /\ u - Len(q) = S
  <2>1. /\ Queue(Append(hp, t + 1), t + 1) /\ (t + 1) - Len(Append(hp, t + 1)) = t - Len(hp)
        /\ Append(hp, t + 1) \in Seq(Nat)
    BY <1>1, QueueAppend
  <2>2. (q = hp /\ u = t) \/ (q = Append(hp, t + 1) /\ u = t + 1)
    OBVIOUS
  <2> HIDE DEF hp, t, q, u, S
  <2>3. CASE q = hp /\ u = t
    BY <1>1, <2>3
  <2>4. CASE q = Append(hp, t + 1) /\ u = t + 1
    BY <1>1, <2>1, <2>4
  <2> QED
    BY <2>2, <2>3, <2>4
<1>3. o \in Seq(ToServer) /\ y \in Bind /\ Sane(y) /\ (conn = 0 => o = <<>>)
  BY DEF Handled, Editing
<1>4. Sent' = u - Len(r)
  BY DEF Sent
<1>5. Contiguous' <=> (Queue(r, u) /\ y.tx_seq <= Sent')
  BY DEF Contiguous
<1>6. \A m : Plain(x, m) => ~IsFrame(m) /\ (m.cmd = "read" => b.rx_pending /\ m.stream = b.stream)
  BY DEF Plain
<1>7. CASE Kept(x, f)
  <2>1. y.stream \in {0, x.stream} /\ y.tx_seq = b.tx_seq /\ y.rx_seq = b.rx_seq /\ r = q
    BY <1>7 DEF Kept
  <2>2. y.rx_pending => b.rx_pending /\ y.stream = b.stream
    BY <1>7 DEF Kept
  <2>3. \A i \in 1..Len(o) : ~IsFrame(o[i]) /\ (o[i].cmd = "read" => b.rx_pending /\ o[i].stream = b.stream)
    BY <1>6, <1>7 DEF Kept, AllPlain
  <2> HIDE DEF hp, t, o, q, u, y, r, S
  <2>4. Sent' = S
    BY <1>2, <1>4, <2>1
  <2>5. Contiguous'
    BY <1>1, <1>2, <1>5, <2>1, <2>4
  <2>6. b' = y /\ Sent = S
    BY DEF y, S
  <2>7. QuietTx(o)
    BY <1>1, <2>1, <2>3, <2>4, <2>6 DEF QuietTx, NoFrames
  <2>8. Acts(o, x.stream)
    BY <1>3, <2>1, <2>3, <2>5, <2>6, <2>7 DEF Acts
  <2>9. RxKept
    BY <2>1, <2>2, <2>6 DEF RxKept
  <2> QED
    BY <2>8, <2>9 DEF o
<1>8. CASE Dropped(x, f)
  <2>1. y.stream = 0 /\ y.tx_seq = 0 /\ y.rx_seq = 0 /\ ~y.rx_pending /\ r = <<>>
    BY <1>8 DEF Dropped
  <2>2. \A i \in 1..Len(o) : ~IsFrame(o[i]) /\ (o[i].cmd = "read" => b.rx_pending /\ o[i].stream = b.stream)
    BY <1>6, <1>8 DEF Dropped, AllPlain
  <2>3. Len(q) \in Nat
    BY <1>2
  <2>4. Len(r) = 0
    BY <2>1
  <2> HIDE DEF hp, t, o, q, u, y, r, S
  <2>5. Sent' = u /\ S <= u
    BY <1>2, <1>4, <2>3, <2>4
  <2>6. Queue(r, u)
    BY <1>2, <2>4 DEF Queue
  <2>7. Contiguous'
    BY <1>2, <1>5, <2>1, <2>5, <2>6
  <2>8. b' = y /\ Sent = S
    BY DEF y, S
  <2>9. QuietTx(o)
    BY <2>1, <2>2, <2>5, <2>8 DEF QuietTx, NoFrames
  <2>10. Acts(o, x.stream)
    BY <1>3, <2>1, <2>2, <2>7, <2>8, <2>9 DEF Acts
  <2>11. RxKept
    BY <2>1, <2>8 DEF RxKept
  <2> QED
    BY <2>10, <2>11 DEF o
<1>9. CASE Transmitted(x, f)
  <2>1. /\ conn # 0 /\ y.stream = x.stream /\ x.stream # 0 /\ y.tx_seq = b.tx_seq + 1
        /\ y.rx_seq = b.rx_seq /\ (y.rx_pending => b.rx_pending) /\ r = Tail(q) /\ q # <<>>
        /\ Len(o) # 0 /\ o[Len(o)] = FrameOf(x)
    BY <1>9 DEF Transmitted
  <2>2. y.rx_pending => y.stream = b.stream
    BY <2>1
  <2>3. \A i \in 1..Len(o) : i < Len(o) =>
          ~IsFrame(o[i]) /\ (o[i].cmd = "read" => b.rx_pending /\ o[i].stream = b.stream)
    BY <1>6, <1>9 DEF Transmitted
  <2>4. FrameOf(x) = [cmd |-> "frame", stream |-> x.stream, seq |-> b.tx_seq + 1, block |-> Head(q)]
    BY DEF FrameOf
  <2> HIDE DEF hp, t, o, q, u, y, r, S
  <2>5. Queue(r, u) /\ Head(q) = S + 1 /\ u - Len(r) = S + 1
    BY <1>2, <2>1, QueueTail
  <2>6. Contiguous'
    BY <1>1, <1>4, <1>5, <2>1, <2>5
  <2>7. b' = y /\ Sent = S
    BY DEF y, S
  <2>8. FrameOf(x) = NextFrame(b'.stream)
    BY <2>1, <2>4, <2>5, <2>7 DEF NextFrame
  <2>9. FrameTx(o)
    BY <1>4, <2>1, <2>3, <2>5, <2>7, <2>8 DEF FrameTx, EndsIn
  <2>10. \A i \in 1..Len(o) : o[i].cmd = "read" => b.rx_pending /\ o[i].stream = b.stream
    <3>1. o[Len(o)].cmd # "read"
      BY <2>1, <2>4
    <3> QED
      BY <1>3, <2>3, <3>1
  <2>11. Acts(o, x.stream)
    BY <1>3, <2>1, <2>6, <2>7, <2>9, <2>10 DEF Acts
  <2>12. RxKept
    BY <2>1, <2>2, <2>7 DEF RxKept
  <2> QED
    BY <2>11, <2>12 DEF o
<1> QED
  BY <1>7, <1>8, <1>9 DEF Handled

\* Handlers that give everything up.
LEMMA DroppedActs ==
  ASSUME Shape, Contiguous, UNCHANGED <<conn, typed>>,
         NEW f, f \in Editing, Dropped(b, f), ~f.b.opening \/ Sane(f.b),
         conn = 0 => f.out = <<>>, b' = f.b
  PROVE  Acts(f.out, 0) /\ RxKept /\ b'.stream = 0
<1> DEFINE o == f.out
           y == f.b
<1>1. /\ y.stream = 0 /\ y.tx_seq = 0 /\ y.rx_seq = 0 /\ ~y.rx_pending
      /\ y.host_pending = <<>>
  BY DEF Dropped
<1>2. \A i \in 1..Len(o) : ~IsFrame(o[i]) /\ (o[i].cmd = "read" => b.rx_pending /\ o[i].stream = b.stream)
  BY DEF Dropped, AllPlain, Plain
<1>3. o \in Seq(ToServer) /\ y \in Bind /\ (conn = 0 => o = <<>>) /\ b' = y
  BY DEF Editing
<1>4. Sent \in Nat /\ Sent <= typed /\ typed \in Nat
  BY SentNumber
<1>5. Len(y.host_pending) = 0
  BY <1>1
<1> HIDE DEF o, y
<1>6. Sent' = typed /\ typed' = typed
  BY <1>3, <1>4, <1>5 DEF Sent
<1>7. Queue(y.host_pending, typed)
  BY <1>4, <1>5 DEF Queue
<1>11. Contiguous'
  BY <1>1, <1>3, <1>4, <1>6, <1>7 DEF Contiguous
<1>8. QuietTx(o)
  BY <1>1, <1>2, <1>3, <1>4, <1>6 DEF QuietTx, NoFrames
<1>9. Acts(o, 0)
  BY <1>1, <1>2, <1>3, <1>8, <1>11 DEF Acts, Sane
<1>10. RxKept
  BY <1>1, <1>3 DEF RxKept
<1> QED
  BY <1>1, <1>3, <1>9, <1>10 DEF o

\* The answer m is taken from the connection; only an answer to an open gives
\* the endpoint an identifier, and a refusal takes it away.
Answered(m, s) ==
  \/ s = b.stream /\ (b'.stream # 0 => ~(m.cmd \in {"closed", "error"} /\ m.stream \in {0, b.stream}))
  \/ IsOpened(m) /\ s = m.stream /\ b.stream = 0

Hearing(m, s) ==
  /\ IsFrame(m) /\ s = b.stream /\ m.stream = b.stream /\ Accepts(m)
  /\ b'.stream = b.stream /\ b'.rx_seq = m.seq /\ b'.rx_pending
  /\ heard' = Hears(m)

ClientStep(o, s) ==
  /\ UNCHANGED <<exports, issued, sessions, may, wrote, conn, conns>>
  /\ active' \in BOOLEAN /\ typed' \in 0..MaxTyped /\ upsets' \in 0..MaxUpsets
  /\ Posted(o) /\ Acts(o, s)
  /\ \/ UNCHANGED <<down, heard>> /\ s = b.stream /\ RxKept
     \/ /\ down # <<>> /\ down' = Tail(down)
        /\ Answered(Head(down), s) /\ RxKept /\ UNCHANGED heard
     \/ /\ down # <<>> /\ down' = Tail(down)
        /\ Hearing(Head(down), s)

\* Upsets are counted up to their bound.
LEMMA PerhapsBounded ==
  ASSUME Shape, NEW x \in BOOLEAN, Perhaps(x)
  PROVE  upsets' \in 0..MaxUpsets
  BY SerialAssumption DEF Shape, Perhaps, Upset

\* An edit of the binding that starts the handlers.
LEMMA EditBegun ==
  ASSUME NEW x \in Bind, Sane(x)
  PROVE  Begun(Edit(x)) /\ Edit(x).b = x /\ Edit(x).out = <<>> /\ Edit(x) \in Editing
<1>1. Edit(x).b = x /\ Edit(x).out = <<>> /\ Edit(x) \in Editing
  BY DEF Edit, Editing
<1>2. AllPlain(x, <<>>)
  BY DEF AllPlain
<1> QED
  BY <1>1, <1>2 DEF Begun

\* The binding is sane.
LEMMA BindingSane ==
  ASSUME Shape, Connections, Counts
  PROVE  b \in Bind /\ Sane(b)
  BY DEF Shape, Connections, Counts, Sane

\* host_tick is a step of the client.
LEMMA TickSteps ==
  ASSUME Shape, Connections, Counts, Contiguous, NEW late \in BOOLEAN, host_tick(late)
  PROVE  \E o, s : ClientStep(o, s)
<1>1. PICK due \in BOOLEAN, drained \in BOOLEAN, ready \in BOOLEAN :
        Done(host_sync(Edit(b), late, due, drained, ready))
  BY DEF host_tick
<1> DEFINE f == host_sync(Edit(b), late, due, drained, ready)
<1>2. b \in Bind /\ Sane(b)
  BY BindingSane
<1>3. Handled(Edit(b).b, f)
  BY <1>2, EditBegun, SyncHandles
<1>4. Handled(b, f)
  BY <1>2, <1>3, EditBegun
<1>5. b' = f.b /\ Posted(f.out)
  BY <1>1 DEF Done, Posted
<1>6. /\ UNCHANGED <<exports, issued, sessions, may, wrote, conn, conns>>
      /\ UNCHANGED <<active, typed, down, heard>>
  BY DEF host_tick, Server
<1> HIDE DEF f
<1>7. Acts(f.out, b.stream) /\ RxKept
  BY <1>2, <1>4, <1>5, <1>6, HandledActs
<1>8. upsets' \in 0..MaxUpsets
  BY PerhapsBounded DEF host_tick
<1>9. ClientStep(f.out, b.stream)
  BY <1>5, <1>6, <1>7, <1>8 DEF ClientStep, Shape
<1> QED
  BY <1>9

\* receive: what is typed is queued behind the rest.
LEMMA ReceiveSteps ==
  ASSUME Shape, Connections, Counts, Contiguous, NEW late \in BOOLEAN, receive(late)
  PROVE  \E o, s : ClientStep(o, s)
<1> DEFINE x == [b EXCEPT !.host_pending = Append(@, typed + 1)]
<1>1. PICK drained \in BOOLEAN, ready \in BOOLEAN :
        Done(host_sync(Edit(x), late, FALSE, drained, ready))
  BY DEF receive
<1> DEFINE f == host_sync(Edit(x), late, FALSE, drained, ready)
<1>2. b \in Bind /\ Sane(b)
  BY BindingSane
<1>3. typed \in Nat /\ typed' = typed + 1 /\ typed' \in 0..MaxTyped
  BY SerialAssumption DEF Shape, receive
<1>4. /\ x \in Bind /\ x.stream = b.stream /\ x.tx_seq = b.tx_seq /\ x.rx_seq = b.rx_seq
      /\ x.rx_pending = b.rx_pending /\ x.opening = b.opening
      /\ x.host_pending = Append(b.host_pending, typed + 1)
  <2> DEFINE q == Append(b.host_pending, typed + 1)
  <2>1. q \in Seq(Nat)
    BY <1>2, <1>3 DEF Bind
  <2> HIDE DEF q
  <2>2. x = [b EXCEPT !.host_pending = q]
    BY DEF q
  <2> HIDE DEF x
  <2>3. /\ x.stream = b.stream /\ x.tx_seq = b.tx_seq /\ x.rx_seq = b.rx_seq
        /\ x.rx_pending = b.rx_pending /\ x.opening = b.opening /\ x.host_pending = q
    BY <1>2, <2>2 DEF Bind
  <2>4. x \in Bind
    BY <1>2, <2>1, <2>2 DEF Bind
  <2> QED
    BY <2>3, <2>4 DEF q
<1>5. b' = f.b /\ Posted(f.out)
  BY <1>1 DEF Done, Posted
<1> HIDE DEF x
<1>6. Sane(x)
  BY <1>2, <1>4 DEF Sane
<1>7. Handled(Edit(x).b, f)
  BY <1>4, <1>6, EditBegun, SyncHandles
<1>8. Handled(x, f)
  BY <1>4, <1>6, <1>7, EditBegun
<1>9. /\ UNCHANGED <<exports, issued, sessions, may, wrote, conn, conns>>
      /\ UNCHANGED <<active, down, heard>>
  BY DEF receive, Server
<1> HIDE DEF f
<1>10. Acts(f.out, x.stream) /\ RxKept
  BY <1>3, <1>4, <1>5, <1>8, <1>9, HandledActs
<1>11. upsets' \in 0..MaxUpsets
  BY PerhapsBounded DEF receive
<1>12. ClientStep(f.out, b.stream)
  BY <1>3, <1>4, <1>5, <1>9, <1>10, <1>11 DEF ClientStep, Shape
<1> QED
  BY <1>12

\* rr_sercom_focus_room gives the device back and starts to count anew.
LEMMA FocusSteps ==
  ASSUME Shape, Connections, Counts, Contiguous, NEW port \in Port, focus_room(port)
  PROVE  \E o, s : ClientStep(o, s)
<1> DEFINE m == [cmd |-> "close", stream |-> b.stream]
           left == IF b.stream # 0 THEN Closes(Edit(b)) ELSE Edit(b)
           u == Unattached(port)
           e == [left EXCEPT !.b = u]
           f == host_sync(e, FALSE, FALSE, FALSE, FALSE)
<1>1. b \in Bind /\ Sane(b) /\ Begun(Edit(b)) /\ Edit(b) \in Editing /\ Edit(b).b = b
  BY BindingSane, EditBegun
<1>2. /\ u \in Bind /\ u.stream = 0 /\ u.tx_seq = 0 /\ u.rx_seq = 0 /\ ~u.opening
      /\ u.host_pending = <<>> /\ ~u.rx_pending
  BY UnattachedFields
<1> HIDE DEF u
<1>3. m \in ToServer /\ Plain(u, m)
  BY <1>1 DEF ToServer, Plain, IsFrame, Bind
<1>4. left \in Editing /\ AllPlain(u, left.out) /\ (conn = 0 => left.out = <<>>)
  <2>1. AllPlain(u, Edit(b).out) /\ (conn = 0 => Edit(b).out = <<>>)
    BY EditBegun, <1>1 DEF AllPlain
  <2>2. CASE b.stream = 0
    BY <1>1, <2>1, <2>2
  <2>3. CASE b.stream # 0
    <3>1. left = Send(Edit(b), m)
      BY <1>1, <2>3 DEF Closes
    <3> HIDE DEF left, m
    <3> QED
      BY <1>1, <1>3, <2>1, <3>1, SendPlain
  <2> QED
    BY <2>2, <2>3
<1>5. b' = f.b /\ Posted(f.out)
  BY DEF Done, Posted, focus_room, u
<1> HIDE DEF left
<1>6. e \in Editing /\ e.b = u /\ e.out = left.out
  BY <1>2, <1>4 DEF Editing
<1>7. Begun(e)
  BY <1>2, <1>4, <1>6 DEF Begun, Sane
<1> HIDE DEF e
<1>8. Handled(u, f)
  BY <1>6, <1>7, SyncHandles
<1> HIDE DEF f
<1>9. f \in Editing /\ Sane(f.b) /\ (conn = 0 => f.out = <<>>)
  BY <1>8 DEF Handled
<1>10. \A k : Plain(u, k) => Plain(b, k)
  BY <1>2 DEF Plain
<1>11. Dropped(b, f)
  <2>1. ~Transmitted(u, f)
    BY <1>2 DEF Transmitted
  <2>2. CASE Kept(u, f)
    BY <1>2, <1>10, <2>2 DEF Kept, Dropped, AllPlain
  <2>3. CASE Dropped(u, f)
    BY <1>10, <2>3 DEF Dropped, AllPlain
  <2> QED
    BY <1>8, <2>1, <2>2, <2>3 DEF Handled
<1>12. /\ UNCHANGED <<exports, issued, sessions, may, wrote, conn, conns>>
       /\ UNCHANGED <<active, typed, down, heard>>
  BY DEF focus_room, Server
<1>13. Acts(f.out, 0) /\ RxKept /\ b'.stream = 0
  BY <1>5, <1>9, <1>11, <1>12, DroppedActs
<1>14. Acts(f.out, b.stream)
  BY <1>13 DEF Acts
<1>15. upsets' \in 0..MaxUpsets
  BY SerialAssumption, SMTT(30) DEF Shape, focus_room, Upset
<1>16. ClientStep(f.out, b.stream)
  BY <1>5, <1>12, <1>13, <1>14, <1>15 DEF ClientStep, Shape
<1> QED
  BY <1>16

\* Nothing is posted and nothing changes but what does not count.
LEMMA IdleActs ==
  ASSUME Shape, Connections, Counts, Contiguous, UNCHANGED <<b, conn, typed>>
  PROVE  Acts(<<>>, b.stream) /\ RxKept
<1>1. b \in Bind /\ Sane(b) /\ Sent \in Nat
  BY BindingSane, SentNumber
<1>2. Contiguous'
  BY DEF Contiguous, Sent
<1>3. Sent' = Sent
  BY DEF Sent
<1>4. QuietTx(<<>>)
  BY <1>1, <1>3 DEF QuietTx, NoFrames
<1> QED
  BY <1>1, <1>2, <1>4 DEF Acts, RxKept

\* Nothing posted leaves the streams.
LEMMA NothingPosted ==
  ASSUME Shape, up' = up
  PROVE  Posted(<<>>)
<1>1. CASE conn = 0
  BY <1>1 DEF Posted
<1>2. CASE conn # 0
  <2>1. conn \in Conn /\ up \in [Conn -> Seq(ToServer)]
    BY <1>2, SerialAssumption DEF Shape, Conn
  <2>2. up[conn] \o <<>> = up[conn]
    BY <2>1
  <2> QED
    BY <1>2, <2>1, <2>2 DEF Posted
<1> QED
  BY <1>1, <1>2

\* A change of mode touches neither the binding nor the messages.
LEMMA ModeSteps ==
  ASSUME Shape, Connections, Counts, Contiguous, ModeChange
  PROVE  \E o, s : ClientStep(o, s)
<1>1. /\ UNCHANGED <<exports, issued, sessions, may, wrote, conn, conns>>
      /\ UNCHANGED <<b, typed, down, heard>> /\ up' = up
  BY DEF ModeChange, Server
<1>2. Acts(<<>>, b.stream) /\ RxKept /\ Posted(<<>>)
  BY <1>1, IdleActs, NothingPosted
<1>3. upsets' \in 0..MaxUpsets /\ active' \in BOOLEAN
  BY SerialAssumption DEF Shape, ModeChange, Upset
<1>4. ClientStep(<<>>, b.stream)
  BY <1>1, <1>2, <1>3 DEF ClientStep, Shape
<1> QED
  BY <1>4

\* An answer to an open, an acknowledgement or a refusal.
LEMMA MessageSteps ==
  ASSUME Shape, Connections, Counts, Contiguous, down # <<>>, NEW m, m = Head(down),
         m \in ToClient, ~IsFrame(m), host_message(m), UNCHANGED <<conn, typed>>
  PROVE  \E o, s : Posted(o) /\ Acts(o, s) /\ Answered(m, s) /\ RxKept
<1>1. b \in Bind /\ Sane(b) /\ m.stream \in Nat
  BY BindingSane DEF ToClient
<1>2. ASSUME up' = up, b' = b,
             ~(m.cmd \in {"closed", "error"} /\ m.stream \in {0, b.stream})
      PROVE  \E o, s : Posted(o) /\ Acts(o, s) /\ Answered(m, s) /\ RxKept
  <2>1. Acts(<<>>, b.stream) /\ RxKept /\ Posted(<<>>)
    BY <1>2, IdleActs, NothingPosted
  <2>2. Answered(m, b.stream)
    BY <1>2 DEF Answered
  <2> QED
    BY <2>1, <2>2
<1>3. ASSUME Done(Edit(b)) PROVE up' = up /\ b' = b
  <2>1. b' = b /\ Posted(<<>>)
    BY <1>3 DEF Done, Posted, Edit
  <2>2. CASE conn = 0
    BY <2>1, <2>2 DEF Posted
  <2>3. CASE conn # 0
    <3>1. conn \in Conn /\ up \in [Conn -> Seq(ToServer)]
      BY <2>3, SerialAssumption DEF Shape, Conn
    <3>2. up[conn] \o <<>> = up[conn]
      BY <3>1
    <3>3. up' = [up EXCEPT ![conn] = up[conn]]
      BY <2>1, <2>3, <3>2 DEF Posted
    <3> QED
      BY <2>1, <3>1, <3>3
  <2> QED
    BY <2>2, <2>3
<1>4. PICK drained \in BOOLEAN, ready \in BOOLEAN :
        Done(CASE m.cmd = "opened" -> Opened(m, ready)
               [] m.cmd = "written" -> Written(m, drained, ready)
               [] m.cmd \in {"error", "closed"} -> Refused(m))
  BY DEF host_message
<1>5. m.cmd \in {"opened", "written", "error", "closed"}
  BY DEF ToClient, IsFrame
<1>6. CASE m.cmd = "opened"
  <2>1. Done(Opened(m, ready))
    BY <1>4, <1>6
  <2>2. CASE ~b.opening
    <3>1. Done(Edit(b))
      BY <2>1, <2>2 DEF Opened
    <3> QED
      BY <1>2, <1>3, <1>6, <3>1
  <2>3. CASE b.opening
    <3> DEFINE x == [b EXCEPT !.stream = m.stream, !.opening = FALSE, !.failed = FALSE]
               f == host_sync(Edit(x), FALSE, FALSE, FALSE, ready)
    <3>1. Done(f)
      BY <2>1, <2>3 DEF Opened
    <3>2. b' = f.b /\ Posted(f.out)
      BY <3>1 DEF Done, Posted
    <3>3. b.stream = 0 /\ ~b.rx_pending
      BY <1>1, <2>3 DEF Sane
    <3>4. /\ x \in Bind /\ x.stream = m.stream /\ x.tx_seq = b.tx_seq /\ x.rx_seq = b.rx_seq
          /\ x.rx_pending = b.rx_pending /\ ~x.opening /\ x.host_pending = b.host_pending
      BY <1>1 DEF Bind
    <3> HIDE DEF x
    <3>5. Sane(x)
      BY <3>3, <3>4 DEF Sane
    <3>6. Handled(Edit(x).b, f)
      BY <3>4, <3>5, EditBegun, SyncHandles
    <3>7. Handled(x, f)
      BY <3>4, <3>5, <3>6, EditBegun
    <3> HIDE DEF f
    <3>8. Acts(f.out, x.stream) /\ RxKept
      BY <3>2, <3>3, <3>4, <3>7, HandledActs
    <3>9. Answered(m, m.stream)
      BY <1>6, <3>3 DEF Answered, IsOpened
    <3> QED
      BY <3>2, <3>4, <3>8, <3>9
  <2> QED
    BY <2>2, <2>3
<1>7. CASE m.cmd = "written"
  <2>1. Done(Written(m, drained, ready))
    BY <1>4, <1>7
  <2>2. CASE ~(m.stream = b.stream /\ b.tx_pending /\ m.seq = b.tx_seq)
    <3>1. Done(Edit(b))
      BY <2>1, <2>2 DEF Written
    <3> QED
      BY <1>2, <1>3, <1>7, <3>1
  <2>3. CASE m.stream = b.stream /\ b.tx_pending /\ m.seq = b.tx_seq
    <3> DEFINE x == [b EXCEPT !.tx_pending = FALSE]
               f == host_sync(Edit(x), FALSE, FALSE, drained, ready)
    <3>1. Done(f)
      BY <2>1, <2>3 DEF Written
    <3>2. b' = f.b /\ Posted(f.out)
      BY <3>1 DEF Done, Posted
    <3>3. /\ x \in Bind /\ x.stream = b.stream /\ x.tx_seq = b.tx_seq /\ x.rx_seq = b.rx_seq
          /\ x.rx_pending = b.rx_pending /\ x.opening = b.opening
          /\ x.host_pending = b.host_pending
      BY <1>1 DEF Bind
    <3> HIDE DEF x
    <3>4. Sane(x)
      BY <1>1, <3>3 DEF Sane
    <3>5. Handled(Edit(x).b, f)
      BY <3>3, <3>4, EditBegun, SyncHandles
    <3>6. Handled(x, f)
      BY <3>3, <3>4, <3>5, EditBegun
    <3> HIDE DEF f
    <3>7. Acts(f.out, x.stream) /\ RxKept
      BY <3>2, <3>3, <3>6, HandledActs
    <3>8. Answered(m, b.stream)
      BY <1>7 DEF Answered
    <3> QED
      BY <3>2, <3>3, <3>7, <3>8
  <2> QED
    BY <2>2, <2>3
<1>8. CASE m.cmd \in {"error", "closed"}
  <2>1. Done(Refused(m))
    BY <1>4, <1>8
  <2>2. CASE m.stream # 0 /\ m.stream # b.stream
    <3>1. Done(Edit(b))
      BY <2>1, <2>2 DEF Refused
    <3> QED
      BY <1>2, <1>3, <2>2, <3>1
  <2>3. CASE ~(m.stream # 0 /\ m.stream # b.stream)
    <3> DEFINE f == host_retry(Edit(b))
    <3>1. Done(f)
      BY <2>1, <2>3 DEF Refused
    <3>2. b' = f.b /\ Posted(f.out)
      BY <3>1 DEF Done, Posted
    <3>3. Edit(b) \in Editing /\ Edit(b).out = <<>> /\ AllPlain(b, Edit(b).out)
      BY <1>1, EditBegun DEF AllPlain
    <3>4. Handled(b, f) /\ Dropped(b, f)
      BY <3>3, RetryDrops
    <3> HIDE DEF f
    <3>5. Acts(f.out, 0) /\ RxKept /\ b'.stream = 0
      BY <3>2, <3>4, DroppedActs DEF Handled
    <3>6. Acts(f.out, b.stream)
      BY <3>5 DEF Acts
    <3>7. Answered(m, b.stream)
      BY <3>5 DEF Answered
    <3> QED
      BY <3>2, <3>5, <3>6, <3>7
  <2> QED
    BY <2>2, <2>3
<1> QED
  BY <1>5, <1>6, <1>7, <1>8

\* A frame is taken in, ignored, or the end of the attachment.
LEMMA FrameSteps ==
  ASSUME Shape, Connections, Counts, Contiguous, NEW m, m \in ToClient, IsFrame(m), m.stream # 0,
         NEW blocked \in BOOLEAN, host_frame(m, blocked), UNCHANGED <<conn, typed>>
  PROVE  \E o, s : /\ Posted(o) /\ Acts(o, s)
                   /\ \/ Answered(m, s) /\ RxKept /\ UNCHANGED heard
                      \/ Hearing(m, s)
<1>1. b \in Bind /\ Sane(b) /\ m.stream \in Nat /\ m.seq \in Nat
  BY BindingSane DEF ToClient, IsFrame
<1>2. Edit(b) \in Editing /\ Edit(b).out = <<>> /\ Edit(b).b = b /\ AllPlain(b, Edit(b).out)
  BY <1>1, EditBegun DEF AllPlain
<1>3. Answered(m, b.stream)
  BY DEF Answered, IsFrame
<1>4. CASE b.stream # m.stream
  <2>1. Done(Edit(b)) /\ UNCHANGED heard
    BY <1>4 DEF host_frame
  <2>2. b' = b /\ Posted(<<>>)
    BY <1>2, <2>1 DEF Done, Posted
  <2>3. Acts(<<>>, b.stream) /\ RxKept
    BY <2>2, IdleActs
  <2> QED
    BY <1>3, <2>1, <2>2, <2>3
<1>5. CASE b.stream = m.stream /\ (blocked \/ ~Accepts(m))
  <2> DEFINE k == [cmd |-> "close", stream |-> b.stream]
             e == Closes(Edit(b))
             f == host_retry(e)
  <2>1. Done(f) /\ UNCHANGED heard
    BY <1>5 DEF host_frame
  <2>2. b' = f.b /\ Posted(f.out)
    BY <2>1 DEF Done, Posted
  <2>3. k \in ToServer /\ Plain(b, k)
    BY <1>1 DEF ToServer, Plain, IsFrame, Bind
  <2>4. e = Send(Edit(b), k)
    BY <1>2 DEF Closes
  <2> HIDE DEF k, e
  <2>5. e \in Editing /\ AllPlain(b, e.out) /\ (conn = 0 => e.out = <<>>)
    BY <1>2, <2>3, <2>4, SendPlain
  <2>6. Handled(b, f) /\ Dropped(b, f)
    BY <2>5, RetryDrops
  <2> HIDE DEF f
  <2>7. Acts(f.out, 0) /\ RxKept /\ b'.stream = 0
    BY <2>2, <2>6, DroppedActs DEF Handled
  <2>8. Acts(f.out, b.stream)
    BY <2>7 DEF Acts
  <2> QED
    BY <1>3, <2>1, <2>2, <2>7, <2>8
<1>6. CASE b.stream = m.stream /\ ~(blocked \/ ~Accepts(m))
  <2> DEFINE x == [b EXCEPT !.rx_seq = m.seq, !.rx_pending = TRUE]
  <2>1. Done(Edit(x)) /\ heard' = Hears(m) /\ Accepts(m)
    BY <1>6 DEF host_frame
  <2>2. /\ x \in Bind /\ x.stream = b.stream /\ x.tx_seq = b.tx_seq /\ x.rx_seq = m.seq
        /\ x.rx_pending /\ x.opening = b.opening /\ x.host_pending = b.host_pending
    BY <1>1 DEF Bind
  <2> HIDE DEF x
  <2>3. b' = x /\ Posted(<<>>)
    BY <2>1 DEF Done, Posted, Edit
  <2>4. Sane(x)
    BY <1>1, <1>6, <2>2 DEF Sane
  <2>5. Sent \in Nat /\ Sent' = Sent /\ Contiguous'
    BY <2>2, <2>3, SentNumber DEF Sent, Contiguous
  <2>6. Acts(<<>>, b.stream)
    BY <2>2, <2>3, <2>4, <2>5 DEF Acts, QuietTx, NoFrames
  <2>7. Hearing(m, b.stream)
    BY <1>6, <2>1, <2>2, <2>3 DEF Hearing
  <2> QED
    BY <2>3, <2>6, <2>7
<1> QED
  BY <1>4, <1>5, <1>6

\* The client reads one message of the server.
LEMMA ReadsSteps ==
  ASSUME Shape, Connections, Counts, FramesDown, Contiguous,
         NEW blocked \in BOOLEAN, ClientReads(blocked)
  PROVE  \E o, s : ClientStep(o, s)
<1> DEFINE m == Head(down)
<1>1. /\ UNCHANGED <<exports, issued, sessions, may, wrote, conn, conns>>
      /\ UNCHANGED <<active, typed>> /\ down # <<>> /\ down' = Tail(down)
  BY DEF ClientReads, Server
<1>2. m \in ToClient /\ m = down[1] /\ 1 \in 1..Len(down)
  BY <1>1 DEF Shape
<1>3. CASE IsFrame(m)
  <2>1. host_frame(m, blocked)
    BY <1>3 DEF ClientReads, IsFrame
  <2>2. m.stream # 0
    BY <1>2, <1>3 DEF FramesDown
  <2>3. upsets' \in 0..MaxUpsets
    BY <2>1, PerhapsBounded DEF host_frame
  <2> HIDE DEF m
  <2>4. PICK o, s : /\ Posted(o) /\ Acts(o, s)
                    /\ \/ Answered(m, s) /\ RxKept /\ UNCHANGED heard
                       \/ Hearing(m, s)
    BY <1>1, <1>2, <1>3, <2>1, <2>2, FrameSteps
  <2>5. ClientStep(o, s)
    BY <1>1, <2>3, <2>4 DEF ClientStep, Shape, m
  <2> QED
    BY <2>5
<1>4. CASE ~IsFrame(m)
  <2>1. host_message(m)
    BY <1>4 DEF ClientReads, IsFrame
  <2>2. upsets' \in 0..MaxUpsets /\ UNCHANGED heard
    BY <2>1 DEF host_message, Shape
  <2>3. PICK o, s : Posted(o) /\ Acts(o, s) /\ Answered(m, s) /\ RxKept
    BY <1>1, <1>2, <1>4, <2>1, MessageSteps
  <2>4. ClientStep(o, s)
    BY <1>1, <2>2, <2>3 DEF ClientStep, Shape
  <2> QED
    BY <2>4
<1> QED
  BY <1>3, <1>4

----------------------------------------------------------------------------
(* What becomes of the messages to the server *)

Longer(q, r) == Len(q) <= Len(r) /\ \A i \in 1..Len(q) : r[i] = q[i]

\* r is q and more messages, none of them a frame.
Quietly(q, r) ==
  Longer(q, r) /\ \A i \in 1..Len(r) : i > Len(q) => ~IsFrame(r[i])

\* r is q and more messages, the last of them a frame.
Framed(q, r, m) ==
  /\ Longer(q, r) /\ Len(q) < Len(r) /\ r[Len(r)] = m /\ IsFrame(m)
  /\ \A i \in 1..Len(r) : i > Len(q) /\ i < Len(r) => ~IsFrame(r[i])

\* r is q without its first message.
Popped(q, r) ==
  /\ Len(q) # 0 /\ Len(r) = Len(q) - 1
  /\ \A i \in 1..Len(r) : r[i] = q[i + 1] /\ i + 1 \in 1..Len(q)

\* A frame to the server has an identifier, a number and a block.
LEMMA FrameType ==
  ASSUME NEW q \in Seq(ToServer), NEW i \in 1..Len(q), IsFrame(q[i])
  PROVE  q[i].stream \in Nat /\ q[i].seq \in Nat /\ q[i].block \in Nat
<1>1. q[i] \in ToServer
  OBVIOUS
<1> QED
  BY <1>1 DEF ToServer, IsFrame

\* A restart stays one when messages are added.
LEMMA RestartKept ==
  ASSUME NEW q \in Seq(ToServer), NEW r \in Seq(ToServer), Longer(q, r),
         NEW i \in Nat \ {0}, NEW k \in 0..Len(q), NEW m \in k..Len(r), Restart(q, i, k)
  PROVE  Restart(r, i, m)
<1>1. PICK j \in i..k : IsFrame(q[j]) /\ q[j].seq = 1
  BY DEF Restart
<1>2. Len(q) \in Nat /\ Len(r) \in Nat
  OBVIOUS
<1>3. j \in 1..Len(q) /\ j \in i..m
  BY <1>1, <1>2
<1>4. r[j] = q[j]
  BY <1>3 DEF Longer
<1> QED
  BY <1>1, <1>3, <1>4 DEF Restart

\* Messages that are not frames do not matter.
LEMMA QuietStreams ==
  ASSUME NEW q \in Seq(ToServer), NEW r \in Seq(ToServer), Quietly(q, r)
  PROVE  /\ Rising(q) => Rising(r)
         /\ \A s \in Nat : UpTo(q, s) => UpTo(r, s)
         /\ \A s \in Nat : AllOf(q, s) => AllOf(r, s)
         /\ \A s \in Nat, x \in Nat : Above(q, s, x) => Above(r, s, x)
<1>1. Len(q) \in Nat /\ Len(r) \in Nat
  OBVIOUS
<1>2. \A i \in 1..Len(r) : IsFrame(r[i]) => i \in 1..Len(q) /\ r[i] = q[i]
  BY <1>1 DEF Quietly, Longer
<1>3. Rising(q) => Rising(r)
  BY <1>2 DEF Rising
<1> QED
  BY <1>2, <1>3 DEF UpTo, AllOf, Above

\* ... and leave the order of the frames.
LEMMA QuietJoined ==
  ASSUME NEW q \in Seq(ToServer), NEW r \in Seq(ToServer), Quietly(q, r),
         NEW n \in Nat, NEW l \in Nat, n <= l, NEW t \in Nat
  PROVE  /\ FramesJoined(q, n) => FramesJoined(r, l)
         /\ OwnJoined(q, n, t) => OwnJoined(r, n, t)
         /\ \A x \in Nat, k \in Nat : DeviceJoined(q, x, k) => DeviceJoined(r, x, k)
         /\ \A x \in Nat, k \in Nat : GoesOn(q, 1, n, t, x, k) => GoesOn(r, 1, n, t, x, k)
<1>1. Len(q) \in Nat /\ Len(r) \in Nat /\ Longer(q, r) /\ Len(q) <= Len(r)
  BY DEF Quietly, Longer
<1>2. \A i \in 1..Len(r) : IsFrame(r[i]) => i \in 1..Len(q) /\ r[i] = q[i]
  BY <1>1 DEF Quietly, Longer
<1>3. \A i \in Nat \ {0}, k \in 0..Len(q) : Restart(q, i, k) => Restart(r, i, k) /\ Restart(r, i, Len(r))
  <2> SUFFICES ASSUME NEW i \in Nat \ {0}, NEW k \in 0..Len(q), Restart(q, i, k)
               PROVE  Restart(r, i, k) /\ Restart(r, i, Len(r))
    OBVIOUS
  <2>1. k \in k..Len(r) /\ Len(r) \in k..Len(r)
    BY <1>1
  <2> QED
    BY <1>1, <2>1, RestartKept
<1>4. ASSUME FramesJoined(q, n) PROVE FramesJoined(r, l)
  <2> SUFFICES ASSUME NEW i \in 1..Len(r), IsFrame(r[i])
               PROVE  /\ r[i].seq # 0 /\ r[i].block # 0 /\ r[i].block <= l
                      /\ \A k \in 1..Len(r) : IsFrame(r[k]) /\ i < k =>
                           /\ r[i].block < r[k].block
                           /\ r[k].block - r[k].seq = r[i].block - r[i].seq \/ Restart(r, i + 1, k)
    BY DEF FramesJoined
  <2>1. i \in 1..Len(q) /\ r[i] = q[i] /\ IsFrame(q[i])
    BY <1>2
  <2>2. r[i].seq # 0 /\ r[i].block # 0 /\ r[i].block <= n /\ r[i].block \in Nat
    BY <1>4, <2>1, FrameType DEF FramesJoined
  <2>3. ASSUME NEW k \in 1..Len(r), IsFrame(r[k]), i < k
        PROVE  /\ r[i].block < r[k].block
               /\ r[k].block - r[k].seq = r[i].block - r[i].seq \/ Restart(r, i + 1, k)
    <3>1. k \in 1..Len(q) /\ r[k] = q[k] /\ i + 1 \in Nat \ {0} /\ k \in 0..Len(q)
      BY <1>1, <1>2, <2>3
    <3> QED
      BY <1>3, <1>4, <2>1, <2>3, <3>1 DEF FramesJoined
  <2> QED
    BY <2>2, <2>3
<1>5. Len(q) \in 0..Len(q)
  BY <1>1
<1>6. ASSUME OwnJoined(q, n, t) PROVE OwnJoined(r, n, t)
  <2> SUFFICES ASSUME NEW i \in 1..Len(r), IsFrame(r[i])
               PROVE  GoesOn(r, i + 1, n, t, r[i].block, r[i].seq)
    BY DEF OwnJoined
  <2>1. i \in 1..Len(q) /\ r[i] = q[i] /\ IsFrame(q[i]) /\ i + 1 \in Nat \ {0}
    BY <1>2
  <2>2. GoesOn(q, i + 1, n, t, q[i].block, q[i].seq)
    BY <1>6, <2>1 DEF OwnJoined
  <2> QED
    BY <1>3, <1>5, <2>1, <2>2 DEF GoesOn
<1>7. ASSUME NEW x \in Nat, NEW k \in Nat, DeviceJoined(q, x, k) PROVE DeviceJoined(r, x, k)
  <2> SUFFICES ASSUME NEW i \in 1..Len(r), IsFrame(r[i])
               PROVE  r[i].block - r[i].seq = x - k \/ Restart(r, 1, i)
    BY DEF DeviceJoined
  <2>1. i \in 1..Len(q) /\ r[i] = q[i] /\ IsFrame(q[i]) /\ i \in 0..Len(q)
    BY <1>1, <1>2
  <2> QED
    BY <1>3, <1>7, <2>1 DEF DeviceJoined
<1>8. ASSUME NEW x \in Nat, NEW k \in Nat, GoesOn(q, 1, n, t, x, k) PROVE GoesOn(r, 1, n, t, x, k)
  BY <1>3, <1>5, <1>8 DEF GoesOn
<1> QED
  BY <1>4, <1>6, <1>7, <1>8

\* A frame with the highest identifier.
LEMMA FramedStreams ==
  ASSUME NEW q \in Seq(ToServer), NEW r \in Seq(ToServer), NEW m, Framed(q, r, m),
         m.stream \in Nat \ {0}, UpTo(q, m.stream)
  PROVE  /\ Rising(q) => Rising(r)
         /\ UpTo(r, m.stream)
         /\ AllOf(q, m.stream) => AllOf(r, m.stream)
         /\ \A s \in Nat, x \in Nat : Above(q, s, x) /\ x < m.block => Above(r, s, x)
<1>1. Len(q) \in Nat /\ Len(r) \in Nat
  OBVIOUS
<1>2. \A i \in 1..Len(r) : IsFrame(r[i]) =>
        \/ i \in 1..Len(q) /\ r[i] = q[i] /\ i < Len(r)
        \/ i = Len(r) /\ r[i] = m
  BY <1>1 DEF Framed, Longer
<1>3. ASSUME Rising(q) PROVE Rising(r)
  <2> SUFFICES ASSUME NEW i \in 1..Len(r), IsFrame(r[i])
               PROVE  /\ r[i].stream # 0
                      /\ \A k \in 1..Len(r) : IsFrame(r[k]) /\ i < k => r[i].stream <= r[k].stream
    BY DEF Rising
  <2>1. CASE i = Len(r) /\ r[i] = m
    BY <1>1, <2>1
  <2>2. CASE i \in 1..Len(q) /\ r[i] = q[i]
    <3>1. r[i].stream # 0 /\ r[i].stream <= m.stream
      BY <1>3, <2>2 DEF Rising, UpTo
    <3> SUFFICES ASSUME NEW k \in 1..Len(r), IsFrame(r[k]), i < k PROVE r[i].stream <= r[k].stream
      BY <3>1
    <3>2. CASE k = Len(r) /\ r[k] = m
      BY <3>1, <3>2
    <3>3. CASE k \in 1..Len(q) /\ r[k] = q[k]
      BY <1>3, <2>2, <3>3 DEF Rising
    <3> QED
      BY <1>2, <3>2, <3>3
  <2> QED
    BY <1>2, <2>1, <2>2
<1>4. UpTo(r, m.stream)
  BY <1>2 DEF UpTo
<1>5. AllOf(q, m.stream) => AllOf(r, m.stream)
  BY <1>2 DEF AllOf
<1>6. \A s \in Nat, x \in Nat : Above(q, s, x) /\ x < m.block => Above(r, s, x)
  BY <1>2 DEF Above
<1> QED
  BY <1>3, <1>4, <1>5, <1>6

\* The next frame of the client, after n blocks and number t.
LEMMA FramedJoined ==
  ASSUME NEW q \in Seq(ToServer), NEW r \in Seq(ToServer), NEW m, Framed(q, r, m),
         NEW n \in Nat, NEW t \in Nat, m.block = n + 1, m.seq = t + 1,
         FramesJoined(q, n), OwnJoined(q, n, t)
  PROVE  /\ FramesJoined(r, n + 1)
         /\ OwnJoined(r, n + 1, t + 1)
         /\ \A x \in Nat, k \in Nat : DeviceJoined(q, x, k) /\ GoesOn(q, 1, n, t, x, k) =>
              DeviceJoined(r, x, k) /\ GoesOn(r, 1, n + 1, t + 1, x, k)
<1>1. Len(q) \in Nat /\ Len(r) \in Nat /\ Longer(q, r) /\ Len(q) < Len(r)
  BY DEF Framed
<1> DEFINE L == Len(r)
<1>2. r[L] = m /\ IsFrame(m) /\ L \in 1..Len(r)
  BY <1>1 DEF Framed
<1>3. \A i \in 1..Len(r) : IsFrame(r[i]) =>
        \/ i \in 1..Len(q) /\ r[i] = q[i] /\ i < L
        \/ i = L
  BY <1>1 DEF Framed, Longer
<1>4. \A i \in Nat \ {0}, k \in 0..Len(q) : Restart(q, i, k) => Restart(r, i, k) /\ Restart(r, i, L)
  <2> SUFFICES ASSUME NEW i \in Nat \ {0}, NEW k \in 0..Len(q), Restart(q, i, k)
               PROVE  Restart(r, i, k) /\ Restart(r, i, L)
    OBVIOUS
  <2>1. k \in k..Len(r) /\ L \in k..Len(r)
    BY <1>1
  <2> QED
    BY <1>1, <2>1, RestartKept
<1>5. \A i \in 1..L : t = 0 => Restart(r, i, L)
  <2> SUFFICES ASSUME NEW i \in 1..L, t = 0 PROVE Restart(r, i, L)
    OBVIOUS
  <2>1. L \in i..L /\ IsFrame(r[L]) /\ r[L].seq = 1
    BY <1>1, <1>2
  <2> QED
    BY <2>1 DEF Restart
<1>6. Len(q) \in 0..Len(q) /\ L \in Nat
  BY <1>1
<1>7. r[L].block = n + 1 /\ r[L].seq = t + 1
  BY <1>2
<1> HIDE DEF L
<1>8. \A i \in 1..Len(q) : IsFrame(q[i]) =>
        q[i].block \in Nat /\ q[i].seq \in Nat /\ q[i].block <= n
  BY FrameType DEF FramesJoined
<1>9. \A i \in 1..Len(q) : IsFrame(q[i]) =>
        (n + 1) - (t + 1) = q[i].block - q[i].seq \/ Restart(r, i + 1, L)
  <2> SUFFICES ASSUME NEW i \in 1..Len(q), IsFrame(q[i])
               PROVE  (n + 1) - (t + 1) = q[i].block - q[i].seq \/ Restart(r, i + 1, L)
    OBVIOUS
  <2>1. GoesOn(q, i + 1, n, t, q[i].block, q[i].seq)
    BY DEF OwnJoined
  <2>2. i + 1 \in Nat \ {0} /\ i + 1 \in 1..L
    BY <1>1 DEF L
  <2>3. (n + 1) - (t + 1) = n - t
    OBVIOUS
  <2> QED
    BY <1>4, <1>5, <1>6, <2>1, <2>2, <2>3 DEF GoesOn
<1>10. FramesJoined(r, n + 1)
  <2> SUFFICES ASSUME NEW i \in 1..Len(r), IsFrame(r[i])
               PROVE  /\ r[i].seq # 0 /\ r[i].block # 0 /\ r[i].block <= n + 1
                      /\ \A k \in 1..Len(r) : IsFrame(r[k]) /\ i < k =>
                           /\ r[i].block < r[k].block
                           /\ r[k].block - r[k].seq = r[i].block - r[i].seq \/ Restart(r, i + 1, k)
    BY DEF FramesJoined
  <2>1. CASE i = L
    BY <1>1, <1>7, <2>1 DEF L
  <2>2. CASE i \in 1..Len(q) /\ r[i] = q[i] /\ i < L
    <3>1. r[i].seq # 0 /\ r[i].block # 0 /\ r[i].block <= n /\ r[i].block \in Nat
      BY <1>8, <2>2 DEF FramesJoined
    <3>2. ASSUME NEW k \in 1..Len(r), IsFrame(r[k]), i < k
          PROVE  /\ r[i].block < r[k].block
                 /\ r[k].block - r[k].seq = r[i].block - r[i].seq \/ Restart(r, i + 1, k)
      <4>1. CASE k = L
        <5>1. r[k].block = n + 1 /\ r[k].seq = t + 1
          BY <1>7, <4>1
        <5>2. r[i].block < r[k].block
          BY <3>1, <5>1
        <5>3. IsFrame(q[i]) /\ r[i] = q[i] /\ i \in 1..Len(q)
          BY <2>2
        <5>4. (n + 1) - (t + 1) = r[i].block - r[i].seq \/ Restart(r, i + 1, L)
          BY <1>9, <5>3
        <5> QED
          BY <4>1, <5>1, <5>2, <5>4
      <4>2. CASE k \in 1..Len(q) /\ r[k] = q[k]
        <5>1. i + 1 \in Nat \ {0} /\ k \in 0..Len(q)
          BY <1>1, <4>2
        <5> QED
          BY <1>4, <2>2, <3>2, <4>2, <5>1 DEF FramesJoined
      <4> QED
        BY <1>3, <3>2, <4>1, <4>2
    <3>3. r[i].block <= n + 1
      BY <3>1
    <3> QED
      BY <3>1, <3>2, <3>3
  <2> QED
    BY <1>3, <2>1, <2>2
<1>11. OwnJoined(r, n + 1, t + 1)
  <2> SUFFICES ASSUME NEW i \in 1..Len(r), IsFrame(r[i])
               PROVE  GoesOn(r, i + 1, n + 1, t + 1, r[i].block, r[i].seq)
    BY DEF OwnJoined
  <2>1. CASE i = L
    BY <1>7, <2>1 DEF GoesOn
  <2>2. CASE i \in 1..Len(q) /\ r[i] = q[i]
    BY <1>9, <2>2 DEF GoesOn, L
  <2> QED
    BY <1>3, <2>1, <2>2
<1>12. ASSUME NEW x \in Nat, NEW k \in Nat, DeviceJoined(q, x, k), GoesOn(q, 1, n, t, x, k)
       PROVE  DeviceJoined(r, x, k) /\ GoesOn(r, 1, n + 1, t + 1, x, k)
  <2>1. (n + 1) - (t + 1) = x - k \/ Restart(r, 1, L)
    <3>1. 1 \in Nat \ {0} /\ 1 \in 1..L
      BY <1>1 DEF L
    <3>2. (n + 1) - (t + 1) = n - t
      OBVIOUS
    <3> QED
      BY <1>4, <1>5, <1>6, <1>12, <3>1, <3>2 DEF GoesOn
  <2>2. ASSUME NEW i \in 1..Len(r), IsFrame(r[i])
        PROVE  r[i].block - r[i].seq = x - k \/ Restart(r, 1, i)
    <3>1. CASE i = L
      BY <1>7, <2>1, <3>1
    <3>2. CASE i \in 1..Len(q) /\ r[i] = q[i]
      <4>1. i \in 0..Len(q) /\ 1 \in Nat \ {0}
        BY <1>1, <3>2
      <4> QED
        BY <1>4, <1>12, <2>2, <3>2, <4>1 DEF DeviceJoined
    <3> QED
      BY <1>3, <2>2, <3>1, <3>2
  <2> QED
    BY <2>1, <2>2 DEF DeviceJoined, GoesOn, L
<1> QED
  BY <1>10, <1>11, <1>12

\* The first message is read.
LEMMA TailPopped ==
  ASSUME NEW T, NEW q \in Seq(T), q # <<>>
  PROVE  /\ Tail(q) \in Seq(T) /\ Popped(q, Tail(q)) /\ Head(q) = q[1] /\ Head(q) \in T
         /\ 1 \in 1..Len(q) /\ Len(q) \in Nat /\ Len(Tail(q)) \in Nat
<1>1. Len(q) \in Nat /\ Len(q) # 0
  OBVIOUS
<1> QED
  BY <1>1 DEF Popped

\* The identifiers of the frames behind the first message.
LEMMA PoppedStreams ==
  ASSUME NEW q \in Seq(ToServer), NEW r \in Seq(ToServer), Popped(q, r)
  PROVE  /\ Rising(q) => Rising(r)
         /\ \A s \in Nat : UpTo(q, s) => UpTo(r, s)
         /\ \A s \in Nat : AllOf(q, s) => AllOf(r, s)
         /\ \A s \in Nat, x \in Nat : Above(q, s, x) => Above(r, s, x)
<1>1. Len(q) \in Nat /\ Len(r) \in Nat
  OBVIOUS
<1>2. \A i \in 1..Len(r) : r[i] = q[i + 1] /\ i + 1 \in 1..Len(q)
  BY DEF Popped
<1>3. ASSUME Rising(q) PROVE Rising(r)
  <2>1. \A i, k \in 1..Len(r) : i < k => i + 1 < k + 1
    BY <1>1
  <2> QED
    BY <1>2, <1>3, <2>1 DEF Rising
<1> QED
  BY <1>2, <1>3 DEF UpTo, AllOf, Above

\* A restart behind the first message is one when that is gone.
LEMMA RestartPopped ==
  ASSUME NEW q \in Seq(ToServer), NEW r \in Seq(ToServer), Popped(q, r),
         NEW i \in Nat \ {0}, NEW k \in 0..Len(r), Restart(q, i + 1, k + 1)
  PROVE  Restart(r, i, k)
<1>1. PICK j \in (i + 1)..(k + 1) : IsFrame(q[j]) /\ q[j].seq = 1
  BY DEF Restart
<1>2. Len(q) \in Nat /\ Len(r) \in Nat
  OBVIOUS
<1>3. j - 1 \in i..k /\ j - 1 \in 1..Len(r) /\ (j - 1) + 1 = j
  BY <1>1, <1>2
<1> DEFINE l == j - 1
<1>4. r[l] = q[l + 1] /\ l + 1 = j /\ l \in i..k
  BY <1>3 DEF Popped
<1> HIDE DEF l
<1>5. IsFrame(r[l]) /\ r[l].seq = 1
  BY <1>1, <1>4
<1> QED
  BY <1>4, <1>5 DEF Restart

\* The order of the frames behind the first message.
LEMMA PoppedJoined ==
  ASSUME NEW q \in Seq(ToServer), NEW r \in Seq(ToServer), Popped(q, r),
         NEW n \in Nat, NEW t \in Nat
  PROVE  /\ FramesJoined(q, n) => FramesJoined(r, n)
         /\ OwnJoined(q, n, t) => OwnJoined(r, n, t)
<1>1. Len(q) \in Nat /\ Len(r) \in Nat /\ Len(r) + 1 = Len(q)
  BY DEF Popped
<1>2. \A i \in 1..Len(r) : r[i] = q[i + 1] /\ i + 1 \in 1..Len(q)
  BY DEF Popped
<1>3. ASSUME FramesJoined(q, n) PROVE FramesJoined(r, n)
  <2> SUFFICES ASSUME NEW i \in 1..Len(r), IsFrame(r[i])
               PROVE  /\ r[i].seq # 0 /\ r[i].block # 0 /\ r[i].block <= n
                      /\ \A k \in 1..Len(r) : IsFrame(r[k]) /\ i < k =>
                           /\ r[i].block < r[k].block
                           /\ r[k].block - r[k].seq = r[i].block - r[i].seq \/ Restart(r, i + 1, k)
    BY DEF FramesJoined
  <2>1. r[i] = q[i + 1] /\ i + 1 \in 1..Len(q) /\ IsFrame(q[i + 1])
    BY <1>2
  <2>2. r[i].seq # 0 /\ r[i].block # 0 /\ r[i].block <= n
    BY <1>3, <2>1 DEF FramesJoined
  <2>3. ASSUME NEW k \in 1..Len(r), IsFrame(r[k]), i < k
        PROVE  /\ r[i].block < r[k].block
               /\ r[k].block - r[k].seq = r[i].block - r[i].seq \/ Restart(r, i + 1, k)
    <3>1. r[k] = q[k + 1] /\ k + 1 \in 1..Len(q) /\ IsFrame(q[k + 1])
      BY <1>2, <2>3
    <3>2. i + 1 < k + 1 /\ i + 1 \in Nat \ {0} /\ k \in 0..Len(r)
      BY <1>1, <2>3
    <3>3. /\ r[i].block < r[k].block
          /\ r[k].block - r[k].seq = r[i].block - r[i].seq \/ Restart(q, (i + 1) + 1, k + 1)
      BY <1>3, <2>1, <3>1, <3>2 DEF FramesJoined
    <3> QED
      BY <3>2, <3>3, RestartPopped
  <2> QED
    BY <2>2, <2>3
<1>4. ASSUME OwnJoined(q, n, t) PROVE OwnJoined(r, n, t)
  <2> SUFFICES ASSUME NEW i \in 1..Len(r), IsFrame(r[i])
               PROVE  GoesOn(r, i + 1, n, t, r[i].block, r[i].seq)
    BY DEF OwnJoined
  <2>1. r[i] = q[i + 1] /\ i + 1 \in 1..Len(q) /\ IsFrame(q[i + 1])
    BY <1>2
  <2>2. GoesOn(q, (i + 1) + 1, n, t, r[i].block, r[i].seq)
    BY <1>4, <2>1 DEF OwnJoined
  <2>3. i + 1 \in Nat \ {0} /\ Len(r) \in 0..Len(r)
    BY <1>1
  <2>4. Restart(q, (i + 1) + 1, Len(r) + 1) => Restart(r, i + 1, Len(r))
    BY <2>3, RestartPopped
  <2> QED
    BY <1>1, <2>2, <2>4 DEF GoesOn
<1> QED
  BY <1>3, <1>4

\* What the device goes by is not touched by other messages ...
LEMMA PoppedOther ==
  ASSUME NEW q \in Seq(ToServer), NEW r \in Seq(ToServer), Popped(q, r), ~IsFrame(q[1]),
         NEW n \in Nat, NEW t \in Nat, NEW x \in Nat, NEW k \in Nat
  PROVE  /\ DeviceJoined(q, x, k) => DeviceJoined(r, x, k)
         /\ GoesOn(q, 1, n, t, x, k) => GoesOn(r, 1, n, t, x, k)
<1>1. Len(q) \in Nat /\ Len(r) \in Nat /\ Len(r) + 1 = Len(q)
  BY DEF Popped
<1>2. \A i \in 1..Len(r) : r[i] = q[i + 1] /\ i + 1 \in 1..Len(q)
  BY DEF Popped
<1>3. \A i \in 0..Len(r) : Restart(q, 1, i + 1) => Restart(r, 1, i)
  <2> SUFFICES ASSUME NEW i \in 0..Len(r), Restart(q, 1, i + 1) PROVE Restart(r, 1, i)
    OBVIOUS
  <2>1. PICK j \in 1..(i + 1) : IsFrame(q[j]) /\ q[j].seq = 1
    BY DEF Restart
  <2>2. j # 1 /\ j \in (1 + 1)..(i + 1)
    BY <2>1
  <2>3. Restart(q, 1 + 1, i + 1)
    BY <2>1, <2>2 DEF Restart
  <2>4. 1 \in Nat \ {0}
    OBVIOUS
  <2> QED
    BY <2>3, <2>4, RestartPopped
<1>4. ASSUME DeviceJoined(q, x, k) PROVE DeviceJoined(r, x, k)
  <2> SUFFICES ASSUME NEW i \in 1..Len(r), IsFrame(r[i])
               PROVE  r[i].block - r[i].seq = x - k \/ Restart(r, 1, i)
    BY DEF DeviceJoined
  <2>1. r[i] = q[i + 1] /\ i + 1 \in 1..Len(q) /\ i \in 0..Len(r)
    BY <1>1, <1>2
  <2>2. q[i + 1].block - q[i + 1].seq = x - k \/ Restart(q, 1, i + 1)
    BY <1>4, <2>1 DEF DeviceJoined
  <2> QED
    BY <1>3, <2>1, <2>2
<1>5. ASSUME GoesOn(q, 1, n, t, x, k) PROVE GoesOn(r, 1, n, t, x, k)
  <2>1. Len(r) \in 0..Len(r)
    BY <1>1
  <2> QED
    BY <1>1, <1>3, <1>5, <2>1 DEF GoesOn
<1> QED
  BY <1>4, <1>5

\* ... and when a frame is read, it is what the device goes by.
LEMMA PoppedFrame ==
  ASSUME NEW q \in Seq(ToServer), NEW r \in Seq(ToServer), Popped(q, r),
         NEW h, h = q[1], IsFrame(h), NEW n \in Nat, FramesJoined(q, n)
  PROVE  /\ h.block \in Nat /\ h.seq \in Nat /\ h.seq # 0 /\ h.block # 0 /\ h.block <= n
         /\ DeviceJoined(r, h.block, h.seq)
         /\ \A t \in Nat : OwnJoined(q, n, t) => GoesOn(r, 1, n, t, h.block, h.seq)
         /\ \A s \in Nat : Above(r, s, h.block)
<1>1. Len(q) \in Nat /\ Len(r) \in Nat /\ Len(r) + 1 = Len(q) /\ 1 \in 1..Len(q)
  BY DEF Popped
<1>2. \A i \in 1..Len(r) : r[i] = q[i + 1] /\ i + 1 \in 1..Len(q)
  BY DEF Popped
<1>3. h.block \in Nat /\ h.seq \in Nat /\ h.seq # 0 /\ h.block # 0 /\ h.block <= n
  BY <1>1, FrameType DEF FramesJoined
<1>4. \A i \in 0..Len(r) : Restart(q, 1 + 1, i + 1) => Restart(r, 1, i)
  <2>1. 1 \in Nat \ {0}
    OBVIOUS
  <2> QED
    BY <2>1, RestartPopped
<1>5. \A i \in 1..Len(r) : IsFrame(r[i]) =>
        h.block < r[i].block /\ (r[i].block - r[i].seq = h.block - h.seq \/ Restart(r, 1, i))
  <2> SUFFICES ASSUME NEW i \in 1..Len(r), IsFrame(r[i])
               PROVE  /\ h.block < r[i].block
                      /\ r[i].block - r[i].seq = h.block - h.seq \/ Restart(r, 1, i)
    OBVIOUS
  <2>1. r[i] = q[i + 1] /\ i + 1 \in 1..Len(q) /\ IsFrame(q[i + 1]) /\ 1 < i + 1 /\ i \in 0..Len(r)
    BY <1>1, <1>2
  <2>2. /\ q[1].block < q[i + 1].block
        /\ q[i + 1].block - q[i + 1].seq = q[1].block - q[1].seq \/ Restart(q, 1 + 1, i + 1)
    BY <1>1, <2>1 DEF FramesJoined
  <2> QED
    BY <1>4, <2>1, <2>2
<1>6. ASSUME NEW t \in Nat, OwnJoined(q, n, t) PROVE GoesOn(r, 1, n, t, h.block, h.seq)
  <2>1. GoesOn(q, 1 + 1, n, t, h.block, h.seq)
    BY <1>1, <1>6 DEF OwnJoined
  <2>2. Len(r) \in 0..Len(r)
    BY <1>1
  <2> QED
    BY <1>1, <1>4, <2>1, <2>2 DEF GoesOn
<1> QED
  BY <1>3, <1>5, <1>6 DEF DeviceJoined, Above

\* No messages.
LEMMA NoMessages ==
  ASSUME NEW n, NEW t
  PROVE  /\ Rising(<<>>) /\ FramesJoined(<<>>, n) /\ OwnJoined(<<>>, n, t)
         /\ \A s : UpTo(<<>>, s) /\ AllOf(<<>>, s)
         /\ \A s, x : Above(<<>>, s, x) /\ DeviceJoined(<<>>, s, x)
  BY DEF Rising, FramesJoined, OwnJoined, UpTo, AllOf, Above, DeviceJoined

\* What the client sends is added to the messages of its connection.
LEMMA PostedLists ==
  ASSUME Shape, NEW o \in Seq(ToServer), Posted(o), conn = 0 => o = <<>>
  PROVE  /\ up' \in [Conn -> Seq(ToServer)]
         /\ \A c \in Conn : c # conn => up'[c] = up[c]
         /\ conn # 0 => /\ conn \in Conn /\ Longer(up[conn], up'[conn])
                        /\ \A i \in 1..Len(up'[conn]) : i > Len(up[conn]) =>
                             \E k \in 1..Len(o) : up'[conn][i] = o[k]
         /\ NoFrames(o) => \A c \in Conn : Quietly(up[c], up'[c])
         /\ \A m : conn # 0 /\ IsFrame(m) /\ EndsIn(o, m) => Framed(up[conn], up'[conn], m)
<1>1. up \in [Conn -> Seq(ToServer)] /\ conn \in 0..MaxConns /\ MaxConns \in Nat
  BY SerialAssumption DEF Shape
<1>2. CASE conn = 0
  <2>1. up' = up /\ \A c \in Conn : c # conn
    BY <1>2 DEF Posted, Conn
  <2>2. \A c \in Conn : Quietly(up[c], up[c])
    <3> SUFFICES ASSUME NEW c \in Conn PROVE Quietly(up[c], up[c])
      OBVIOUS
    <3>1. Len(up[c]) \in Nat
      BY <1>1
    <3> QED
      BY <3>1 DEF Quietly, Longer
  <2> QED
    BY <1>1, <1>2, <2>1, <2>2
<1>3. CASE conn # 0
  <2> DEFINE q == up[conn]
             r == q \o o
  <2>1. conn \in Conn /\ up' = [up EXCEPT ![conn] = r]
    BY <1>1, <1>3 DEF Conn, Posted
  <2>2. q \in Seq(ToServer) /\ r \in Seq(ToServer)
    BY <1>1, <2>1
  <2>3. /\ Len(q) \in Nat /\ Len(o) \in Nat /\ Len(r) = Len(q) + Len(o)
        /\ \A i \in 1..(Len(q) + Len(o)) : r[i] = IF i <= Len(q) THEN q[i] ELSE o[i - Len(q)]
    BY <2>2
  <2> HIDE DEF r
  <2>4. up'[conn] = r /\ up' \in [Conn -> Seq(ToServer)] /\ \A c \in Conn : c # conn => up'[c] = up[c]
    BY <1>1, <2>1, <2>2
  <2> HIDE DEF q
  <2>5. \A i \in 1..Len(q) : r[i] = q[i]
    BY <2>3
  <2>6. \A i \in 1..Len(r) : i > Len(q) => i - Len(q) \in 1..Len(o) /\ r[i] = o[i - Len(q)]
    BY <2>3
  <2>7. Longer(q, r)
    BY <2>3, <2>5 DEF Longer
  <2>8. ASSUME NoFrames(o) PROVE \A c \in Conn : Quietly(up[c], up'[c])
    <3>1. Quietly(q, r)
      BY <2>6, <2>7, <2>8 DEF Quietly, NoFrames
    <3>2. ASSUME NEW c \in Conn, c # conn PROVE Quietly(up[c], up'[c])
      <4>1. Len(up[c]) \in Nat /\ up'[c] = up[c]
        BY <1>1, <2>4, <3>2
      <4> QED
        BY <4>1 DEF Quietly, Longer
    <3> QED
      BY <2>4, <3>1, <3>2 DEF q
  <2>9. ASSUME NEW m, IsFrame(m), EndsIn(o, m) PROVE Framed(q, r, m)
    <3>1. Len(o) # 0 /\ o[Len(o)] = m
      BY <2>9 DEF EndsIn
    <3>2. Len(q) < Len(r) /\ Len(r) \in 1..Len(r) /\ Len(r) - Len(q) = Len(o)
      BY <2>3, <3>1
    <3>3. r[Len(r)] = m
      BY <2>6, <3>1, <3>2
    <3>4. ASSUME NEW i \in 1..Len(r), i > Len(q), i < Len(r) PROVE ~IsFrame(r[i])
      <4>1. i - Len(q) \in 1..Len(o) /\ r[i] = o[i - Len(q)] /\ i - Len(q) < Len(o)
        BY <2>3, <2>6, <3>4
      <4> QED
        BY <2>9, <4>1 DEF EndsIn
    <3> QED
      BY <2>7, <2>9, <3>2, <3>3, <3>4 DEF Framed
  <2> QED
    BY <1>3, <2>1, <2>4, <2>6, <2>7, <2>8, <2>9 DEF q
<1> QED
  BY <1>2, <1>3

----------------------------------------------------------------------------
(* From the endpoint to the device, step by step *)

\* The types of a device; its owner is a connection.
LEMMA DeviceFacts ==
  ASSUME Shape, Owners, NEW p \in Port
  PROVE  /\ exports[p] \in Device /\ exports[p].owner \in Nat /\ exports[p].stream \in Nat
         /\ exports[p].tx_seq \in Nat /\ exports[p].rx_seq \in Nat
         /\ exports[p].pending \in Nat \cup {NoBlock} /\ wrote[p] \in Seq(Entry)
         /\ exports[p].owner # 0 => exports[p].owner \in Conn
<1>1. exports[p] \in Device /\ wrote[p] \in Seq(Entry)
  BY DEF Shape
<1>2. exports[p].owner \in Nat /\ exports[p].owner <= conns /\ conns \in Nat /\ conns <= MaxConns
  BY <1>1, SerialAssumption DEF Shape, Owners, Device
<1> QED
  BY <1>1, <1>2, SerialAssumption DEF Device, Conn

\* What is in the ledger.
LEMMA EntryFacts ==
  ASSUME Shape, NEW p \in Port, NEW i \in 1..Len(wrote[p])
  PROVE  wrote[p][i].conn \in Nat /\ wrote[p][i].stream \in Nat /\ wrote[p][i].block \in Nat
<1>1. wrote[p] \in Seq(Entry)
  BY DEF Shape
<1>2. wrote[p][i] \in Entry
  BY <1>1
<1> QED
  BY <1>2 DEF Entry

\* The last block a device accepted is one.
LEMMA LastBlockNumber ==
  ASSUME Shape, Owners, Accepted, NEW p \in Port, exports[p].owner # 0, exports[p].tx_seq # 0
  PROVE  LastBlock(p) \in Nat
<1>1. exports[p].pending \in Nat \cup {NoBlock} /\ wrote[p] \in Seq(Entry)
  BY DeviceFacts
<1>2. CASE exports[p].pending # NoBlock
  BY <1>1, <1>2 DEF LastBlock
<1>3. CASE exports[p].pending = NoBlock
  <2>1. wrote[p] # <<>>
    BY <1>3 DEF Accepted, WroteNow
  <2>2. Len(wrote[p]) \in 1..Len(wrote[p])
    BY <1>1, <2>1
  <2>3. wrote[p][Len(wrote[p])].block \in Nat
    BY <2>2, EntryFacts
  <2> QED
    BY <1>3, <2>3 DEF LastBlock
<1> QED
  BY <1>2, <1>3

\* The client sends no frame.
LEMMA WQuiet ==
  ASSUME Shape, Owners, WInv, Contiguous', Sent' \in Nat,
         up' \in [Conn -> Seq(ToServer)],
         UNCHANGED <<exports, wrote, issued>>,
         may' => may \/ \A p \in Port : exports[p].owner = 0,
         \A c \in Conn : Quietly(up[c], up'[c]),
         conn' \in 0..MaxConns,
         Sent <= Sent', b'.tx_seq = 0 \/ (b'.tx_seq = b.tx_seq /\ Sent' = Sent /\ conn' = conn)
  PROVE  WInv'
<1>1. Sent \in Nat /\ b.tx_seq \in Nat
  BY SentNumber DEF WInv
<1>2. up \in [Conn -> Seq(ToServer)] /\ \A c \in Conn : up[c] \in Seq(ToServer) /\ up'[c] \in Seq(ToServer)
  BY DEF Shape
<1>3. \A c \in Conn : FramesJoined(up'[c], Sent')
  BY <1>1, <1>2, QuietJoined DEF WInv
<1>4. conn' # 0 => conn' \in Conn
  BY SerialAssumption DEF Conn
<1>5. conn' # 0 => OwnJoined(up'[conn'], Sent', b'.tx_seq)
  <2> SUFFICES ASSUME conn' # 0 PROVE OwnJoined(up'[conn'], Sent', b'.tx_seq)
    OBVIOUS
  <2>1. CASE b'.tx_seq = 0
    BY <2>1 DEF OwnJoined, GoesOn
  <2>2. CASE b'.tx_seq = b.tx_seq /\ Sent' = Sent /\ conn' = conn
    <3>1. OwnJoined(up[conn], Sent, b.tx_seq) /\ conn \in Conn
      BY <1>4, <2>2 DEF WInv
    <3>2. OwnJoined(up'[conn], Sent, b.tx_seq)
      BY <1>1, <1>2, <3>1, QuietJoined
    <3> QED
      BY <2>2, <3>2
  <2> QED
    BY <2>1, <2>2
<1>6. \A p \in Port : LastBlock(p)' = LastBlock(p) /\ WroteNow(p)' = WroteNow(p)
  BY DEF LastBlock, WroteNow
<1>7. ServerJoined'
  <2> SUFFICES ASSUME NEW p \in Port, may', exports[p].owner # 0, exports[p].tx_seq # 0
               PROVE  /\ DeviceJoined(up'[exports[p].owner], LastBlock(p), exports[p].tx_seq)
                      /\ exports[p].owner = conn' =>
                           GoesOn(up'[conn'], 1, Sent', b'.tx_seq, LastBlock(p), exports[p].tx_seq)
    BY <1>6 DEF ServerJoined
  <2> DEFINE c == exports[p].owner
             k == exports[p].tx_seq
             x == LastBlock(p)
  <2>1. c \in Conn /\ k \in Nat /\ x \in Nat
    BY DeviceFacts, LastBlockNumber DEF WInv
  <2>2. DeviceJoined(up[c], x, k) /\ (c = conn => GoesOn(up[conn], 1, Sent, b.tx_seq, x, k))
    BY DEF WInv, ServerJoined
  <2> HIDE DEF c, k, x
  <2>3. DeviceJoined(up'[c], x, k)
    BY <1>1, <1>2, <2>1, <2>2, QuietJoined
  <2>4. c = conn' => GoesOn(up'[conn'], 1, Sent', b'.tx_seq, x, k)
    <3>1. CASE b'.tx_seq = 0
      BY <3>1 DEF GoesOn
    <3>2. CASE b'.tx_seq = b.tx_seq /\ Sent' = Sent /\ conn' = conn
      <4> SUFFICES ASSUME c = conn PROVE GoesOn(up'[c], 1, Sent, b.tx_seq, x, k)
        BY <3>2
      <4> QED
        BY <1>1, <1>2, <2>1, <2>2, QuietJoined
    <3> QED
      BY <3>1, <3>2
  <2> QED
    BY <2>3, <2>4 DEF c, k, x
<1>8. \A p \in Port : exports[p].owner # 0 => \A x \in Nat :
        Above(up[exports[p].owner], exports[p].stream, x) =>
          Above(up'[exports[p].owner], exports[p].stream, x)
  BY <1>2, DeviceFacts, QuietStreams
<1>9. Ledger'
  <2> SUFFICES ASSUME NEW p \in Port, NEW i \in 1..Len(wrote[p])
               PROVE  LET w == wrote[p][i] x == exports[p] IN
                        /\ w.conn \in Conn /\ w.stream <= issued[w.conn] /\ w.block <= Sent'
                        /\ \A k \in 1..Len(wrote[p]) : i < k => w.block < wrote[p][k].block
                        /\ x.pending # NoBlock => w.block < x.pending
                        /\ x.owner # 0 => Above(up'[x.owner], x.stream, w.block)
    BY DEF Ledger
  <2>1. wrote[p][i].block \in Nat
    BY EntryFacts
  <2>2. wrote[p][i].block <= Sent'
    BY <1>1, <2>1 DEF WInv, Ledger
  <2>3. exports[p].owner # 0 => Above(up'[exports[p].owner], exports[p].stream, wrote[p][i].block)
    BY <1>8, <2>1 DEF WInv, Ledger
  <2> QED
    BY <2>2, <2>3 DEF WInv, Ledger
<1>10. Accepted'
  <2> SUFFICES ASSUME NEW p \in Port, exports[p].owner # 0
               PROVE  LET x == exports[p] IN
                        /\ x.pending # NoBlock =>
                             /\ x.pending # 0 /\ x.pending <= Sent'
                             /\ Above(up'[x.owner], x.stream, x.pending)
                             /\ WroteNow(p) => x.pending = wrote[p][Len(wrote[p])].block + 1
                        /\ x.pending = NoBlock => (x.tx_seq # 0 <=> WroteNow(p))
                        /\ x.tx_seq = 0 => ~WroteNow(p)
    BY <1>6 DEF Accepted
  <2>1. exports[p].pending # NoBlock => exports[p].pending \in Nat
    BY DeviceFacts
  <2>2. exports[p].pending # NoBlock =>
          exports[p].pending <= Sent' /\ Above(up'[exports[p].owner], exports[p].stream, exports[p].pending)
    BY <1>1, <1>8, <2>1 DEF WInv, Accepted
  <2> QED
    BY <2>2 DEF WInv, Accepted
<1>11. WrittenOnce'
  BY DEF WInv, WrittenOnce
<1> QED
  BY <1>3, <1>5, <1>7, <1>9, <1>10, <1>11 DEF WInv

\* The client sends a frame.
LEMMA WFrame ==
  ASSUME Shape, Owners, WInv, Contiguous',
         up' \in [Conn -> Seq(ToServer)],
         UNCHANGED <<exports, wrote, issued, may, conn>>, conn \in Conn,
         \A c \in Conn : c # conn => up'[c] = up[c],
         NEW s \in Nat \ {0}, UpTo(up[conn], s), Framed(up[conn], up'[conn], NextFrame(s)),
         Sent' = Sent + 1, b'.tx_seq = b.tx_seq + 1
  PROVE  WInv'
<1> DEFINE n == Sent
           t == b.tx_seq
           m == NextFrame(s)
           q == up[conn]
           r == up'[conn]
<1>1. n \in Nat /\ t \in Nat /\ Sent' = n + 1 /\ b'.tx_seq = t + 1
  BY SentNumber DEF WInv
<1>2. q \in Seq(ToServer) /\ r \in Seq(ToServer) /\ Framed(q, r, m) /\ UpTo(q, s)
  BY DEF Shape
<1>3. m.block = n + 1 /\ m.seq = t + 1 /\ m.stream = s
  BY DEF NextFrame
<1>4. FramesJoined(q, n) /\ OwnJoined(q, n, t)
  BY SerialAssumption DEF WInv, Conn
<1>5. \A c \in Conn : c # conn => FramesJoined(up'[c], n)
  BY DEF WInv
<1>6. up \in [Conn -> Seq(ToServer)] /\ \A c \in Conn : c # conn => up'[c] = up[c]
  BY DEF Shape
<1>a. Sent = n /\ b.tx_seq = t /\ up[conn] = q /\ up'[conn] = r
  OBVIOUS
<1> HIDE DEF n, t, m, q, r
<1>7. /\ FramesJoined(r, n + 1) /\ OwnJoined(r, n + 1, t + 1)
      /\ \A x \in Nat, k \in Nat : DeviceJoined(q, x, k) /\ GoesOn(q, 1, n, t, x, k) =>
           DeviceJoined(r, x, k) /\ GoesOn(r, 1, n + 1, t + 1, x, k)
  BY <1>1, <1>2, <1>3, <1>4, FramedJoined
<1>8. \A z \in Nat, x \in Nat : Above(q, z, x) /\ x < m.block => Above(r, z, x)
  BY <1>2, <1>3, FramedStreams
<1>9. \A c \in Conn : FramesJoined(up'[c], Sent')
  <2> SUFFICES ASSUME NEW c \in Conn PROVE FramesJoined(up'[c], n + 1)
    BY <1>1
  <2>1. CASE c = conn
    BY <1>7, <1>a, <2>1
  <2>2. CASE c # conn
    <3>1. up[c] \in Seq(ToServer) /\ FramesJoined(up[c], n) /\ up'[c] = up[c]
      BY <1>5, <1>6, <2>2
    <3>2. Quietly(up[c], up[c]) /\ n <= n + 1 /\ n + 1 \in Nat
      BY <1>1, <3>1 DEF Quietly, Longer
    <3>3. FramesJoined(up[c], n + 1)
      BY <1>1, <3>1, <3>2, QuietJoined
    <3> QED
      BY <3>1, <3>3
  <2> QED
    BY <2>1, <2>2
<1>10. conn' # 0 => OwnJoined(up'[conn'], Sent', b'.tx_seq)
  BY <1>1, <1>7, <1>a
<1>11. \A p \in Port : LastBlock(p)' = LastBlock(p) /\ WroteNow(p)' = WroteNow(p)
  BY DEF LastBlock, WroteNow
<1>12. ServerJoined'
  <2> SUFFICES ASSUME NEW p \in Port, may, exports[p].owner # 0, exports[p].tx_seq # 0
               PROVE  /\ DeviceJoined(up'[exports[p].owner], LastBlock(p), exports[p].tx_seq)
                      /\ exports[p].owner = conn =>
                           GoesOn(r, 1, n + 1, t + 1, LastBlock(p), exports[p].tx_seq)
    BY <1>1, <1>11, <1>a DEF ServerJoined
  <2> DEFINE c == exports[p].owner
             k == exports[p].tx_seq
             x == LastBlock(p)
  <2>1. c \in Conn /\ k \in Nat /\ x \in Nat
    BY DeviceFacts, LastBlockNumber DEF WInv
  <2>2. DeviceJoined(up[c], x, k) /\ (c = conn => GoesOn(q, 1, n, t, x, k))
    BY <1>a DEF WInv, ServerJoined
  <2> HIDE DEF c, k, x
  <2>3. DeviceJoined(up'[c], x, k) /\ (c = conn => GoesOn(r, 1, n + 1, t + 1, x, k))
    <3>1. CASE c = conn
      BY <1>7, <1>a, <2>1, <2>2, <3>1
    <3>2. CASE c # conn
      BY <1>6, <2>1, <2>2, <3>2
    <3> QED
      BY <3>1, <3>2
  <2> QED
    BY <2>3 DEF c, k, x
<1>13. \A p \in Port : exports[p].owner # 0 => \A x \in Nat :
         Above(up[exports[p].owner], exports[p].stream, x) /\ x <= n =>
           Above(up'[exports[p].owner], exports[p].stream, x)
  <2> SUFFICES ASSUME NEW p \in Port, exports[p].owner # 0, NEW x \in Nat, x <= n,
                      Above(up[exports[p].owner], exports[p].stream, x)
               PROVE  Above(up'[exports[p].owner], exports[p].stream, x)
    OBVIOUS
  <2>1. exports[p].owner \in Conn /\ exports[p].stream \in Nat /\ x < m.block
    BY <1>1, <1>3, DeviceFacts
  <2> QED
    BY <1>6, <1>8, <1>a, <2>1
<1>14. Ledger'
  <2> SUFFICES ASSUME NEW p \in Port, NEW i \in 1..Len(wrote[p])
               PROVE  LET w == wrote[p][i] x == exports[p] IN
                        /\ w.conn \in Conn /\ w.stream <= issued[w.conn] /\ w.block <= n + 1
                        /\ \A k \in 1..Len(wrote[p]) : i < k => w.block < wrote[p][k].block
                        /\ x.pending # NoBlock => w.block < x.pending
                        /\ x.owner # 0 => Above(up'[x.owner], x.stream, w.block)
    BY <1>1 DEF Ledger
  <2>1. wrote[p][i].block \in Nat /\ wrote[p][i].block <= n
    BY <1>a, EntryFacts DEF WInv, Ledger
  <2>2. exports[p].owner # 0 => Above(up'[exports[p].owner], exports[p].stream, wrote[p][i].block)
    BY <1>13, <2>1 DEF WInv, Ledger
  <2>3. wrote[p][i].block <= n + 1
    BY <1>1, <2>1
  <2> QED
    BY <2>2, <2>3 DEF WInv, Ledger
<1>15. Accepted'
  <2> SUFFICES ASSUME NEW p \in Port, exports[p].owner # 0
               PROVE  LET x == exports[p] IN
                        /\ x.pending # NoBlock =>
                             /\ x.pending # 0 /\ x.pending <= n + 1
                             /\ Above(up'[x.owner], x.stream, x.pending)
                             /\ WroteNow(p) => x.pending = wrote[p][Len(wrote[p])].block + 1
                        /\ x.pending = NoBlock => (x.tx_seq # 0 <=> WroteNow(p))
                        /\ x.tx_seq = 0 => ~WroteNow(p)
    BY <1>1, <1>11 DEF Accepted
  <2>1. exports[p].pending # NoBlock => exports[p].pending \in Nat /\ exports[p].pending <= n
    BY <1>a, DeviceFacts DEF WInv, Accepted
  <2>2. exports[p].pending # NoBlock =>
          exports[p].pending <= n + 1 /\ Above(up'[exports[p].owner], exports[p].stream, exports[p].pending)
    BY <1>1, <1>13, <2>1 DEF WInv, Accepted
  <2> QED
    BY <2>2 DEF WInv, Accepted
<1>16. WrittenOnce'
  BY DEF WInv, WrittenOnce
<1> QED
  BY <1>9, <1>10, <1>12, <1>14, <1>15, <1>16 DEF WInv

----------------------------------------------------------------------------
(* What the server does to a device, as far as what is sent to it goes *)

\* The messages of connection c are as they were, the first one that is not a
\* frame aside ...
Unread(c) == up'[c] = up[c] \/ (Popped(up[c], up'[c]) /\ ~IsFrame(up[c][1]))

\* ... or are fewer.
Shrinks(c) == up'[c] = up[c] \/ Popped(up[c], up'[c]) \/ up'[c] = <<>>

SameUser(p) ==
  /\ exports'[p].owner = exports[p].owner /\ exports'[p].stream = exports[p].stream

Stays(p) ==
  /\ SameUser(p) /\ exports'[p].tx_seq = exports[p].tx_seq
  /\ exports'[p].pending = exports[p].pending /\ wrote'[p] = wrote[p]
  /\ may /\ exports[p].owner # 0 /\ exports[p].tx_seq # 0 => Unread(exports[p].owner)

Leaves(p) ==
  exports'[p].owner = 0 /\ exports'[p].pending = NoBlock /\ wrote'[p] = wrote[p]

\* The device has written what was pending.
Writes(p) ==
  /\ exports[p].owner # 0 /\ exports[p].pending # NoBlock /\ exports'[p].pending = NoBlock
  /\ wrote'[p] = Append(wrote[p],
       [conn |-> exports[p].owner, stream |-> exports[p].stream, block |-> exports[p].pending])
  /\ \/ exports'[p].owner = 0
     \/ /\ SameUser(p) /\ exports'[p].tx_seq = exports[p].tx_seq
        /\ up'[exports[p].owner] = up[exports[p].owner]

\* The frame h becomes pending.
Takes(p, h) ==
  LET c == exports[p].owner
  IN  /\ c # 0 /\ SameUser(p) /\ wrote'[p] = wrote[p]
      /\ Popped(up[c], up'[c]) /\ h = up[c][1] /\ IsFrame(h) /\ h.stream = exports[p].stream
      /\ exports[p].pending = NoBlock /\ h.seq = exports[p].tx_seq + 1
      /\ exports'[p].pending = h.block /\ exports'[p].tx_seq = h.seq

\* Connection c gets the device under a new identifier.
Attaches(p, c) ==
  /\ c \in Conn /\ exports[p].owner = 0 /\ exports'[p].owner = c
  /\ exports'[p].stream = issued[c] + 1 /\ exports'[p].tx_seq = 0
  /\ exports'[p].pending = NoBlock /\ wrote'[p] = wrote[p]

ServerKeeps ==
  /\ UNCHANGED <<b, typed, conn, may>>
  /\ issued' \in [Conn -> Nat] /\ \A c \in Conn : issued[c] <= issued'[c]
  /\ up' \in [Conn -> Seq(ToServer)] /\ \A c \in Conn : Shrinks(c)

\* Fewer messages lose nothing.
LEMMA ShrinkFacts ==
  ASSUME Shape, ServerKeeps, NEW c \in Conn
  PROVE  /\ Rising(up[c]) => Rising(up'[c])
         /\ \A s \in Nat : UpTo(up[c], s) => UpTo(up'[c], s)
         /\ \A s \in Nat : AllOf(up[c], s) => AllOf(up'[c], s)
         /\ \A s \in Nat, x \in Nat : Above(up[c], s, x) => Above(up'[c], s, x)
         /\ \A n \in Nat : FramesJoined(up[c], n) => FramesJoined(up'[c], n)
         /\ \A n \in Nat, t \in Nat : OwnJoined(up[c], n, t) => OwnJoined(up'[c], n, t)
<1>1. up[c] \in Seq(ToServer) /\ up'[c] \in Seq(ToServer) /\ Shrinks(c)
  BY DEF Shape, ServerKeeps
<1>2. CASE up'[c] = up[c]
  BY <1>2
<1>3. CASE Popped(up[c], up'[c])
  <2>1. /\ Rising(up[c]) => Rising(up'[c])
        /\ \A s \in Nat : UpTo(up[c], s) => UpTo(up'[c], s)
        /\ \A s \in Nat : AllOf(up[c], s) => AllOf(up'[c], s)
        /\ \A s \in Nat, x \in Nat : Above(up[c], s, x) => Above(up'[c], s, x)
    BY <1>1, <1>3, PoppedStreams
  <2>2. \A n \in Nat : \A t \in Nat :
          /\ FramesJoined(up[c], n) => FramesJoined(up'[c], n)
          /\ OwnJoined(up[c], n, t) => OwnJoined(up'[c], n, t)
    BY <1>1, <1>3, PoppedJoined
  <2>3. \A n \in Nat : FramesJoined(up[c], n) => FramesJoined(up'[c], n)
    <3> TAKE n \in Nat
    <3>1. 0 \in Nat
      OBVIOUS
    <3> QED
      BY <2>2, <3>1
  <2> QED
    BY <2>1, <2>2, <2>3
<1>4. CASE up'[c] = <<>>
  BY <1>4, NoMessages
<1> QED
  BY <1>1, <1>2, <1>3, <1>4 DEF Shrinks

\* The invariant of one device.
PortJoined(p) ==
  may /\ exports[p].owner # 0 /\ exports[p].tx_seq # 0 =>
    /\ DeviceJoined(up[exports[p].owner], LastBlock(p), exports[p].tx_seq)
    /\ exports[p].owner = conn =>
         GoesOn(up[conn], 1, Sent, b.tx_seq, LastBlock(p), exports[p].tx_seq)

PortLedger(p) ==
  \A i \in 1..Len(wrote[p]) :
    /\ wrote[p][i].conn \in Conn /\ wrote[p][i].stream <= issued[wrote[p][i].conn]
    /\ wrote[p][i].block <= Sent
    /\ \A k \in 1..Len(wrote[p]) : i < k => wrote[p][i].block < wrote[p][k].block
    /\ exports[p].pending # NoBlock => wrote[p][i].block < exports[p].pending
    /\ exports[p].owner # 0 => Above(up[exports[p].owner], exports[p].stream, wrote[p][i].block)

PortAccepted(p) ==
  exports[p].owner # 0 =>
    /\ exports[p].pending # NoBlock =>
         /\ exports[p].pending # 0 /\ exports[p].pending <= Sent
         /\ Above(up[exports[p].owner], exports[p].stream, exports[p].pending)
         /\ WroteNow(p) => exports[p].pending = wrote[p][Len(wrote[p])].block + 1
    /\ exports[p].pending = NoBlock => (exports[p].tx_seq # 0 <=> WroteNow(p))
    /\ exports[p].tx_seq = 0 => ~WroteNow(p)

PortOnce(p) ==
  \A i \in 1 .. Len(wrote[p]) - 1 :
    IF SameAttachment(wrote[p][i], wrote[p][i + 1])
      THEN wrote[p][i + 1].block = wrote[p][i].block + 1
      ELSE wrote[p][i + 1].block > wrote[p][i].block

PortInv(p) == PortJoined(p) /\ PortLedger(p) /\ PortAccepted(p) /\ PortOnce(p)

\* The invariant of what is written, device by device.
LEMMA WByPort ==
  /\ WInv <=> /\ Contiguous
              /\ \A c \in Conn : FramesJoined(up[c], Sent)
              /\ conn # 0 => OwnJoined(up[conn], Sent, b.tx_seq)
              /\ \A p \in Port : PortInv(p)
<1>1. ServerJoined <=> \A p \in Port : PortJoined(p)
  BY DEF ServerJoined, PortJoined
<1>2. Ledger <=> \A p \in Port : PortLedger(p)
  BY DEF Ledger, PortLedger
<1>3. Accepted <=> \A p \in Port : PortAccepted(p)
  BY DEF Accepted, PortAccepted
<1>4. WrittenOnce <=> \A p \in Port : PortOnce(p)
  BY DEF WrittenOnce, PortOnce
<1> QED
  BY <1>1, <1>2, <1>3, <1>4 DEF WInv, PortInv

\* A device that stays as it is.
LEMMA WStays ==
  ASSUME Shape, Owners, WInv, ServerKeeps, NEW p \in Port, Stays(p)
  PROVE  PortInv(p)'
<1> DEFINE c == exports[p].owner
           s == exports[p].stream
           k == exports[p].tx_seq
           v == wrote[p]
           d == exports[p].pending
<1>1. /\ exports'[p].owner = c /\ exports'[p].stream = s /\ exports'[p].tx_seq = k
      /\ exports'[p].pending = d /\ wrote'[p] = v
      /\ Sent' = Sent /\ b'.tx_seq = b.tx_seq /\ conn' = conn /\ may' = may
      /\ may /\ c # 0 /\ k # 0 => Unread(c)
  BY DEF Stays, SameUser, ServerKeeps, Sent
<1>2. /\ s \in Nat /\ k \in Nat /\ d \in Nat \cup {NoBlock} /\ (c # 0 => c \in Conn)
      /\ v \in Seq(Entry) /\ Len(v) \in Nat
      /\ \A i \in 1..Len(v) : v[i].block \in Nat
      /\ \A i \in 1..Len(v) : v[i].stream \in Nat
  BY DeviceFacts, EntryFacts
<1>3. Sent \in Nat /\ b.tx_seq \in Nat
  BY SentNumber DEF WInv
<1>4. LastBlock(p)' = LastBlock(p) /\ WroteNow(p)' = WroteNow(p)
  BY <1>1 DEF LastBlock, WroteNow
<1>5. PortInv(p)
  BY WByPort
<1>6. c # 0 => \A x \in Nat : Above(up[c], s, x) => Above(up'[c], s, x)
  BY <1>2, ShrinkFacts
<1>7. PortJoined(p)'
  <2> SUFFICES ASSUME may, c # 0, k # 0
               PROVE  /\ DeviceJoined(up'[c], LastBlock(p), k)
                      /\ c = conn => GoesOn(up'[c], 1, Sent, b.tx_seq, LastBlock(p), k)
    BY <1>1, <1>4 DEF PortJoined
  <2> DEFINE x == LastBlock(p)
  <2>1. x \in Nat
    BY LastBlockNumber DEF WInv
  <2>2. DeviceJoined(up[c], x, k) /\ (c = conn => GoesOn(up[c], 1, Sent, b.tx_seq, x, k))
    BY <1>5 DEF PortInv, PortJoined
  <2>3. up[c] \in Seq(ToServer) /\ up'[c] \in Seq(ToServer) /\ Unread(c)
    BY <1>1, <1>2 DEF Shape, ServerKeeps
  <2> HIDE DEF c, k, x
  <2>4. DeviceJoined(up'[c], x, k) /\ (c = conn => GoesOn(up'[c], 1, Sent, b.tx_seq, x, k))
    <3>1. CASE up'[c] = up[c]
      BY <2>2, <3>1
    <3>2. CASE Popped(up[c], up'[c]) /\ ~IsFrame(up[c][1])
      BY <1>2, <1>3, <2>1, <2>2, <2>3, <3>2, PoppedOther
    <3> QED
      BY <2>3, <3>1, <3>2 DEF Unread
  <2> QED
    BY <2>4 DEF x
<1>8. PortLedger(p)'
  <2> SUFFICES ASSUME NEW i \in 1..Len(v)
               PROVE  /\ v[i].conn \in Conn /\ v[i].stream <= issued'[v[i].conn]
                      /\ v[i].block <= Sent
                      /\ \A j \in 1..Len(v) : i < j => v[i].block < v[j].block
                      /\ d # NoBlock => v[i].block < d
                      /\ c # 0 => Above(up'[c], s, v[i].block)
    BY <1>1 DEF PortLedger
  <2>1. /\ v[i].conn \in Conn /\ v[i].stream <= issued[v[i].conn]
        /\ v[i].block <= Sent
        /\ \A j \in 1..Len(v) : i < j => v[i].block < v[j].block
        /\ d # NoBlock => v[i].block < d
        /\ c # 0 => Above(up[c], s, v[i].block)
    BY <1>5 DEF PortInv, PortLedger
  <2>2. v[i].stream <= issued'[v[i].conn]
    <3>1. issued[v[i].conn] \in Nat /\ issued'[v[i].conn] \in Nat /\ issued[v[i].conn] <= issued'[v[i].conn]
      BY <2>1, SerialAssumption, SMTT(30) DEF Shape, ServerKeeps
    <3> HIDE DEF v
    <3> QED
      BY <1>2, <2>1, <3>1
  <2> QED
    BY <1>2, <1>6, <2>1, <2>2
<1>9. PortAccepted(p)'
  BY <1>1, <1>2, <1>4, <1>5, <1>6 DEF PortInv, PortAccepted
<1>10. PortOnce(p)'
  BY <1>1, <1>5 DEF PortInv, PortOnce
<1> QED
  BY <1>7, <1>8, <1>9, <1>10 DEF PortInv

\* What was written stays in the ledger.
LEMMA LedgerKept ==
  ASSUME Shape, Owners, WInv, ServerKeeps, NEW p \in Port, NEW i \in 1..Len(wrote[p])
  PROVE  /\ wrote[p][i].conn \in Conn /\ wrote[p][i].stream <= issued'[wrote[p][i].conn]
         /\ wrote[p][i].block \in Nat /\ wrote[p][i].block <= Sent
         /\ \A j \in 1..Len(wrote[p]) : i < j => wrote[p][i].block < wrote[p][j].block
<1> DEFINE w == wrote[p][i]
<1>1. w.conn \in Conn /\ w.stream <= issued[w.conn] /\ w.block <= Sent
  BY DEF WInv, Ledger
<1>2. w.stream \in Nat /\ w.block \in Nat
  BY EntryFacts
<1>3. issued[w.conn] \in Nat /\ issued'[w.conn] \in Nat /\ issued[w.conn] <= issued'[w.conn]
  BY <1>1, SerialAssumption DEF Shape, ServerKeeps
<1>4. \A j \in 1..Len(wrote[p]) : i < j => wrote[p][i].block < wrote[p][j].block
  BY DEF WInv, Ledger
<1> HIDE DEF w
<1>5. w.stream <= issued'[w.conn]
  BY <1>1, <1>2, <1>3
<1> QED
  BY <1>1, <1>2, <1>4, <1>5 DEF w

\* A device that is given back.
LEMMA WLeaves ==
  ASSUME Shape, Owners, WInv, ServerKeeps, NEW p \in Port, Leaves(p)
  PROVE  PortInv(p)'
<1>1. /\ exports'[p].owner = 0 /\ exports'[p].pending = NoBlock /\ wrote'[p] = wrote[p]
      /\ Sent' = Sent
  BY DEF Leaves, ServerKeeps, Sent
<1>2. PortJoined(p)' /\ PortAccepted(p)'
  BY <1>1 DEF PortJoined, PortAccepted
<1>3. PortLedger(p)'
  BY <1>1, LedgerKept DEF PortLedger
<1>4. PortOnce(p)'
  BY <1>1 DEF WInv, WrittenOnce, PortOnce
<1> QED
  BY <1>2, <1>3, <1>4 DEF PortInv

\* A list with one more entry.
LEMMA OneMore ==
  ASSUME NEW v \in Seq(Entry), NEW e \in Entry, NEW w, w = Append(v, e)
  PROVE  /\ w \in Seq(Entry) /\ Len(v) \in Nat /\ Len(w) = Len(v) + 1 /\ w # <<>>
         /\ w[Len(w)] = e /\ \A i \in 1..Len(v) : w[i] = v[i]
  OBVIOUS

\* A device that writes what was pending.
LEMMA WWrites ==
  ASSUME Shape, Owners, WInv, ServerKeeps, NEW p \in Port, Writes(p)
  PROVE  PortInv(p)'
<1> DEFINE c == exports[p].owner
           s == exports[p].stream
           k == exports[p].tx_seq
           v == wrote[p]
           d == exports[p].pending
           e == [conn |-> c, stream |-> s, block |-> d]
           w == wrote'[p]
<1>1. /\ c # 0 /\ d # NoBlock /\ exports'[p].pending = NoBlock
      /\ w = Append(v, e)
      /\ \/ exports'[p].owner = 0
         \/ exports'[p].owner = c /\ exports'[p].stream = s /\ exports'[p].tx_seq = k /\ up'[c] = up[c]
  BY DEF Writes, SameUser
<1>2. Sent' = Sent /\ b'.tx_seq = b.tx_seq /\ conn' = conn /\ may' = may
  BY DEF ServerKeeps, Sent
<1>3. s \in Nat /\ k \in Nat /\ d \in Nat /\ c \in Conn /\ c \in Nat /\ v \in Seq(Entry) /\ k # 0
  BY <1>1, DeviceFacts DEF Owners
<1>4. e \in Entry /\ e.conn = c /\ e.stream = s /\ e.block = d
  BY <1>3 DEF Entry
<1> HIDE DEF e
<1>5. /\ w \in Seq(Entry) /\ Len(v) \in Nat /\ Len(w) = Len(v) + 1 /\ w # <<>>
      /\ w[Len(w)] = e /\ \A i \in 1..Len(v) : w[i] = v[i]
  BY <1>1, <1>3, <1>4, OneMore
<1>6. /\ d # 0 /\ d <= Sent /\ Above(up[c], s, d)
      /\ WroteNow(p) => d = v[Len(v)].block + 1
  BY <1>1 DEF WInv, Accepted
<1>7. \A i \in 1..Len(v) :
        /\ v[i].conn \in Conn /\ v[i].stream <= issued'[v[i].conn]
        /\ v[i].block \in Nat /\ v[i].block <= Sent
        /\ \A j \in 1..Len(v) : i < j => v[i].block < v[j].block
  BY LedgerKept
<1>8. \A i \in 1..Len(v) : v[i].block < d /\ Above(up[c], s, v[i].block)
  BY <1>1 DEF WInv, Ledger
<1>9. s <= issued'[c]
  <2>1. s = issued[c] /\ issued[c] <= issued'[c]
    BY <1>1, <1>3 DEF Owners, ServerKeeps
  <2> QED
    BY <2>1
<1>10. PortOnce(p)
  BY WByPort DEF PortInv
<1>11. may => DeviceJoined(up[c], d, k) /\ (c = conn => GoesOn(up[c], 1, Sent, b.tx_seq, d, k))
  BY <1>1, <1>3 DEF WInv, ServerJoined, LastBlock
<1>12. PortJoined(p)'
  <2> SUFFICES ASSUME may, exports'[p].owner # 0
               PROVE  /\ DeviceJoined(up'[c], w[Len(w)].block, k)
                      /\ c = conn => GoesOn(up'[c], 1, Sent, b.tx_seq, w[Len(w)].block, k)
    BY <1>1, <1>2 DEF PortJoined, LastBlock
  <2> HIDE DEF w
  <2> QED
    BY <1>1, <1>4, <1>5, <1>11
<1>13. PortLedger(p)'
  <2> SUFFICES ASSUME NEW i \in 1..Len(w)
               PROVE  /\ w[i].conn \in Conn /\ w[i].stream <= issued'[w[i].conn]
                      /\ w[i].block <= Sent
                      /\ \A j \in 1..Len(w) : i < j => w[i].block < w[j].block
                      /\ exports'[p].owner # 0 => Above(up[c], s, w[i].block)
    BY <1>1, <1>2 DEF PortLedger
  <2> HIDE DEF w, v, d, s, c
  <2>1. CASE i = Len(w)
    BY <1>3, <1>4, <1>5, <1>6, <1>9, <2>1
  <2>2. CASE i # Len(w)
    <3>1. i \in 1..Len(v) /\ w[i] = v[i]
      BY <1>5, <2>2
    <3>2. \A j \in 1..Len(w) : i < j => w[i].block < w[j].block
      <4> SUFFICES ASSUME NEW j \in 1..Len(w), i < j PROVE w[i].block < w[j].block
        OBVIOUS
      <4>1. CASE j = Len(w)
        BY <1>4, <1>5, <1>8, <3>1, <4>1
      <4>2. CASE j # Len(w)
        <5>1. j \in 1..Len(v) /\ w[j] = v[j]
          BY <1>5, <4>2
        <5> QED
          BY <1>7, <3>1, <5>1
      <4> QED
        BY <4>1, <4>2
    <3> QED
      BY <1>7, <1>8, <3>1, <3>2
  <2> QED
    BY <2>1, <2>2
<1>14. PortAccepted(p)'
  <2> SUFFICES ASSUME exports'[p].owner # 0
               PROVE  (k # 0 <=> WroteNow(p)') /\ (k = 0 => ~WroteNow(p)')
    BY <1>1 DEF PortAccepted
  <2>1. WroteNow(p)'
    <3> SUFFICES w # <<>> /\ SameAttachment(w[Len(w)], [conn |-> c, stream |-> s])
      BY <1>1 DEF WroteNow
    <3> QED
      BY <1>4, <1>5 DEF SameAttachment
  <2> QED
    BY <1>3, <2>1
<1>15. PortOnce(p)'
  <2> SUFFICES ASSUME NEW i \in 1 .. Len(w) - 1
               PROVE  IF SameAttachment(w[i], w[i + 1])
                        THEN w[i + 1].block = w[i].block + 1
                        ELSE w[i + 1].block > w[i].block
    BY DEF PortOnce
  <2>1. i \in 1..Len(v) /\ w[i] = v[i]
    BY <1>5
  <2>2. CASE i = Len(v)
    <3>1. w[i + 1] = e
      BY <1>5, <2>2
    <3>2. SameAttachment(v[i], e) => d = v[i].block + 1
      <4> SUFFICES ASSUME SameAttachment(v[i], e) PROVE WroteNow(p)
        BY <1>6, <2>2
      <4>1. v # <<>> /\ v[Len(v)].conn = c /\ v[Len(v)].stream = s
        BY <1>3, <1>4, <2>1, <2>2 DEF SameAttachment
      <4> QED
        BY <4>1 DEF WroteNow, SameAttachment
    <3>3. v[i].block \in Nat /\ v[i].block < d
      BY <1>7, <1>8, <2>1
    <3> HIDE DEF w, v, d
    <3> QED
      BY <1>3, <1>4, <2>1, <3>1, <3>2, <3>3
  <2>3. CASE i # Len(v)
    <3>1. i \in 1 .. Len(v) - 1 /\ i + 1 \in 1..Len(v) /\ w[i + 1] = v[i + 1]
      BY <1>5, <2>1, <2>3
    <3>2. IF SameAttachment(v[i], v[i + 1])
            THEN v[i + 1].block = v[i].block + 1
            ELSE v[i + 1].block > v[i].block
      BY <1>10, <3>1 DEF PortOnce
    <3> HIDE DEF w, v
    <3> QED
      BY <2>1, <3>1, <3>2
  <2> QED
    BY <2>2, <2>3
<1> QED
  BY <1>12, <1>13, <1>14, <1>15 DEF PortInv

\* A device that accepts a frame.
LEMMA WTakes ==
  ASSUME Shape, Owners, WInv, ServerKeeps, may, NEW p \in Port, NEW h, Takes(p, h)
  PROVE  PortInv(p)'
<1> DEFINE c == exports[p].owner
           s == exports[p].stream
           k == exports[p].tx_seq
           v == wrote[p]
           q == up[c]
           r == up'[c]
<1>1. /\ c # 0 /\ exports'[p].owner = c /\ exports'[p].stream = s /\ wrote'[p] = v
      /\ Popped(q, r) /\ h = q[1] /\ IsFrame(h) /\ h.stream = s
      /\ exports[p].pending = NoBlock /\ h.seq = k + 1
      /\ exports'[p].pending = h.block /\ exports'[p].tx_seq = h.seq
  BY DEF Takes, SameUser
<1>2. Sent' = Sent /\ b'.tx_seq = b.tx_seq /\ conn' = conn /\ may' = may
  BY DEF ServerKeeps, Sent
<1>3. s \in Nat /\ k \in Nat /\ c \in Conn /\ v \in Seq(Entry) /\ Sent \in Nat /\ b.tx_seq \in Nat
  BY <1>1, DeviceFacts, SentNumber DEF WInv
<1>4. q \in Seq(ToServer) /\ r \in Seq(ToServer) /\ 1 \in 1..Len(q)
  <2>1. q \in Seq(ToServer) /\ r \in Seq(ToServer)
    BY <1>3 DEF Shape, ServerKeeps
  <2>2. Len(q) # 0 /\ Len(q) \in Nat
    BY <1>1, <2>1 DEF Popped
  <2> QED
    BY <2>1, <2>2
<1>5. FramesJoined(q, Sent) /\ (c = conn => OwnJoined(q, Sent, b.tx_seq))
  BY <1>1, <1>3 DEF WInv
<1>6. /\ k # 0 => DeviceJoined(q, v[Len(v)].block, k)
      /\ k # 0 <=> WroteNow(p)
  BY <1>1 DEF WInv, ServerJoined, LastBlock, Accepted
<1>7. \A i \in 1..Len(v) :
        /\ v[i].conn \in Conn /\ v[i].stream <= issued'[v[i].conn]
        /\ v[i].block \in Nat /\ v[i].block <= Sent
        /\ \A j \in 1..Len(v) : i < j => v[i].block < v[j].block
  BY LedgerKept
<1>8. \A i \in 1..Len(v) : Above(q, s, v[i].block)
  BY <1>1 DEF WInv, Ledger
<1>9. WroteNow(p)' = WroteNow(p)
  BY <1>1 DEF WroteNow
<1>10. WroteNow(p) => v # <<>>
  BY DEF WroteNow
<1>11. PortOnce(p)'
  BY <1>1 DEF WInv, WrittenOnce, PortOnce
<1>12. \A x \in Nat : Above(q, s, x) => Above(r, s, x)
  BY <1>3, ShrinkFacts
<1> HIDE DEF c, s, k, v, q, r
<1>13. /\ h.block \in Nat /\ h.seq \in Nat /\ h.seq # 0 /\ h.block # 0 /\ h.block <= Sent
       /\ DeviceJoined(r, h.block, h.seq)
       /\ \A t \in Nat : OwnJoined(q, Sent, t) => GoesOn(r, 1, Sent, t, h.block, h.seq)
       /\ \A z \in Nat : Above(r, z, h.block)
  BY <1>1, <1>3, <1>4, <1>5, PoppedFrame
<1>14. h.block # NoBlock
  BY <1>13, SerialAssumption
<1>15. \A i \in 1..Len(v) : v[i].block < h.block
  BY <1>1, <1>4, <1>8 DEF Above
<1>16. PortJoined(p)'
  <2>1. LastBlock(p)' = h.block
    BY <1>1, <1>14 DEF LastBlock
  <2>2. DeviceJoined(r, h.block, h.seq) /\ (c = conn => GoesOn(r, 1, Sent, b.tx_seq, h.block, h.seq))
    BY <1>3, <1>5, <1>13
  <2> QED
    BY <1>1, <1>2, <2>1, <2>2 DEF PortJoined, r
<1>17. PortLedger(p)'
  <2> SUFFICES ASSUME NEW i \in 1..Len(v)
               PROVE  /\ v[i].conn \in Conn /\ v[i].stream <= issued'[v[i].conn]
                      /\ v[i].block <= Sent
                      /\ \A j \in 1..Len(v) : i < j => v[i].block < v[j].block
                      /\ v[i].block < h.block
                      /\ Above(r, s, v[i].block)
    BY <1>1, <1>2 DEF PortLedger, r
  <2> QED
    BY <1>7, <1>8, <1>12, <1>15
<1>18. WroteNow(p) => h.block = v[Len(v)].block + 1
  <2> SUFFICES ASSUME WroteNow(p) PROVE h.block = v[Len(v)].block + 1
    OBVIOUS
  <2>1. k # 0 /\ v # <<>>
    BY <1>6, <1>10
  <2>2. Len(v) \in 1..Len(v)
    BY <1>3, <2>1
  <2>3. v[Len(v)].block \in Nat
    BY <1>7, <2>2
  <2>4. h.block - h.seq = v[Len(v)].block - k \/ Restart(q, 1, 1)
    BY <1>1, <1>4, <1>6, <2>1 DEF DeviceJoined
  <2>5. ~Restart(q, 1, 1)
    <3> SUFFICES ASSUME Restart(q, 1, 1) PROVE FALSE
      OBVIOUS
    <3>1. q[1].seq = 1
      BY DEF Restart
    <3> QED
      BY <1>1, <1>3, <2>1, <3>1
  <2> QED
    BY <1>1, <1>3, <1>13, <2>3, <2>4, <2>5, SMTT(30)
<1>19. PortAccepted(p)'
  <2> SUFFICES /\ h.block # 0 /\ h.block <= Sent /\ Above(r, s, h.block)
               /\ WroteNow(p) => h.block = v[Len(v)].block + 1
               /\ h.block # NoBlock /\ h.seq # 0
    BY <1>1, <1>2, <1>9 DEF PortAccepted, r
  <2> QED
    BY <1>3, <1>13, <1>14, <1>18
<1> QED
  BY <1>11, <1>16, <1>17, <1>19 DEF PortInv

\* A device that connection c gets.
LEMMA WAttaches ==
  ASSUME Shape, Owners, FrameStreams, WInv, ServerKeeps, NEW p \in Port, NEW c, Attaches(p, c)
  PROVE  PortInv(p)'
<1> DEFINE v == wrote[p]
           s == issued[c] + 1
<1>1. /\ c \in Conn /\ exports'[p].owner = c /\ exports'[p].stream = s /\ exports'[p].tx_seq = 0
      /\ exports'[p].pending = NoBlock /\ wrote'[p] = v /\ Sent' = Sent
  BY DEF Attaches, ServerKeeps, Sent
<1>2. issued[c] \in Nat /\ UpTo(up[c], issued[c]) /\ v \in Seq(Entry) /\ up'[c] \in Seq(ToServer)
  BY <1>1, SerialAssumption DEF Shape, FrameStreams, ServerKeeps
<1>3. UpTo(up'[c], issued[c])
  BY <1>1, <1>2, ShrinkFacts
<1>4. \A x \in Nat : Above(up'[c], s, x)
  <2> SUFFICES ASSUME NEW x \in Nat, NEW i \in 1..Len(up'[c]),
                      IsFrame(up'[c][i]), up'[c][i].stream = s
               PROVE  FALSE
    BY DEF Above
  <2>1. up'[c][i].stream <= issued[c]
    BY <1>3 DEF UpTo
  <2> QED
    BY <1>2, <2>1
<1>5. \A i \in 1..Len(v) :
        /\ v[i].conn \in Conn /\ v[i].stream <= issued'[v[i].conn]
        /\ v[i].block \in Nat /\ v[i].block <= Sent
        /\ \A j \in 1..Len(v) : i < j => v[i].block < v[j].block
  BY LedgerKept
<1>6. PortJoined(p)'
  BY <1>1 DEF PortJoined
<1>7. PortLedger(p)'
  <2> SUFFICES ASSUME NEW i \in 1..Len(v)
               PROVE  /\ v[i].conn \in Conn /\ v[i].stream <= issued'[v[i].conn]
                      /\ v[i].block <= Sent
                      /\ \A j \in 1..Len(v) : i < j => v[i].block < v[j].block
                      /\ Above(up'[c], s, v[i].block)
    BY <1>1 DEF PortLedger
  <2> QED
    BY <1>4, <1>5
<1>8. ~WroteNow(p)'
  <2> SUFFICES ASSUME v # <<>>, v[Len(v)].conn = c, v[Len(v)].stream = s PROVE FALSE
    BY <1>1 DEF WroteNow, SameAttachment
  <2>1. Len(v) \in 1..Len(v)
    BY <1>2
  <2>2. v[Len(v)].stream <= issued[v[Len(v)].conn]
    BY <2>1 DEF WInv, Ledger
  <2> HIDE DEF v
  <2> QED
    BY <1>2, <2>2
<1>9. PortAccepted(p)'
  BY <1>1, <1>8 DEF PortAccepted
<1>10. PortOnce(p)'
  BY <1>1 DEF WInv, WrittenOnce, PortOnce
<1> QED
  BY <1>6, <1>7, <1>9, <1>10 DEF PortInv

\* Steps of the server.
PortStep(p) ==
  \/ Stays(p) \/ Leaves(p) \/ Writes(p)
  \/ may /\ \E h : Takes(p, h)
  \/ \E c : Attaches(p, c)

\* What is sent to the devices stays in order over every step of the server.
LEMMA WServer ==
  ASSUME Shape, Owners, FrameStreams, WInv, ServerKeeps, \A p \in Port : PortStep(p)
  PROVE  WInv'
<1>1. \A p \in Port : PortInv(p)'
  <2> SUFFICES ASSUME NEW p \in Port PROVE PortInv(p)'
    OBVIOUS
  <2>1. CASE Stays(p)
    BY <2>1, WStays
  <2>2. CASE Leaves(p)
    BY <2>2, WLeaves
  <2>3. CASE Writes(p)
    BY <2>3, WWrites
  <2>4. CASE may /\ \E h : Takes(p, h)
    BY <2>4, WTakes
  <2>5. CASE \E c : Attaches(p, c)
    BY <2>5, WAttaches
  <2> QED
    BY <2>1, <2>2, <2>3, <2>4, <2>5 DEF PortStep
<1>2. ServerJoined'
  BY <1>1 DEF PortInv, ServerJoined, PortJoined
<1>3. Ledger'
  BY <1>1 DEF PortInv, Ledger, PortLedger
<1>4. Accepted'
  BY <1>1 DEF PortInv, Accepted, PortAccepted
<1>5. WrittenOnce'
  BY <1>1 DEF PortInv, WrittenOnce, PortOnce
<1>6. Sent' = Sent /\ b' = b /\ typed' = typed /\ conn' = conn /\ Contiguous'
  BY DEF ServerKeeps, Sent, WInv, Contiguous
<1>7. Sent \in Nat /\ b.tx_seq \in Nat
  BY SentNumber DEF WInv
<1>8. \A c \in Conn : FramesJoined(up'[c], Sent)
  BY <1>7, ShrinkFacts DEF WInv
<1>9. conn # 0 => OwnJoined(up'[conn], Sent, b.tx_seq)
  <2>1. conn # 0 => conn \in Conn
    BY SerialAssumption DEF Shape, Conn
  <2> QED
    BY <1>7, <2>1, ShrinkFacts DEF WInv
<1> QED
  BY <1>2, <1>3, <1>4, <1>5, <1>6, <1>8, <1>9 DEF WInv

----------------------------------------------------------------------------
(* Identifiers only grow: the client *)

\* What is heard belongs to the identifier the endpoint goes by.
LEMMA HearsFacts ==
  ASSUME Shape, NEW m, m.stream \in Nat, m.block \in Nat, NEW g, g = Hears(m)
  PROVE  /\ g \in [conn : Nat, stream : Nat, blocks : Seq(Nat)]
         /\ g.conn = conn /\ g.stream = m.stream
         /\ heard.conn = conn /\ heard.stream = m.stream => g.blocks = Append(heard.blocks, m.block)
         /\ ~(heard.conn = conn /\ heard.stream = m.stream) => g.blocks = <<m.block>>
<1>1. heard \in [conn : Nat, stream : Nat, blocks : Seq(Nat)] /\ conn \in Nat
  BY SerialAssumption DEF Shape
<1>2. CASE heard.conn = conn /\ heard.stream = m.stream
  <2>1. g = [heard EXCEPT !.blocks = Append(@, m.block)]
    BY <1>2 DEF Hears
  <2>2. Append(heard.blocks, m.block) \in Seq(Nat)
    BY <1>1
  <2> QED
    BY <1>1, <1>2, <2>1, <2>2
<1>3. CASE ~(heard.conn = conn /\ heard.stream = m.stream)
  <2>1. g = [conn |-> conn, stream |-> m.stream, blocks |-> <<m.block>>]
    BY <1>3 DEF Hears
  <2> QED
    BY <1>1, <1>3, <2>1
<1> QED
  BY <1>2, <1>3

\* A message to the client.
LEMMA ToClientFacts ==
  ASSUME NEW m \in ToClient
  PROVE  /\ m.stream \in Nat
         /\ IsFrame(m) => m.seq \in Nat /\ m.block \in Nat
  BY DEF ToClient, IsFrame

\* What the endpoint goes by after a step of the client.
LEMMA ClientStream ==
  ASSUME Shape, Connections, StreamsGrow, NEW o, NEW s, ClientStep(o, s), b'.stream # 0
  PROVE  /\ conn # 0 /\ b'.stream = s /\ s \in Nat /\ Follows(s)
         /\ \/ s = b.stream
            \/ down # <<>> /\ down' = Tail(down) /\ IsOpened(Head(down)) /\ s = Head(down).stream
<1>1. b'.stream = s /\ s # 0
  BY DEF ClientStep, Acts
<1>2. \/ s = b.stream
      \/ down # <<>> /\ down' = Tail(down) /\ IsOpened(Head(down)) /\ s = Head(down).stream
  BY DEF ClientStep, Answered, Hearing
<1>3. CASE s = b.stream
  <2>1. conn # 0
    BY <1>1, <1>3 DEF Connections
  <2>2. Follows(s)
    BY <1>1, <1>3, <2>1 DEF StreamsGrow, BindingStream
  <2>3. s \in Nat
    BY <1>3 DEF Shape, Bind
  <2> QED
    BY <1>1, <1>3, <2>1, <2>2, <2>3
<1>4. CASE down # <<>> /\ down' = Tail(down) /\ IsOpened(Head(down)) /\ s = Head(down).stream
  <2>1. conn # 0
    BY <1>4 DEF Connections
  <2>2. Head(down) = down[1] /\ 1 \in 1..Len(down) /\ Head(down) \in ToClient
    <3>1. down \in Seq(ToClient)
      BY DEF Shape
    <3> QED
      BY <1>4, <3>1, TailPopped
  <2>3. Follows(s)
    BY <1>4, <2>1, <2>2 DEF StreamsGrow, OpenedStreams
  <2>4. s \in Nat
    BY <1>4, <2>2, ToClientFacts
  <2> QED
    BY <1>1, <1>4, <2>1, <2>3, <2>4
<1> QED
  BY <1>2, <1>3, <1>4

\* The messages of the connections after a step of the client.
LEMMA ClientUp ==
  ASSUME Shape, Connections, StreamsGrow, NEW o, NEW s, ClientStep(o, s)
  PROVE  /\ up' \in [Conn -> Seq(ToServer)]
         /\ \A c \in Conn : c # conn => up'[c] = up[c]
         /\ conn # 0 => conn \in Conn
         /\ \/ QuietTx(o) /\ \A c \in Conn : Quietly(up[c], up'[c])
            \/ /\ FrameTx(o) /\ conn # 0 /\ Follows(b'.stream) /\ b'.stream \in Nat \ {0}
               /\ Framed(up[conn], up'[conn], NextFrame(b'.stream))
<1>1. o \in Seq(ToServer) /\ Posted(o) /\ (conn = 0 => o = <<>>) /\ (QuietTx(o) \/ FrameTx(o))
  BY DEF ClientStep, Acts
<1>2. /\ up' \in [Conn -> Seq(ToServer)]
      /\ \A c \in Conn : c # conn => up'[c] = up[c]
      /\ conn # 0 => conn \in Conn
      /\ NoFrames(o) => \A c \in Conn : Quietly(up[c], up'[c])
      /\ \A m : conn # 0 /\ IsFrame(m) /\ EndsIn(o, m) => Framed(up[conn], up'[conn], m)
  BY <1>1, PostedLists
<1>3. CASE QuietTx(o)
  BY <1>2, <1>3 DEF QuietTx
<1>4. CASE FrameTx(o)
  <2>1. conn # 0 /\ b'.stream # 0 /\ EndsIn(o, NextFrame(b'.stream))
    BY <1>4 DEF FrameTx
  <2>2. IsFrame(NextFrame(b'.stream))
    BY DEF IsFrame, NextFrame
  <2>3. b'.stream \in Nat /\ Follows(b'.stream)
    BY <2>1, ClientStream
  <2> QED
    BY <1>2, <1>4, <2>1, <2>2, <2>3
<1> QED
  BY <1>1, <1>3, <1>4

\* Follows, of the next state.
FollowsNext(t) ==
  /\ t # 0 /\ t <= issued'[conn']
  /\ heard'.conn = conn' => heard'.stream <= t
  /\ UpTo(up'[conn'], t)
  /\ \A p \in Port : exports'[p].owner = conn' /\ exports'[p].tx_seq # 0 => exports'[p].stream = t

\* A step of the client leaves what is followed behind, unless it posts a frame
\* under a later identifier.
LEMMA FollowsClient ==
  ASSUME Shape, Connections, StreamsGrow, NEW o, NEW s, ClientStep(o, s), conn # 0,
         NEW t \in Nat, Follows(t), b.stream <= t, b'.stream <= t
  PROVE  FollowsNext(t)
<1>1. UNCHANGED <<exports, issued, conn>>
  BY DEF ClientStep
<1>2. heard'.conn = conn => heard'.stream <= t
  <2>1. CASE heard' = heard
    BY <2>1 DEF Follows
  <2>2. CASE down # <<>> /\ Hearing(Head(down), s)
    <3>1. Head(down) \in ToClient
      BY <2>2, TailPopped DEF Shape
    <3>2. Head(down).stream \in Nat /\ Head(down).block \in Nat
      BY <2>2, <3>1, ToClientFacts DEF Hearing
    <3>3. heard'.stream = Head(down).stream
      BY <2>2, <3>2, HearsFacts DEF Hearing
    <3> QED
      BY <2>2, <3>3 DEF Hearing
  <2> QED
    BY <2>1, <2>2 DEF ClientStep
<1>3. UpTo(up'[conn], t)
  <2>1. UpTo(up[conn], t) /\ conn \in Conn /\ up[conn] \in Seq(ToServer) /\ up'[conn] \in Seq(ToServer)
    BY ClientUp DEF Follows, Shape
  <2>2. CASE \A c \in Conn : Quietly(up[c], up'[c])
    BY <2>1, <2>2, QuietStreams
  <2>3. CASE /\ Follows(b'.stream) /\ b'.stream \in Nat \ {0}
             /\ Framed(up[conn], up'[conn], NextFrame(b'.stream))
    <3>1. NextFrame(b'.stream).stream = b'.stream
      BY DEF NextFrame
    <3>2. UpTo(up[conn], b'.stream)
      BY <2>3 DEF Follows
    <3>3. UpTo(up'[conn], b'.stream)
      BY <2>1, <2>3, <3>1, <3>2, FramedStreams
    <3> SUFFICES ASSUME NEW i \in 1..Len(up'[conn]), IsFrame(up'[conn][i])
                 PROVE  up'[conn][i].stream <= t
      BY DEF UpTo
    <3>4. up'[conn][i].stream <= b'.stream /\ up'[conn][i].stream \in Nat
      BY <2>1, <3>3, FrameType DEF UpTo
    <3> QED
      BY <2>3, <3>4
  <2> QED
    BY <2>2, <2>3, ClientUp
<1> QED
  BY <1>1, <1>2, <1>3 DEF Follows, FollowsNext, Begins

\* Identifiers only grow over every step of the client.
LEMMA SClient ==
  ASSUME Shape, Connections, Owners, StreamsGrow, NEW o, NEW s, ClientStep(o, s)
  PROVE  StreamsGrow'
<1>1. UNCHANGED <<exports, issued, conn, conns>>
  BY DEF ClientStep
<1>2. FrameStreams'
  <2> SUFFICES ASSUME NEW c \in Conn
               PROVE  /\ Rising(up'[c]) /\ UpTo(up'[c], issued[c])
                      /\ \A p \in Port : Begins(p, c) => AllOf(up'[c], exports[p].stream)
    BY <1>1 DEF FrameStreams, Begins
  <2>1. /\ Rising(up[c]) /\ UpTo(up[c], issued[c])
        /\ \A p \in Port : Begins(p, c) => AllOf(up[c], exports[p].stream)
    BY DEF StreamsGrow, FrameStreams
  <2>2. up[c] \in Seq(ToServer) /\ up'[c] \in Seq(ToServer) /\ issued[c] \in Nat
    BY ClientUp, SerialAssumption DEF Shape
  <2>3. \A p \in Port : exports[p].stream \in Nat
    BY DeviceFacts
  <2>4. CASE c # conn
    BY <2>1, <2>4, ClientUp
  <2>5. CASE c = conn /\ Quietly(up[c], up'[c])
    BY <2>1, <2>2, <2>3, <2>5, QuietStreams
  <2>6. CASE /\ c = conn /\ conn # 0 /\ Follows(b'.stream) /\ b'.stream \in Nat \ {0}
             /\ Framed(up[conn], up'[conn], NextFrame(b'.stream))
    <3> DEFINE z == b'.stream
               m == NextFrame(z)
    <3>1. m.stream = z
      BY DEF NextFrame
    <3>2. UpTo(up[c], z) /\ z <= issued[c] /\ \A p \in Port : Begins(p, c) => exports[p].stream = z
      BY <2>6 DEF Follows
    <3>3. z \in Nat \ {0} /\ Framed(up[c], up'[c], m)
      BY <2>6
    <3> HIDE DEF z, m
    <3>4. Rising(up'[c]) /\ UpTo(up'[c], z) /\ (AllOf(up[c], z) => AllOf(up'[c], z))
      BY <2>1, <2>2, <3>1, <3>2, <3>3, FramedStreams
    <3>5. UpTo(up'[c], issued[c])
      <4> SUFFICES ASSUME NEW i \in 1..Len(up'[c]), IsFrame(up'[c][i])
                   PROVE  up'[c][i].stream <= issued[c]
        BY DEF UpTo
      <4>1. up'[c][i].stream <= z /\ up'[c][i].stream \in Nat
        BY <2>2, <3>4, FrameType DEF UpTo
      <4> QED
        BY <2>2, <3>2, <3>3, <4>1
    <3> QED
      BY <2>1, <3>2, <3>4, <3>5
  <2> QED
    BY <2>4, <2>5, <2>6, ClientUp
<1>3. BindingStream'
  <2> SUFFICES ASSUME conn # 0, b'.stream # 0 PROVE FollowsNext(b'.stream)
    BY <1>1 DEF BindingStream, Follows, FollowsNext, Begins
  <2>1. b'.stream = s /\ s \in Nat /\ Follows(s)
    BY ClientStream
  <2>2. b.stream <= s
    <3>1. CASE s = b.stream
      BY <2>1, <3>1
    <3>2. CASE down # <<>> /\ IsOpened(Head(down)) /\ s = Head(down).stream
      <4>1. Head(down) = down[1] /\ 1 \in 1..Len(down)
        BY <3>2, TailPopped DEF Shape
      <4> QED
        BY <3>2, <4>1 DEF StreamsGrow, OpenedStreams
    <3> QED
      BY <3>1, <3>2, ClientStream
  <2>3. FollowsNext(s)
    BY <2>1, <2>2, FollowsClient
  <2> QED
    BY <2>1, <2>3
<1>4. OpenedStreams'
  <2> SUFFICES ASSUME conn # 0, NEW k \in 1..Len(down'), IsOpened(down'[k])
               PROVE  /\ FollowsNext(down'[k].stream) /\ b'.stream <= down'[k].stream
                      /\ \A i \in 1..Len(down') : IsOpened(down'[i]) /\ i < k =>
                           down'[i].stream <= down'[k].stream
    BY <1>1 DEF OpenedStreams, Follows, FollowsNext, Begins
  <2>1. \/ down' = down
        \/ down # <<>> /\ Popped(down, down')
    <3>1. down \in Seq(ToClient)
      BY DEF Shape
    <3> QED
      BY <3>1, TailPopped DEF ClientStep
  <2>2. PICK e \in {0, 1} : /\ \A i \in 1..Len(down') : i + e \in 1..Len(down) /\ down'[i] = down[i + e]
                            /\ e = 0 => down' = down
    <3>0. down \in Seq(ToClient) /\ down' \in Seq(ToClient)
      <4>1. down \in Seq(ToClient) /\ (down' = down \/ (down # <<>> /\ down' = Tail(down)))
        BY DEF Shape, ClientStep
      <4> QED
        BY <4>1, TailPopped
    <3>1. CASE down' = down
      <4>1. \A i \in 1..Len(down') : i + 0 \in 1..Len(down) /\ down'[i] = down[i + 0]
        BY <3>0, <3>1
      <4> QED
        BY <3>1, <4>1
    <3>2. CASE down # <<>> /\ Popped(down, down')
      <4>1. \A i \in 1..Len(down') : i + 1 \in 1..Len(down) /\ down'[i] = down[i + 1]
        BY <3>0, <3>2 DEF Popped
      <4> QED
        BY <4>1
    <3> QED
      BY <2>1, <3>1, <3>2
  <2> DEFINE t == down'[k].stream
  <2>3. k + e \in 1..Len(down) /\ down'[k] = down[k + e] /\ IsOpened(down[k + e])
    BY <2>2
  <2>4. /\ Follows(t) /\ b.stream <= t
        /\ \A i \in 1..Len(down) : IsOpened(down[i]) /\ i < k + e => down[i].stream <= t
    BY <2>3 DEF StreamsGrow, OpenedStreams
  <2>5. t \in Nat
    <3>1. down[k + e] \in ToClient
      BY <2>3 DEF Shape
    <3> QED
      BY <2>3, <3>1, ToClientFacts
  <2>6. b'.stream <= t
    <3>1. CASE b'.stream = 0
      BY <2>5, <3>1
    <3>2. CASE b'.stream # 0 /\ s = b.stream
      BY <2>4, <3>2, ClientStream
    <3>3. CASE b'.stream # 0 /\ down # <<>> /\ down' = Tail(down) /\ IsOpened(Head(down)) /\ s = Head(down).stream
      <4>0. down \in Seq(ToClient)
        BY DEF Shape
      <4>1. Head(down) = down[1] /\ 1 \in 1..Len(down) /\ down' # down
        <5>1. Len(Tail(down)) = Len(down) - 1 /\ Len(down) \in Nat
          BY <3>3, <4>0
        <5>2. down' # down
          <6> SUFFICES ASSUME down' = down PROVE FALSE
            OBVIOUS
          <6>1. Len(Tail(down)) = Len(down)
            BY <3>3
          <6> QED
            BY <5>1, <6>1
        <5> QED
          BY <3>3, <4>0, <5>2, TailPopped
      <4>2. e = 1 /\ 1 < k + e
        BY <2>2, <4>1
      <4>3. down[1].stream <= t
        BY <2>4, <3>3, <4>1, <4>2
      <4> QED
        BY <3>3, <4>1, <4>3, ClientStream
    <3> QED
      BY <3>1, <3>2, <3>3, ClientStream
  <2>7. FollowsNext(t)
    BY <2>4, <2>5, <2>6, FollowsClient
  <2>8. \A i \in 1..Len(down') : IsOpened(down'[i]) /\ i < k => down'[i].stream <= t
    BY <2>2, <2>4
  <2> QED
    BY <2>6, <2>7, <2>8
<1>5. HeardStream'
  <2>1. CASE heard' = heard
    BY <1>1, <2>1 DEF StreamsGrow, HeardStream
  <2>2. CASE down # <<>> /\ Hearing(Head(down), s)
    <3>1. Head(down) \in ToClient
      BY <2>2, TailPopped DEF Shape
    <3>2. Head(down).stream \in Nat /\ Head(down).block \in Nat
      BY <2>2, <3>1, ToClientFacts DEF Hearing
    <3>3. heard'.stream = b.stream /\ heard'.conn = conn
      BY <2>2, <3>2, HearsFacts DEF Hearing
    <3>4. conn # 0 => b.stream <= issued[conn]
      <4> SUFFICES ASSUME conn # 0 PROVE b.stream <= issued[conn]
        OBVIOUS
      <4>1. b.stream # 0 => Follows(b.stream)
        BY DEF StreamsGrow, BindingStream
      <4>2. issued[conn] \in Nat
        BY SerialAssumption DEF Shape, Conn
      <4> QED
        BY <4>1, <4>2 DEF Follows
    <3> QED
      BY <1>1, <3>3, <3>4 DEF HeardStream
  <2> QED
    BY <2>1, <2>2 DEF ClientStep
<1> QED
  BY <1>2, <1>3, <1>4, <1>5 DEF StreamsGrow

----------------------------------------------------------------------------
(* What the server does to a device, as far as what the device says goes *)

\* An acknowledgement is of what was heard.
RxStays(p) ==
  /\ SameUser(p) /\ exports'[p].rx_seq = exports[p].rx_seq
  /\ \/ exports'[p].rx_pending = exports[p].rx_pending
     \/ exports[p].owner = conn => ~Unheard(exports[p].stream)

RxSends(p) ==
  /\ exports[p].owner # 0 /\ SameUser(p) /\ exports'[p].rx_seq = exports[p].rx_seq + 1
  /\ ~exports[p].rx_pending /\ exports'[p].rx_pending

RxAttaches(p, c) == Attaches(p, c) /\ exports'[p].rx_seq = 0 /\ issued'[c] = issued[c] + 1

RxStep(p) ==
  \/ RxStays(p) \/ RxSends(p) \/ exports'[p].owner = 0
  \/ \E c : RxAttaches(p, c)

\* The server answers d, all of it to the client.
Answers(d) == d \in Seq(ToClient) /\ down' = down \o d /\ (conn = 0 => d = <<>>)

News(m, s) == m.cmd \in {"closed", "error"} /\ m.stream \in {0, s}

AnswersRight(d) ==
  /\ \A k \in 1..Len(d) : IsOpened(d[k]) =>
       \E p \in Port : exports'[p].owner = conn /\ exports'[p].stream = d[k].stream
  /\ \A k \in 1..Len(d) : IsFrame(d[k]) =>
       /\ k = Len(d) /\ d[k].block = d[k].seq /\ d[k].seq <= MaxRead
       /\ \E p \in Port : /\ RxSends(p) /\ exports[p].owner = conn
                          /\ d[k].stream = exports[p].stream /\ d[k].seq = exports[p].rx_seq + 1
  /\ conn # 0 => \A p \in Port : exports[p].owner = conn /\ exports'[p].owner # conn =>
       \E k \in 1..Len(d) : News(d[k], exports[p].stream)

ServerStep(d) ==
  /\ ServerKeeps /\ UNCHANGED <<conns, heard>>
  /\ Shape' /\ Owners' /\ Buffered'
  /\ \A p \in Port : PortStep(p) /\ RxStep(p)
  /\ Answers(d) /\ AnswersRight(d)

\* The answers come behind what is unread.
LEMMA AnswerLists ==
  ASSUME Shape, NEW d, Answers(d)
  PROVE  /\ down \in Seq(ToClient) /\ d \in Seq(ToClient) /\ down' \in Seq(ToClient)
         /\ Len(down) \in Nat /\ Len(d) \in Nat /\ Len(down') = Len(down) + Len(d)
         /\ \A i \in 1..Len(down) : i \in 1..Len(down') /\ down'[i] = down[i]
         /\ \A k \in 1..Len(d) : Len(down) + k \in 1..Len(down') /\ down'[Len(down) + k] = d[k]
         /\ \A i \in 1..Len(down') : i > Len(down) =>
              i - Len(down) \in 1..Len(d) /\ down'[i] = d[i - Len(down)]
<1>1. down \in Seq(ToClient) /\ d \in Seq(ToClient) /\ down' = down \o d
  BY DEF Shape, Answers
<1>2. Len(down) \in Nat /\ Len(d) \in Nat
  BY <1>1
<1>3. /\ Len(down \o d) = Len(down) + Len(d) /\ down \o d \in Seq(ToClient)
      /\ \A i \in 1..Len(down) : (down \o d)[i] = down[i]
      /\ \A i \in 1..(Len(down) + Len(d)) : i > Len(down) => (down \o d)[i] = d[i - Len(down)]
  BY <1>1
<1> DEFINE r == down \o d
<1>4. down' = r
  BY <1>1
<1> HIDE DEF r
<1>5. /\ Len(r) = Len(down) + Len(d) /\ r \in Seq(ToClient)
      /\ \A i \in 1..Len(down) : r[i] = down[i]
      /\ \A i \in 1..(Len(down) + Len(d)) : i > Len(down) => r[i] = d[i - Len(down)]
  BY <1>3 DEF r
<1>6. \A k \in 1..Len(d) : Len(down) + k \in 1..Len(r) /\ r[Len(down) + k] = d[k]
  <2> TAKE k \in 1..Len(d)
  <2>1. Len(down) + k \in 1..(Len(down) + Len(d)) /\ Len(down) + k > Len(down) /\ (Len(down) + k) - Len(down) = k
    BY <1>2
  <2> QED
    BY <1>5, <2>1
<1> QED
  BY <1>1, <1>2, <1>4, <1>5, <1>6

----------------------------------------------------------------------------
(* Identifiers only grow: the server *)

\* A step of the server leaves what is followed.
LEMMA FollowsServer ==
  ASSUME Shape, Owners, StreamsGrow, NEW d, ServerStep(d), conn # 0,
         NEW t \in Nat, Follows(t)
  PROVE  FollowsNext(t)
<1>1. /\ conn \in Conn /\ conn' = conn /\ heard' = heard /\ issued[conn] \in Nat
      /\ issued'[conn] \in Nat /\ issued[conn] <= issued'[conn]
      /\ up[conn] \in Seq(ToServer)
  BY SerialAssumption, SMTT(30) DEF ServerStep, ServerKeeps, Shape, Conn
<1>2. t # 0 /\ t <= issued[conn] /\ UpTo(up[conn], t) /\ (heard.conn = conn => heard.stream <= t)
  BY DEF Follows
<1>3. UpTo(up'[conn], t)
  BY <1>1, <1>2, ShrinkFacts DEF ServerStep
<1>4. \A p \in Port : exports'[p].owner = conn /\ exports'[p].tx_seq # 0 => exports'[p].stream = t
  <2> SUFFICES ASSUME NEW p \in Port, exports'[p].owner = conn, exports'[p].tx_seq # 0
               PROVE  exports'[p].stream = t
    OBVIOUS
  <2>1. CASE exports'[p].tx_seq = exports[p].tx_seq /\ SameUser(p)
    BY <2>1 DEF SameUser, Follows, Begins
  <2>2. CASE \E h : Takes(p, h)
    <3>1. PICK h : Takes(p, h)
      BY <2>2
    <3>2. /\ exports[p].owner = conn /\ exports'[p].stream = exports[p].stream
          /\ h = up[conn][1] /\ IsFrame(h) /\ h.stream = exports[p].stream /\ Len(up[conn]) # 0
      BY <3>1 DEF Takes, SameUser, Popped
    <3>3. 1 \in 1..Len(up[conn])
      BY <1>1, <3>2
    <3>4. h.stream <= t
      BY <1>2, <3>2, <3>3 DEF UpTo
    <3>5. exports[p].stream = issued[conn]
      BY <1>1, <3>2 DEF Owners
    <3> QED
      BY <1>1, <1>2, <3>2, <3>4, <3>5
  <2>3. exports'[p].owner # 0
    BY <1>1 DEF Conn
  <2> QED
    BY <2>1, <2>2, <2>3 DEF ServerStep, PortStep, Stays, Leaves, Writes, Attaches
<1>5. t <= issued'[conn]
  BY <1>1, <1>2
<1> QED
  BY <1>1, <1>2, <1>3, <1>4, <1>5 DEF FollowsNext

\* A bound that grows.
LEMMA UpToGrows ==
  ASSUME NEW q \in Seq(ToServer), NEW s \in Nat, NEW t \in Nat, s <= t, UpTo(q, s)
  PROVE  UpTo(q, t)
<1> SUFFICES ASSUME NEW i \in 1..Len(q), IsFrame(q[i]) PROVE q[i].stream <= t
  BY DEF UpTo
<1>1. q[i].stream \in Nat /\ q[i].stream <= s
  BY FrameType DEF UpTo
<1> QED
  BY <1>1

\* The newest identifier of the connection can be followed.
LEMMA FollowsNewest ==
  ASSUME Shape, Owners, StreamsGrow, NEW d, ServerStep(d), conn # 0,
         NEW p \in Port, exports'[p].owner = conn
  PROVE  exports'[p].stream = issued'[conn] /\ FollowsNext(issued'[conn])
<1>1. /\ conn \in Conn /\ conn' = conn /\ heard' = heard /\ issued[conn] \in Nat
      /\ issued'[conn] \in Nat /\ issued[conn] <= issued'[conn]
      /\ up[conn] \in Seq(ToServer) /\ up'[conn] \in Seq(ToServer)
  BY SerialAssumption DEF ServerStep, ServerKeeps, Shape, Conn
<1>2. \A q \in Port : exports'[q].owner = conn => exports'[q].stream = issued'[conn] /\ exports'[q].stream # 0
  BY <1>1, SerialAssumption DEF ServerStep, Owners, Conn
<1>3. UpTo(up'[conn], issued[conn])
  BY <1>1, ShrinkFacts DEF ServerStep, StreamsGrow, FrameStreams
<1>4. UpTo(up'[conn], issued'[conn])
  BY <1>1, <1>3, UpToGrows
<1>5. heard.conn = conn => heard.stream <= issued'[conn]
  <2>1. heard.conn = conn => heard.stream <= issued[conn] /\ heard.stream \in Nat
    BY <1>1, SerialAssumption DEF StreamsGrow, HeardStream, Shape, Conn
  <2> QED
    BY <1>1, <2>1
<1> QED
  BY <1>1, <1>2, <1>4, <1>5 DEF FollowsNext

\* Identifiers only grow over every step of the server.
LEMMA SServer ==
  ASSUME Shape, Connections, Owners, StreamsGrow, NEW d, ServerStep(d)
  PROVE  StreamsGrow'
<1>1. UNCHANGED <<b, conn, heard, conns>> /\ ServerKeeps
  BY DEF ServerStep, ServerKeeps
<1>2. FrameStreams'
  <2> SUFFICES ASSUME NEW c \in Conn
               PROVE  /\ Rising(up'[c]) /\ UpTo(up'[c], issued'[c])
                      /\ \A p \in Port : exports'[p].owner = c /\ exports'[p].tx_seq # 0 =>
                           AllOf(up'[c], exports'[p].stream)
    BY DEF FrameStreams, Begins
  <2>1. /\ Rising(up[c]) /\ UpTo(up[c], issued[c])
        /\ \A p \in Port : exports[p].owner = c /\ exports[p].tx_seq # 0 => AllOf(up[c], exports[p].stream)
    BY DEF StreamsGrow, FrameStreams, Begins
  <2>2. /\ up[c] \in Seq(ToServer) /\ up'[c] \in Seq(ToServer)
        /\ issued[c] \in Nat /\ issued'[c] \in Nat /\ issued[c] <= issued'[c]
    BY <1>1, SerialAssumption DEF Shape, ServerKeeps
  <2>3. Rising(up'[c]) /\ UpTo(up'[c], issued'[c])
    BY <1>1, <2>1, <2>2, ShrinkFacts, UpToGrows
  <2>4. \A p \in Port : exports'[p].owner = c /\ exports'[p].tx_seq # 0 => AllOf(up'[c], exports'[p].stream)
    <3> SUFFICES ASSUME NEW p \in Port, exports'[p].owner = c, exports'[p].tx_seq # 0
                 PROVE  AllOf(up'[c], exports'[p].stream)
      OBVIOUS
    <3>1. CASE exports'[p].tx_seq = exports[p].tx_seq /\ SameUser(p)
      <4>1. AllOf(up[c], exports[p].stream) /\ exports'[p].stream = exports[p].stream
        BY <2>1, <3>1 DEF SameUser
      <4>2. exports[p].stream \in Nat
        BY DeviceFacts
      <4> QED
        BY <1>1, <4>1, <4>2, ShrinkFacts
    <3>2. CASE \E h : Takes(p, h)
      <4>1. PICK h : Takes(p, h)
        BY <3>2
      <4> DEFINE s == exports[p].stream
      <4>2. /\ exports[p].owner = c /\ exports'[p].stream = s /\ Popped(up[c], up'[c])
            /\ h = up[c][1] /\ IsFrame(h) /\ h.stream = s /\ Len(up[c]) # 0
        BY <4>1 DEF Takes, SameUser, Popped
      <4>3. c # 0
        BY SerialAssumption DEF Conn
      <4>4. s = issued[c] /\ s \in Nat
        BY <2>2, <4>2, <4>3 DEF Owners
      <4> HIDE DEF s
      <4> SUFFICES ASSUME NEW i \in 1..Len(up'[c]), IsFrame(up'[c][i]) PROVE up'[c][i].stream = s
        BY <4>2 DEF AllOf
      <4>5. i + 1 \in 1..Len(up[c]) /\ up'[c][i] = up[c][i + 1] /\ 1 \in 1..Len(up[c]) /\ 1 < i + 1
        BY <2>2, <4>2, SMTT(30) DEF Popped
      <4>6. s <= up'[c][i].stream /\ up'[c][i].stream <= issued[c]
        BY <2>1, <4>2, <4>5 DEF Rising, UpTo
      <4>7. up'[c][i].stream \in Nat
        BY <2>2, FrameType
      <4> QED
        BY <4>4, <4>6, <4>7
    <3>3. exports'[p].owner # 0
      BY SerialAssumption DEF Conn
    <3> QED
      BY <3>1, <3>2, <3>3 DEF ServerStep, PortStep, Stays, Leaves, Writes, Attaches
  <2> QED
    BY <2>3, <2>4
<1>3. BindingStream'
  <2> SUFFICES ASSUME conn # 0, b.stream # 0 PROVE FollowsNext(b.stream)
    BY <1>1 DEF BindingStream, Follows, FollowsNext, Begins
  <2>1. Follows(b.stream) /\ b.stream \in Nat
    BY DEF StreamsGrow, BindingStream, Shape, Bind
  <2> QED
    BY <2>1, FollowsServer
<1>4. OpenedStreams'
  <2> SUFFICES ASSUME conn # 0, NEW k \in 1..Len(down'), IsOpened(down'[k])
               PROVE  /\ FollowsNext(down'[k].stream) /\ b.stream <= down'[k].stream
                      /\ \A i \in 1..Len(down') : IsOpened(down'[i]) /\ i < k =>
                           down'[i].stream <= down'[k].stream
    BY <1>1 DEF OpenedStreams, Follows, FollowsNext, Begins
  <2>1. /\ down \in Seq(ToClient) /\ d \in Seq(ToClient)
        /\ Len(down) \in Nat
        /\ \A i \in 1..Len(down) : i \in 1..Len(down') /\ down'[i] = down[i]
        /\ \A i \in 1..Len(down') : i > Len(down) =>
             i - Len(down) \in 1..Len(d) /\ down'[i] = d[i - Len(down)]
        /\ Len(down') \in Nat
    <3>1. Answers(d)
      BY DEF ServerStep
    <3>2. Len(down) \in Nat /\ Len(d) \in Nat /\ Len(down') = Len(down) + Len(d)
      BY <3>1, AnswerLists
    <3>3. Len(down') \in Nat
      BY <3>2
    <3> QED
      BY <3>1, <3>3, AnswerLists
  <2>2. issued[conn] \in Nat /\ issued'[conn] \in Nat /\ issued[conn] <= issued'[conn] /\ b.stream \in Nat
    <3>1. conn \in Conn
      BY SerialAssumption DEF Shape, Conn
    <3>2. b.stream \in Nat
      BY DEF Shape, Bind
    <3> QED
      BY <1>1, <3>1, <3>2, SerialAssumption DEF Shape, ServerKeeps
  <2>3. CASE k <= Len(down)
    <3>1. k \in 1..Len(down) /\ down'[k] = down[k] /\ down[k] \in ToClient
      BY <2>1, <2>3
    <3>2. /\ Follows(down[k].stream) /\ b.stream <= down[k].stream
          /\ \A i \in 1..Len(down) : IsOpened(down[i]) /\ i < k => down[i].stream <= down[k].stream
      BY <3>1 DEF StreamsGrow, OpenedStreams
    <3>3. FollowsNext(down[k].stream)
      BY <3>1, <3>2, ToClientFacts, FollowsServer
    <3>4. \A i \in 1..Len(down') : IsOpened(down'[i]) /\ i < k => down'[i].stream <= down[k].stream
      <4> SUFFICES ASSUME NEW i \in 1..Len(down'), IsOpened(down'[i]), i < k
                   PROVE  down'[i].stream <= down[k].stream
        OBVIOUS
      <4>1. i \in 1..Len(down)
        BY <3>1, <2>1
      <4> QED
        BY <2>1, <3>2, <4>1
    <3> QED
      BY <3>1, <3>2, <3>3, <3>4
  <2>4. CASE k > Len(down)
    <3>1. \A i \in 1..Len(down') : i > Len(down) /\ IsOpened(down'[i]) =>
            down'[i].stream = issued'[conn] /\ FollowsNext(issued'[conn])
      <4> SUFFICES ASSUME NEW i \in 1..Len(down'), i > Len(down), IsOpened(down'[i])
                   PROVE  down'[i].stream = issued'[conn] /\ FollowsNext(issued'[conn])
        OBVIOUS
      <4>1. i - Len(down) \in 1..Len(d) /\ down'[i] = d[i - Len(down)]
        BY <2>1
      <4>2. PICK p \in Port : exports'[p].owner = conn /\ exports'[p].stream = down'[i].stream
        BY <4>1 DEF ServerStep, AnswersRight
      <4> QED
        BY <4>2, FollowsNewest
    <3>2. down'[k].stream = issued'[conn] /\ FollowsNext(issued'[conn])
      BY <2>4, <3>1
    <3>3. b.stream <= issued'[conn]
      <4>1. b.stream # 0 => b.stream <= issued[conn]
        BY DEF StreamsGrow, BindingStream, Follows
      <4> QED
        BY <2>2, <4>1
    <3>4. \A i \in 1..Len(down') : IsOpened(down'[i]) /\ i < k => down'[i].stream <= issued'[conn]
      <4> SUFFICES ASSUME NEW i \in 1..Len(down'), IsOpened(down'[i]), i < k
                   PROVE  down'[i].stream <= issued'[conn]
        OBVIOUS
      <4>1. CASE i > Len(down)
        BY <2>2, <3>1, <4>1
      <4>2. CASE i <= Len(down)
        <5>1. i \in 1..Len(down) /\ down'[i] = down[i] /\ down[i] \in ToClient
          BY <2>1, <4>2
        <5>2. down[i].stream <= issued[conn] /\ down[i].stream \in Nat
          BY <5>1, ToClientFacts DEF StreamsGrow, OpenedStreams, Follows
        <5> QED
          BY <2>2, <5>1, <5>2
      <4> QED
        BY <2>1, <4>1, <4>2
    <3> QED
      BY <3>2, <3>3, <3>4
  <2> QED
    BY <2>1, <2>3, <2>4
<1>5. HeardStream'
  <2> SUFFICES ASSUME heard.conn # 0 PROVE heard.stream <= issued'[heard.conn]
    BY <1>1 DEF HeardStream
  <2>1. heard.conn \in Conn /\ heard.stream \in Nat
    BY SerialAssumption, SMTT(30) DEF Shape, Connections, Conn
  <2>2. issued[heard.conn] \in Nat /\ issued'[heard.conn] \in Nat /\ issued[heard.conn] <= issued'[heard.conn]
    BY <1>1, <2>1, SerialAssumption DEF Shape, ServerKeeps
  <2> QED
    BY <2>1, <2>2 DEF StreamsGrow, HeardStream
<1> QED
  BY <1>2, <1>3, <1>4, <1>5 DEF StreamsGrow

----------------------------------------------------------------------------
(* What is heard: the server *)

\* What the endpoint hears stays in order over every step of the server.
LEMMA HServer ==
  ASSUME Shape, Connections, Owners, StreamsGrow, HInv, NEW d, ServerStep(d)
  PROVE  HInv'
<1>1. UNCHANGED <<b, conn, heard, conns>> /\ ServerKeeps /\ Buffered' /\ Owners'
  BY DEF ServerStep, ServerKeeps
<1>2. Counts' /\ HeardInOrder'
  BY <1>1 DEF HInv, Counts, HeardInOrder
<1>3. conn # 0 => conn \in Conn
  BY SerialAssumption DEF Shape, Conn
<1>4. ReadsHeard'
  <2> SUFFICES ASSUME conn # 0, NEW i \in 1..Len(up'[conn]), up'[conn][i].cmd = "read"
               PROVE  up'[conn][i].stream # 0 /\ ~Unheard(up'[conn][i].stream)
    BY <1>1 DEF ReadsHeard, Unheard
  <2>1. up[conn] \in Seq(ToServer) /\ up'[conn] \in Seq(ToServer) /\ Shrinks(conn)
    BY <1>1, <1>3 DEF Shape, ServerKeeps
  <2>2. PICK j \in 1..Len(up[conn]) : up'[conn][i] = up[conn][j]
    <3>1. CASE up'[conn] = up[conn]
      BY <3>1
    <3>2. CASE Popped(up[conn], up'[conn])
      BY <3>2 DEF Popped
    <3>3. CASE up'[conn] = <<>>
      BY <3>3
    <3> QED
      BY <2>1, <3>1, <3>2, <3>3 DEF Shrinks
  <2> QED
    BY <2>2 DEF HInv, ReadsHeard
<1>5. \A p \in Port : exports[p].rx_seq \in Nat /\ exports'[p].rx_seq \in Nat
  BY DEF ServerStep, Shape, Device
<1>6. conn # 0 => issued[conn] \in Nat
  BY <1>3, SerialAssumption DEF Shape
<1>7. heard.conn \in Nat /\ heard.stream \in Nat /\ heard.blocks \in Seq(Nat) /\ Len(heard.blocks) \in Nat
  BY DEF Shape
<1>8. conn # 0 /\ heard.conn = conn => heard.stream <= issued[conn]
  BY DEF StreamsGrow, HeardStream
<1>9. FramesSent'
  <2> SUFFICES ASSUME conn # 0, NEW p \in Port, exports'[p].owner = conn
               PROVE  /\ Unheard(exports'[p].stream) /\ exports'[p].rx_seq # 0 =>
                           exports'[p].rx_seq = 1 /\ exports'[p].rx_pending
                      /\ heard.conn = conn /\ heard.stream = exports'[p].stream =>
                           Len(heard.blocks) <= exports'[p].rx_seq
    BY <1>1 DEF FramesSent, Unheard
  <2> DEFINE s == exports[p].stream
             k == exports[p].rx_seq
  <2>1. exports[p].owner = conn =>
          /\ Unheard(s) /\ k # 0 => k = 1 /\ exports[p].rx_pending
          /\ heard.conn = conn /\ heard.stream = s => Len(heard.blocks) <= k
    BY DEF HInv, FramesSent
  <2>2. CASE RxStays(p)
    BY <2>1, <2>2 DEF RxStays, SameUser
  <2>3. CASE RxSends(p)
    <3>1. /\ exports[p].owner = conn /\ exports'[p].stream = s /\ exports'[p].rx_seq = k + 1
          /\ ~exports[p].rx_pending /\ exports'[p].rx_pending
      BY <2>3 DEF RxSends, SameUser
    <3>2. Unheard(s) => k = 0
      BY <2>1, <3>1
    <3>3. k \in Nat
      BY <1>5
    <3> HIDE DEF s, k
    <3> QED
      BY <1>7, <2>1, <3>1, <3>2, <3>3
  <2>4. CASE \E c : RxAttaches(p, c)
    <3>1. exports'[p].stream = issued[conn] + 1 /\ exports'[p].rx_seq = 0
      BY <2>4 DEF RxAttaches, Attaches
    <3> QED
      BY <1>6, <1>7, <1>8, <3>1
  <2> QED
    BY <2>2, <2>3, <2>4 DEF ServerStep, RxStep
<1>10. FramesDown'
  <2> SUFFICES ASSUME NEW i \in 1..Len(down'), IsFrame(down'[i])
               PROVE  /\ down'[i].stream # 0 /\ down'[i].stream <= issued'[conn]
                      /\ down'[i].block = down'[i].seq /\ down'[i].seq # 0 /\ down'[i].seq <= MaxRead
                      /\ Unheard(down'[i].stream) => down'[i].seq = 1
                      /\ heard.conn = conn /\ heard.stream = down'[i].stream =>
                           Len(heard.blocks) < down'[i].seq
                      /\ \A k \in 1..Len(down') :
                           IsFrame(down'[k]) /\ i < k /\ down'[i].stream = down'[k].stream =>
                             down'[i].seq < down'[k].seq
                      /\ \A p \in Port : exports'[p].owner = conn /\ exports'[p].stream = down'[i].stream =>
                           down'[i].seq <= exports'[p].rx_seq
    BY <1>1 DEF FramesDown, Unheard
  <2>a. Answers(d) /\ AnswersRight(d)
    BY DEF ServerStep
  <2>1. /\ down \in Seq(ToClient) /\ d \in Seq(ToClient)
        /\ Len(down) \in Nat /\ Len(d) \in Nat /\ Len(down') = Len(down) + Len(d)
        /\ \A j \in 1..Len(down) : j \in 1..Len(down') /\ down'[j] = down[j]
        /\ \A j \in 1..Len(down') : j > Len(down) =>
             j - Len(down) \in 1..Len(d) /\ down'[j] = d[j - Len(down)]
    BY <2>a, AnswerLists
  <2>2. conn # 0
    <3> SUFFICES ASSUME conn = 0 PROVE FALSE
      OBVIOUS
    <3>1. down = <<>> /\ d = <<>>
      BY <2>a DEF Connections, Answers
    <3>2. Len(down) = 0 /\ Len(d) = 0
      BY <3>1
    <3> QED
      BY <2>1, <3>2
  <2>3. conn \in Conn /\ issued[conn] \in Nat /\ issued'[conn] \in Nat /\ issued[conn] <= issued'[conn]
    BY <1>1, <1>3, <2>2, SerialAssumption DEF Shape, ServerKeeps
  \* The frames of before, and the new one.
  <2>4. \A j \in 1..Len(down') : IsFrame(down'[j]) =>
          \/ j \in 1..Len(down) /\ down'[j] = down[j] /\ down[j].seq \in Nat /\ down[j].stream \in Nat
          \/ /\ j = Len(down') /\ j > Len(down)
             /\ down'[j].block = down'[j].seq /\ down'[j].seq <= MaxRead
             /\ \E p \in Port : /\ RxSends(p) /\ exports[p].owner = conn
                                /\ down'[j].stream = exports[p].stream
                                /\ down'[j].seq = exports[p].rx_seq + 1
    <3> SUFFICES ASSUME NEW j \in 1..Len(down'), IsFrame(down'[j])
                 PROVE  \/ j \in 1..Len(down) /\ down'[j] = down[j] /\ down[j].seq \in Nat /\ down[j].stream \in Nat
                        \/ /\ j = Len(down') /\ j > Len(down)
                           /\ down'[j].block = down'[j].seq /\ down'[j].seq <= MaxRead
                           /\ \E p \in Port : /\ RxSends(p) /\ exports[p].owner = conn
                                              /\ down'[j].stream = exports[p].stream
                                              /\ down'[j].seq = exports[p].rx_seq + 1
      OBVIOUS
    <3>1. CASE j <= Len(down)
      <4>1. j \in 1..Len(down) /\ down'[j] = down[j] /\ down[j] \in ToClient
        BY <2>1, <3>1
      <4> QED
        BY <4>1, ToClientFacts
    <3>2. CASE j > Len(down)
      <4>1. j - Len(down) \in 1..Len(d) /\ down'[j] = d[j - Len(down)]
        BY <2>1, <3>2
      <4>2. j - Len(down) = Len(d)
        BY <2>a, <4>1 DEF AnswersRight
      <4>3. j = Len(down')
        BY <2>1, <4>2
      <4> QED
        BY <2>a, <3>2, <4>1, <4>3 DEF AnswersRight
    <3> QED
      BY <2>1, <3>1, <3>2
  <2>5. CASE i \in 1..Len(down) /\ down'[i] = down[i] /\ down[i].seq \in Nat /\ down[i].stream \in Nat
    <3> DEFINE s == down[i].stream
               n == down[i].seq
    <3>1. /\ s # 0 /\ s <= issued[conn]
          /\ down[i].block = n /\ n # 0 /\ n <= MaxRead
          /\ Unheard(s) => n = 1
          /\ heard.conn = conn /\ heard.stream = s => Len(heard.blocks) < n
          /\ \A k \in 1..Len(down) : IsFrame(down[k]) /\ i < k /\ s = down[k].stream => n < down[k].seq
          /\ \A p \in Port : exports[p].owner = conn /\ exports[p].stream = s => n <= exports[p].rx_seq
      BY <2>5 DEF HInv, FramesDown
    <3>2. s <= issued'[conn]
      BY <2>3, <2>5, <3>1
    <3>3. \A k \in 1..Len(down') : IsFrame(down'[k]) /\ i < k /\ s = down'[k].stream => n < down'[k].seq
      <4> SUFFICES ASSUME NEW k \in 1..Len(down'), IsFrame(down'[k]), i < k, s = down'[k].stream
                   PROVE  n < down'[k].seq
        OBVIOUS
      <4>1. CASE k \in 1..Len(down) /\ down'[k] = down[k]
        BY <3>1, <4>1
      <4>2. CASE \E p \in Port : /\ RxSends(p) /\ exports[p].owner = conn
                                 /\ down'[k].stream = exports[p].stream
                                 /\ down'[k].seq = exports[p].rx_seq + 1
        <5>1. PICK p \in Port : /\ exports[p].owner = conn /\ s = exports[p].stream
                                /\ down'[k].seq = exports[p].rx_seq + 1
          BY <4>2
        <5>2. n <= exports[p].rx_seq /\ exports[p].rx_seq \in Nat
          BY <1>5, <3>1, <5>1
        <5> QED
          BY <2>5, <5>1, <5>2
      <4> QED
        BY <2>4, <4>1, <4>2
    <3>4. \A p \in Port : exports'[p].owner = conn /\ exports'[p].stream = s => n <= exports'[p].rx_seq
      <4> SUFFICES ASSUME NEW p \in Port, exports'[p].owner = conn, exports'[p].stream = s
                   PROVE  n <= exports'[p].rx_seq
        OBVIOUS
      <4>1. CASE RxStays(p)
        BY <3>1, <4>1 DEF RxStays, SameUser
      <4>2. CASE RxSends(p)
        <5>1. exports[p].owner = conn /\ exports[p].stream = s /\ exports'[p].rx_seq = exports[p].rx_seq + 1
          BY <4>2 DEF RxSends, SameUser
        <5>2. n <= exports[p].rx_seq /\ exports[p].rx_seq \in Nat
          BY <1>5, <3>1, <5>1
        <5> QED
          BY <2>5, <5>1, <5>2
      <4>3. CASE \E c : RxAttaches(p, c)
        <5>1. exports'[p].stream = issued[conn] + 1
          BY <4>3 DEF RxAttaches, Attaches
        <5> QED
          BY <2>3, <3>1, <5>1
      <4> QED
        BY <2>2, <4>1, <4>2, <4>3 DEF ServerStep, RxStep
    <3> QED
      BY <2>5, <3>1, <3>2, <3>3, <3>4
  <2>6. CASE /\ i = Len(down')
             /\ down'[i].block = down'[i].seq /\ down'[i].seq <= MaxRead
             /\ \E p \in Port : /\ RxSends(p) /\ exports[p].owner = conn
                                /\ down'[i].stream = exports[p].stream
                                /\ down'[i].seq = exports[p].rx_seq + 1
    <3>1. PICK p \in Port : /\ RxSends(p) /\ exports[p].owner = conn
                            /\ down'[i].stream = exports[p].stream
                            /\ down'[i].seq = exports[p].rx_seq + 1
      BY <2>6
    <3> DEFINE s == exports[p].stream
               n == exports[p].rx_seq
    <3>2. ~exports[p].rx_pending /\ exports'[p].owner = conn /\ exports'[p].stream = s /\ exports'[p].rx_seq = n + 1
      BY <3>1 DEF RxSends, SameUser
    <3>3. /\ Unheard(s) /\ n # 0 => n = 1 /\ exports[p].rx_pending
          /\ heard.conn = conn /\ heard.stream = s => Len(heard.blocks) <= n
      BY <2>2, <3>1 DEF HInv, FramesSent
    <3>4. s # 0 /\ s = issued[conn] /\ n \in Nat
      BY <1>5, <2>2, <3>1 DEF Owners
    <3>5. \A q \in Port : exports'[q].owner = conn => q = p
      BY <1>1, <2>2, <3>2 DEF Owners
    <3>6. \A k \in 1..Len(down') : ~(i < k)
      BY <2>1, <2>6
    <3> HIDE DEF s, n
    <3>7. down'[i].stream = s /\ down'[i].seq = n + 1
      BY <3>1 DEF s, n
    <3>8. \A q \in Port : exports'[q].owner = conn /\ exports'[q].stream = s => n + 1 <= exports'[q].rx_seq
      BY <3>2, <3>4, <3>5
    <3>9. s # 0 /\ s <= issued'[conn] /\ n + 1 # 0 /\ (Unheard(s) => n + 1 = 1)
      BY <2>3, <3>2, <3>3, <3>4
    <3>10. heard.conn = conn /\ heard.stream = s => Len(heard.blocks) < n + 1
      BY <1>7, <3>3, <3>4
    <3> QED
      BY <2>6, <3>6, <3>7, <3>8, <3>9, <3>10
  <2> QED
    BY <2>4, <2>5, <2>6
<1> QED
  BY <1>1, <1>2, <1>4, <1>9, <1>10 DEF HInv

----------------------------------------------------------------------------
(* What is attached: the server *)

AttachedNext(s) == \E p \in Port : exports'[p].owner = conn' /\ exports'[p].stream = s
ToldNext(s, i) == \E k \in 1..Len(down') : i < k /\ News(down'[k], s)

\* Both ends agree on what is attached after every step of the server.
LEMMA GServer ==
  ASSUME Shape, Connections, Owners, GInv, NEW d, ServerStep(d)
  PROVE  GInv'
<1>1. UNCHANGED <<b, conn>> /\ Answers(d) /\ AnswersRight(d)
  BY DEF ServerStep, ServerKeeps
<1> SUFFICES ASSUME conn # 0
             PROVE  /\ b.stream # 0 => AttachedNext(b.stream) \/ ToldNext(b.stream, 0)
                    /\ \A i \in 1..Len(down') : IsOpened(down'[i]) =>
                         AttachedNext(down'[i].stream) \/ ToldNext(down'[i].stream, i)
  BY <1>1 DEF GInv, Attached, Told, AttachedNext, ToldNext, News
<1>2. /\ down \in Seq(ToClient) /\ d \in Seq(ToClient)
      /\ Len(down) \in Nat /\ Len(d) \in Nat /\ Len(down') = Len(down) + Len(d)
      /\ \A j \in 1..Len(down) : j \in 1..Len(down') /\ down'[j] = down[j]
      /\ \A k \in 1..Len(d) : Len(down) + k \in 1..Len(down') /\ down'[Len(down) + k] = d[k]
      /\ \A j \in 1..Len(down') : j > Len(down) =>
           j - Len(down) \in 1..Len(d) /\ down'[j] = d[j - Len(down)]
  BY <1>1, AnswerLists
<1>3. ASSUME NEW s, NEW i \in 0..Len(down), Attached(s) \/ Told(s, i)
      PROVE  AttachedNext(s) \/ ToldNext(s, i)
  <2>1. CASE Told(s, i)
    BY <1>2, <2>1 DEF Told, ToldNext, News
  <2>2. CASE Attached(s)
    <3>1. PICK p \in Port : exports[p].owner = conn /\ exports[p].stream = s
      BY <2>2 DEF Attached
    <3>2. CASE exports'[p].owner = conn
      <4>1. exports'[p].stream = s
        BY <3>1, <3>2 DEF ServerStep, PortStep, Stays, Leaves, Writes, Takes, Attaches, SameUser
      <4> QED
        BY <1>1, <3>2, <4>1 DEF AttachedNext
    <3>3. CASE exports'[p].owner # conn
      <4>1. PICK k \in 1..Len(d) : News(d[k], s)
        BY <1>1, <3>1, <3>3 DEF AnswersRight
      <4>2. Len(down) + k \in 1..Len(down') /\ down'[Len(down) + k] = d[k] /\ i < Len(down) + k
        BY <1>2
      <4> QED
        BY <4>1, <4>2 DEF ToldNext
    <3> QED
      BY <3>2, <3>3
  <2> QED
    BY <1>3, <2>1, <2>2
<1>4. b.stream # 0 => AttachedNext(b.stream) \/ ToldNext(b.stream, 0)
  BY <1>2, <1>3 DEF GInv
<1>5. ASSUME NEW i \in 1..Len(down'), IsOpened(down'[i])
      PROVE  AttachedNext(down'[i].stream) \/ ToldNext(down'[i].stream, i)
  <2>1. CASE i <= Len(down)
    <3>1. i \in 1..Len(down) /\ i \in 0..Len(down) /\ down'[i] = down[i]
      BY <1>2, <2>1
    <3>2. Attached(down[i].stream) \/ Told(down[i].stream, i)
      BY <1>5, <3>1 DEF GInv
    <3>3. AttachedNext(down[i].stream) \/ ToldNext(down[i].stream, i)
      BY <1>3, <3>1, <3>2
    <3> QED
      BY <3>1, <3>3
  <2>2. CASE i > Len(down)
    BY <1>1, <1>2, <1>5, <2>2 DEF AnswersRight, AttachedNext
  <2> QED
    BY <1>2, <2>1, <2>2
<1> QED
  BY <1>4, <1>5

----------------------------------------------------------------------------
(* What is heard: the client *)

\* The client reads an answer at most.
LEMMA ClientDown ==
  ASSUME Shape, NEW o, NEW s, ClientStep(o, s)
  PROVE  /\ down \in Seq(ToClient) /\ down' \in Seq(ToClient) /\ Len(down) \in Nat /\ Len(down') \in Nat
         /\ \/ down' = down /\ heard' = heard /\ s = b.stream /\ RxKept
            \/ /\ Popped(down, down') /\ 1 \in 1..Len(down) /\ Head(down) = down[1]
               /\ down[1] \in ToClient
               /\ \/ Answered(down[1], s) /\ RxKept /\ heard' = heard
                  \/ Hearing(down[1], s)
<1>1. down \in Seq(ToClient) /\ Len(down) \in Nat
  BY DEF Shape
<1>2. CASE UNCHANGED <<down, heard>> /\ s = b.stream /\ RxKept
  BY <1>1, <1>2
<1>3. CASE down # <<>> /\ down' = Tail(down)
  <2>1. /\ Tail(down) \in Seq(ToClient) /\ Popped(down, Tail(down)) /\ Head(down) = down[1]
        /\ Head(down) \in ToClient /\ 1 \in 1..Len(down) /\ Len(Tail(down)) \in Nat
    BY <1>1, <1>3, TailPopped
  <2>2. \/ down' = down /\ heard' = heard /\ s = b.stream /\ RxKept
        \/ Answered(Head(down), s) /\ RxKept /\ heard' = heard
        \/ Hearing(Head(down), s)
    BY DEF ClientStep
  <2> QED
    BY <1>1, <1>3, <2>1, <2>2
<1> QED
  BY <1>2, <1>3 DEF ClientStep

UnheardNext(t) == heard'.conn # conn' \/ heard'.stream < t

\* The frame m is heard: as many blocks as its number says.
LEMMA HearsNext ==
  ASSUME Shape, Connections, StreamsGrow, HInv, conn # 0, b.stream # 0, conn' = conn,
         down # <<>>, NEW m \in ToClient, m = down[1], 1 \in 1..Len(down), NEW s, Hearing(m, s)
  PROVE  /\ heard' \in [conn : Nat, stream : Nat, blocks : Seq(Nat)]
         /\ heard'.conn = conn /\ heard'.stream = b.stream /\ m.stream = b.stream
         /\ m.seq \in Nat /\ Len(heard'.blocks) = m.seq /\ heard'.blocks # <<>>
         /\ m.seq <= MaxRead
         /\ \A i \in 1..Len(heard'.blocks) : heard'.blocks[i] = i
         /\ \A t \in Nat : UnheardNext(t) => Unheard(t)
<1> DEFINE z == b.stream
           l == heard.blocks
           g == heard'.blocks
<1>1. m.stream = z /\ z \in Nat /\ m.seq \in Nat /\ m.block \in Nat /\ IsFrame(m)
      /\ m.seq = b.rx_seq + 1 /\ b.rx_seq \in Nat /\ heard' = Hears(m)
  BY ToClientFacts DEF Hearing, Accepts, Shape, Bind
<1>2. /\ heard' \in [conn : Nat, stream : Nat, blocks : Seq(Nat)]
      /\ heard'.conn = conn /\ heard'.stream = z
      /\ heard.conn = conn /\ heard.stream = z => g = Append(l, m.block)
      /\ ~(heard.conn = conn /\ heard.stream = z) => g = <<m.block>>
  BY <1>1, HearsFacts, SMTT(30)
<1>3. l \in Seq(Nat) /\ Len(l) \in Nat /\ heard.stream \in Nat /\ heard.conn \in Nat
  BY DEF Shape
<1>4. /\ m.block = m.seq /\ m.seq # 0 /\ m.seq <= MaxRead
      /\ Unheard(z) => m.seq = 1
      /\ heard.conn = conn /\ heard.stream = z => Len(l) < m.seq
  BY <1>1 DEF HInv, FramesDown
<1>5. heard.conn = conn => heard.stream <= z
  BY DEF StreamsGrow, BindingStream, Follows
<1>6. \A t \in Nat : UnheardNext(t) => Unheard(t)
  BY <1>1, <1>2, <1>3, <1>5 DEF UnheardNext, Unheard
<1>7. CASE heard.conn = conn /\ heard.stream = z
  <2>1. b.rx_seq # 0 => b.rx_seq = Len(l)
    BY DEF HInv, Counts
  <2>2. Len(l) # 0
    <3>1. l # <<>>
      BY <1>7 DEF HInv, Counts
    <3> QED
      BY <1>3, <3>1
  <2>3. m.seq = Len(l) + 1
    BY <1>1, <1>3, <1>4, <1>7, <2>1, <2>2
  <2>4. \A i \in 1..Len(l) : l[i] = i
    BY <1>3 DEF HInv, HeardInOrder
  <2>5. g = Append(l, m.block)
    BY <1>2, <1>7
  <2>6. Len(g) = Len(l) + 1 /\ g[Len(l) + 1] = m.block /\ \A i \in 1..Len(l) : g[i] = l[i]
    BY <1>1, <1>3, <2>5
  <2>7. g # <<>>
    BY <1>2, <1>3, <2>6
  <2>8. \A i \in 1..Len(g) : g[i] = i
    <3> HIDE DEF g, l
    <3> SUFFICES ASSUME NEW i \in 1..Len(g) PROVE g[i] = i
      OBVIOUS
    <3>1. CASE i = Len(l) + 1
      BY <1>4, <2>3, <2>6, <3>1
    <3>2. CASE i # Len(l) + 1
      <4>1. i \in 1..Len(l)
        BY <1>3, <2>6, <3>2
      <4> QED
        BY <2>4, <2>6, <4>1
    <3> QED
      BY <3>1, <3>2
  <2> QED
    BY <1>1, <1>2, <1>4, <1>6, <2>3, <2>6, <2>7, <2>8
<1>8. CASE ~(heard.conn = conn /\ heard.stream = z)
  <2>1. Unheard(z)
    BY <1>1, <1>3, <1>5, <1>8 DEF Unheard
  <2>2. m.seq = 1 /\ m.block = 1 /\ g = <<1>>
    BY <1>2, <1>4, <1>8, <2>1
  <2>3. Len(g) = 1 /\ g # <<>> /\ \A i \in 1..Len(g) : g[i] = i
    BY <2>2
  <2> QED
    BY <1>1, <1>2, <1>4, <1>6, <2>2, <2>3
<1> QED
  BY <1>7, <1>8

\* What the endpoint hears stays in order over every step of the client.
LEMMA HClient ==
  ASSUME Shape, Connections, Owners, StreamsGrow, HInv, NEW o, NEW s, ClientStep(o, s)
  PROVE  HInv'
<1>1. UNCHANGED <<exports, issued, conn, conns>>
  BY DEF ClientStep
<1>2. Buffered'
  BY <1>1 DEF HInv, Buffered
<1>3. /\ down \in Seq(ToClient) /\ down' \in Seq(ToClient) /\ Len(down) \in Nat /\ Len(down') \in Nat
      /\ \/ down' = down /\ heard' = heard /\ RxKept
         \/ /\ Popped(down, down') /\ 1 \in 1..Len(down) /\ Head(down) = down[1]
            /\ down[1] \in ToClient
            /\ \/ RxKept /\ heard' = heard
               \/ Hearing(down[1], s)
  BY ClientDown
<1>4. PICK e \in {0, 1} :
        /\ \A i \in 1..Len(down') : i + e \in 1..Len(down) /\ down'[i] = down[i + e]
        /\ e = 0 => heard' = heard
  <2>1. CASE down' = down /\ heard' = heard
    <3>1. \A i \in 1..Len(down') : i + 0 \in 1..Len(down) /\ down'[i] = down[i + 0]
      BY <1>3, <2>1
    <3> QED
      BY <2>1, <3>1
  <2>2. CASE Popped(down, down')
    <3>1. \A i \in 1..Len(down') : i + 1 \in 1..Len(down) /\ down'[i] = down[i + 1]
      BY <1>3, <2>2 DEF Popped
    <3> QED
      BY <3>1
  <2> QED
    BY <1>3, <2>1, <2>2
<1>5. conn # 0 => conn \in Conn
  BY SerialAssumption DEF Shape, Conn
<1>7. CASE heard' = heard /\ RxKept
  <2>1. Counts' /\ HeardInOrder'
    <3>1. Counts'
      BY <1>1, <1>7, SerialAssumption DEF HInv, Counts, RxKept
    <3> QED
      BY <1>7, <3>1 DEF HInv, HeardInOrder
  <2>2. FramesSent'
    BY <1>1, <1>7 DEF HInv, FramesSent, Unheard
  <2>3. FramesDown'
    <3> SUFFICES ASSUME NEW i \in 1..Len(down'), IsFrame(down'[i])
                 PROVE  /\ down'[i].stream # 0 /\ down'[i].stream <= issued[conn]
                        /\ down'[i].block = down'[i].seq /\ down'[i].seq # 0 /\ down'[i].seq <= MaxRead
                        /\ Unheard(down'[i].stream) => down'[i].seq = 1
                        /\ heard.conn = conn /\ heard.stream = down'[i].stream =>
                             Len(heard.blocks) < down'[i].seq
                        /\ \A k \in 1..Len(down') :
                             IsFrame(down'[k]) /\ i < k /\ down'[i].stream = down'[k].stream =>
                               down'[i].seq < down'[k].seq
                        /\ \A p \in Port : exports[p].owner = conn /\ exports[p].stream = down'[i].stream =>
                             down'[i].seq <= exports[p].rx_seq
      BY <1>1, <1>7 DEF FramesDown, Unheard
    <3>1. i + e \in 1..Len(down) /\ down'[i] = down[i + e]
      BY <1>4
    <3>2. /\ down[i + e].stream # 0 /\ down[i + e].stream <= issued[conn]
          /\ down[i + e].block = down[i + e].seq /\ down[i + e].seq # 0 /\ down[i + e].seq <= MaxRead
          /\ Unheard(down[i + e].stream) => down[i + e].seq = 1
          /\ heard.conn = conn /\ heard.stream = down[i + e].stream => Len(heard.blocks) < down[i + e].seq
          /\ \A k \in 1..Len(down) :
               IsFrame(down[k]) /\ i + e < k /\ down[i + e].stream = down[k].stream =>
                 down[i + e].seq < down[k].seq
          /\ \A p \in Port : exports[p].owner = conn /\ exports[p].stream = down[i + e].stream =>
               down[i + e].seq <= exports[p].rx_seq
      BY <3>1 DEF HInv, FramesDown
    <3>3. \A k \in 1..Len(down') :
            IsFrame(down'[k]) /\ i < k /\ down'[i].stream = down'[k].stream => down'[i].seq < down'[k].seq
      <4> SUFFICES ASSUME NEW k \in 1..Len(down'), IsFrame(down'[k]), i < k, down'[i].stream = down'[k].stream
                   PROVE  down'[i].seq < down'[k].seq
        OBVIOUS
      <4>1. k + e \in 1..Len(down) /\ down'[k] = down[k + e] /\ i + e < k + e
        BY <1>3, <1>4
      <4> QED
        BY <3>1, <3>2, <4>1
    <3> QED
      BY <3>1, <3>2, <3>3
  <2>4. ReadsHeard'
    <3> SUFFICES ASSUME conn # 0, NEW i \in 1..Len(up'[conn]), up'[conn][i].cmd = "read"
                 PROVE  up'[conn][i].stream # 0 /\ ~Unheard(up'[conn][i].stream)
      BY <1>1, <1>7 DEF ReadsHeard, Unheard
    <3>1. /\ o \in Seq(ToServer) /\ Posted(o) /\ (conn = 0 => o = <<>>)
          /\ \A k \in 1..Len(o) : o[k].cmd = "read" => b.rx_pending /\ o[k].stream = b.stream
      BY DEF ClientStep, Acts
    <3>2. /\ Longer(up[conn], up'[conn])
          /\ \A j \in 1..Len(up'[conn]) : j > Len(up[conn]) => \E k \in 1..Len(o) : up'[conn][j] = o[k]
      BY <3>1, PostedLists
    <3>3. up[conn] \in Seq(ToServer) /\ up'[conn] \in Seq(ToServer)
      BY <1>5, ClientUp DEF Shape
    <3>4. CASE i > Len(up[conn])
      <4>1. b.rx_pending /\ up'[conn][i].stream = b.stream
        BY <3>1, <3>2, <3>4
      <4>2. b.stream # 0 /\ heard.conn = conn /\ heard.stream = b.stream /\ b.stream \in Nat
        BY <4>1 DEF HInv, Counts, Shape, Bind
      <4> QED
        BY <4>1, <4>2 DEF Unheard
    <3>5. CASE i <= Len(up[conn])
      <4>1. i \in 1..Len(up[conn])
        BY <3>3, <3>5
      <4>2. up'[conn][i] = up[conn][i]
        BY <3>2, <4>1 DEF Longer
      <4> QED
        BY <4>1, <4>2 DEF HInv, ReadsHeard
    <3> QED
      BY <3>3, <3>4, <3>5
  <2> QED
    BY <1>2, <2>1, <2>2, <2>3, <2>4 DEF HInv
<1>8. CASE Popped(down, down') /\ 1 \in 1..Len(down) /\ down[1] \in ToClient /\ Hearing(down[1], s)
  <2> DEFINE m == down[1]
             n == down[1].seq
             z == b.stream
  <2>1. down # <<>> /\ IsFrame(m) /\ m.stream = z /\ ~b.rx_pending
    BY <1>3, <1>8 DEF Hearing, Accepts
  <2>2. conn # 0 /\ z # 0
    BY <1>8, <2>1 DEF Connections, HInv, FramesDown
  <2>3. /\ heard'.conn = conn /\ heard'.stream = z
        /\ n \in Nat /\ Len(heard'.blocks) = n /\ heard'.blocks # <<>> /\ n <= MaxRead
        /\ \A i \in 1..Len(heard'.blocks) : heard'.blocks[i] = i
        /\ \A t \in Nat : UnheardNext(t) => Unheard(t)
        /\ heard' \in [conn : Nat, stream : Nat, blocks : Seq(Nat)]
    BY <1>1, <1>8, <2>1, <2>2, HearsNext
  <2>4. HeardInOrder'
    BY <2>3 DEF HeardInOrder
  <2>5. Counts'
    <3>1. b'.rx_seq = n /\ b'.stream = z /\ b'.rx_pending
      BY <1>8 DEF Hearing
    <3> QED
      BY <1>1, <2>2, <2>3, <3>1 DEF Counts
  <2>6. \A p \in Port : exports[p].stream \in Nat
    BY DeviceFacts
  <2>7. /\ \A p \in Port : exports[p].owner = conn /\ exports[p].stream = z => n <= exports[p].rx_seq
        /\ \A k \in 1..Len(down) : IsFrame(down[k]) /\ 1 < k /\ z = down[k].stream => n < down[k].seq
    BY <1>8, <2>1 DEF HInv, FramesDown
  <2>8. FramesSent'
    <3> SUFFICES ASSUME NEW p \in Port, exports[p].owner = conn
                 PROVE  /\ UnheardNext(exports[p].stream) /\ exports[p].rx_seq # 0 =>
                             exports[p].rx_seq = 1 /\ exports[p].rx_pending
                        /\ heard'.stream = exports[p].stream => Len(heard'.blocks) <= exports[p].rx_seq
      BY <1>1, <2>3 DEF FramesSent, Unheard, UnheardNext
    <3> QED
      BY <2>2, <2>3, <2>6, <2>7 DEF HInv, FramesSent
  <2>9. FramesDown'
    <3> SUFFICES ASSUME NEW i \in 1..Len(down'), IsFrame(down'[i])
                 PROVE  /\ down'[i].stream # 0 /\ down'[i].stream <= issued[conn]
                        /\ down'[i].block = down'[i].seq /\ down'[i].seq # 0 /\ down'[i].seq <= MaxRead
                        /\ UnheardNext(down'[i].stream) => down'[i].seq = 1
                        /\ heard'.stream = down'[i].stream => Len(heard'.blocks) < down'[i].seq
                        /\ \A k \in 1..Len(down') :
                             IsFrame(down'[k]) /\ i < k /\ down'[i].stream = down'[k].stream =>
                               down'[i].seq < down'[k].seq
                        /\ \A p \in Port : exports[p].owner = conn /\ exports[p].stream = down'[i].stream =>
                             down'[i].seq <= exports[p].rx_seq
      BY <1>1 DEF FramesDown, Unheard, UnheardNext
    <3>1. \A k \in 1..Len(down') : k + 1 \in 1..Len(down) /\ down'[k] = down[k + 1]
      BY <1>3, <1>8 DEF Popped
    <3>2. /\ down[i + 1].stream # 0 /\ down[i + 1].stream <= issued[conn]
          /\ down[i + 1].block = down[i + 1].seq /\ down[i + 1].seq # 0 /\ down[i + 1].seq <= MaxRead
          /\ Unheard(down[i + 1].stream) => down[i + 1].seq = 1
          /\ \A k \in 1..Len(down) :
               IsFrame(down[k]) /\ i + 1 < k /\ down[i + 1].stream = down[k].stream =>
                 down[i + 1].seq < down[k].seq
          /\ \A p \in Port : exports[p].owner = conn /\ exports[p].stream = down[i + 1].stream =>
               down[i + 1].seq <= exports[p].rx_seq
      BY <3>1 DEF HInv, FramesDown
    <3>3. \A k \in 1..Len(down') :
            IsFrame(down'[k]) /\ i < k /\ down'[i].stream = down'[k].stream => down'[i].seq < down'[k].seq
      <4> SUFFICES ASSUME NEW k \in 1..Len(down'), IsFrame(down'[k]), i < k, down'[i].stream = down'[k].stream
                   PROVE  down'[i].seq < down'[k].seq
        OBVIOUS
      <4>1. k + 1 \in 1..Len(down) /\ down'[k] = down[k + 1] /\ i + 1 < k + 1 /\ down'[i] = down[i + 1]
        BY <1>3, <3>1
      <4> QED
        BY <3>2, <4>1
    <3>4. heard'.stream = down'[i].stream => Len(heard'.blocks) < down'[i].seq
      <4>1. i + 1 \in 1..Len(down) /\ down'[i] = down[i + 1] /\ 1 < i + 1
        BY <1>3, <3>1
      <4> QED
        BY <2>3, <2>7, <4>1
    <3>5. down[i + 1].stream \in Nat
      <4>1. i + 1 \in 1..Len(down)
        BY <3>1
      <4>2. down[i + 1] \in ToClient
        BY <1>3, <4>1
      <4> QED
        BY <4>2, ToClientFacts
    <3> QED
      BY <2>3, <3>1, <3>2, <3>3, <3>4, <3>5
  <2>10. ReadsHeard'
    <3> SUFFICES ASSUME conn # 0, NEW i \in 1..Len(up'[conn]), up'[conn][i].cmd = "read"
                 PROVE  up'[conn][i].stream # 0 /\ ~UnheardNext(up'[conn][i].stream)
      BY <1>1 DEF ReadsHeard, Unheard, UnheardNext
    <3>1. /\ o \in Seq(ToServer) /\ Posted(o) /\ (conn = 0 => o = <<>>)
          /\ \A k \in 1..Len(o) : o[k].cmd # "read"
      BY <2>1 DEF ClientStep, Acts
    <3>2. /\ Longer(up[conn], up'[conn])
          /\ \A j \in 1..Len(up'[conn]) : j > Len(up[conn]) => \E k \in 1..Len(o) : up'[conn][j] = o[k]
      BY <3>1, PostedLists
    <3>3. up[conn] \in Seq(ToServer) /\ up'[conn] \in Seq(ToServer)
      BY <1>5, ClientUp DEF Shape
    <3>4. ~(i > Len(up[conn]))
      BY <3>1, <3>2
    <3>5. i \in 1..Len(up[conn])
      BY <3>3, <3>4
    <3>6. up'[conn][i] = up[conn][i]
      BY <3>2, <3>5 DEF Longer
    <3>7. up[conn][i].stream \in Nat
      <4>1. up[conn][i] \in ToServer
        BY <3>3, <3>5
      <4> QED
        BY <3>6, <4>1 DEF ToServer
    <3> QED
      BY <2>3, <3>5, <3>6, <3>7 DEF HInv, ReadsHeard
  <2> QED
    BY <1>2, <2>4, <2>5, <2>8, <2>9, <2>10 DEF HInv
<1> QED
  BY <1>3, <1>7, <1>8

----------------------------------------------------------------------------
(* What is attached: the client *)

\* Both ends agree on what is attached after every step of the client.
LEMMA GClient ==
  ASSUME Shape, Connections, GInv, NEW o, NEW s, ClientStep(o, s)
  PROVE  GInv'
<1>1. UNCHANGED <<exports, conn>> /\ b'.stream \in {0, s}
  BY DEF ClientStep, Acts
<1> SUFFICES ASSUME conn # 0
             PROVE  /\ b'.stream # 0 => Attached(b'.stream) \/ ToldNext(b'.stream, 0)
                    /\ \A i \in 1..Len(down') : IsOpened(down'[i]) =>
                         Attached(down'[i].stream) \/ ToldNext(down'[i].stream, i)
  BY <1>1 DEF GInv, Attached, Told, ToldNext, News
<1>2. /\ Len(down) \in Nat /\ Len(down') \in Nat
      /\ \/ down' = down /\ s = b.stream
         \/ /\ Popped(down, down') /\ 1 \in 1..Len(down)
            /\ Answered(down[1], s) \/ Hearing(down[1], s)
  BY ClientDown
<1>3. CASE down' = down /\ s = b.stream
  BY <1>1, <1>3 DEF GInv, Told, ToldNext, News
<1>4. CASE Popped(down, down') /\ 1 \in 1..Len(down) /\ (Answered(down[1], s) \/ Hearing(down[1], s))
  <2>1. ASSUME NEW t, NEW i \in Nat, Told(t, i + 1)
        PROVE  ToldNext(t, i)
    <3>1. PICK k \in 1..Len(down) : i + 1 < k /\ News(down[k], t)
      BY <2>1 DEF Told, News
    <3>2. k - 1 \in 1..Len(down') /\ i < k - 1 /\ (k - 1) + 1 = k
      BY <1>2, <1>4, <3>1 DEF Popped
    <3>3. down'[k - 1] = down[k]
      BY <1>4, <3>2 DEF Popped
    <3> QED
      BY <3>1, <3>2, <3>3 DEF ToldNext
  <2>2. ASSUME NEW t, Told(t, 0), ~News(down[1], t)
        PROVE  ToldNext(t, 0)
    <3>1. Told(t, 0 + 1)
      <4>1. PICK k \in 1..Len(down) : News(down[k], t)
        BY <2>2 DEF Told, News
      <4>2. 0 + 1 < k
        BY <1>2, <2>2, <4>1
      <4> QED
        BY <4>1, <4>2 DEF Told, News
    <3> QED
      BY <2>1, <3>1
  <2>3. ASSUME b'.stream # 0 PROVE Attached(b'.stream) \/ ToldNext(b'.stream, 0)
    <3>1. CASE s = b.stream /\ ~News(down[1], b.stream)
      <4>1. b'.stream = b.stream
        BY <1>1, <2>3, <3>1
      <4>2. Attached(b.stream) \/ Told(b.stream, 0)
        BY <2>3, <4>1 DEF GInv
      <4>3. Told(b.stream, 0) => ToldNext(b.stream, 0)
        BY <2>2, <3>1
      <4> QED
        BY <4>1, <4>2, <4>3
    <3>2. CASE IsOpened(down[1]) /\ s = down[1].stream
      <4>1. b'.stream = s
        BY <1>1, <2>3
      <4>2. Attached(s) \/ Told(s, 0 + 1)
        BY <1>4, <3>2 DEF GInv
      <4>3. Told(s, 0 + 1) => ToldNext(s, 0)
        BY <2>1
      <4> QED
        BY <4>1, <4>2, <4>3
    <3>3. CASE Hearing(down[1], s)
      <4>1. s = b.stream /\ ~News(down[1], b.stream)
        BY <3>3 DEF Hearing, IsFrame, News
      <4> QED
        BY <3>1, <4>1
    <3> QED
      BY <1>4, <2>3, <3>1, <3>2, <3>3 DEF Answered, News
  <2>4. ASSUME NEW i \in 1..Len(down'), IsOpened(down'[i])
        PROVE  Attached(down'[i].stream) \/ ToldNext(down'[i].stream, i)
    <3>1. i + 1 \in 1..Len(down) /\ down'[i] = down[i + 1]
      BY <1>4 DEF Popped
    <3>2. Attached(down[i + 1].stream) \/ Told(down[i + 1].stream, i + 1)
      BY <2>4, <3>1 DEF GInv
    <3>3. Told(down[i + 1].stream, i + 1) => ToldNext(down[i + 1].stream, i)
      BY <2>1
    <3> QED
      BY <3>1, <3>2, <3>3
  <2> QED
    BY <2>3, <2>4
<1> QED
  BY <1>2, <1>3, <1>4

\* The shape of the state after a step of the client.
LEMMA ShapeClient ==
  ASSUME Shape, Connections, Owners, StreamsGrow, HInv, NEW o, NEW s, ClientStep(o, s)
  PROVE  Shape' /\ Connections' /\ Owners'
<1>1. /\ UNCHANGED <<exports, issued, sessions, may, wrote, conn, conns>>
      /\ active' \in BOOLEAN /\ typed' \in 0..MaxTyped /\ upsets' \in 0..MaxUpsets
      /\ b' \in Bind /\ Sane(b')
  BY DEF ClientStep, Acts
<1>2. up' \in [Conn -> Seq(ToServer)] /\ \A c \in Conn : c # conn => up'[c] = up[c]
  BY ClientUp
<1>3. down' \in Seq(ToClient)
  BY ClientDown
<1>4. heard' \in [conn : Nat, stream : Nat, blocks : Seq(Nat)] /\ (heard' = heard \/ heard'.conn = conn)
  <2>1. CASE heard' = heard
    BY <2>1 DEF Shape
  <2>2. CASE down[1] \in ToClient /\ Hearing(down[1], s)
    <3>1. down[1].stream \in Nat /\ down[1].block \in Nat
      BY <2>2, ToClientFacts DEF Hearing
    <3> QED
      BY <2>2, <3>1, HearsFacts DEF Hearing
  <2> QED
    BY <2>1, <2>2, ClientDown
<1>5. Shape'
  BY <1>1, <1>2, <1>3, <1>4 DEF Shape
<1>6. Owners'
  BY <1>1 DEF Owners
<1>7. Connections'
  <2>1. conn \in {0, conns} /\ heard'.conn <= conns
    BY <1>4, SerialAssumption DEF Connections, Shape
  <2>2. \A c \in Conn : c > conns => up'[c] = <<>>
    <3> SUFFICES ASSUME NEW c \in Conn, c > conns PROVE up'[c] = <<>>
      OBVIOUS
    <3>1. c # conn
      BY <2>1, SerialAssumption DEF Shape, Conn
    <3> QED
      BY <1>2, <3>1 DEF Connections
  <2>3. conn = 0 => b'.stream = 0
    BY ClientStream
  <2>4. conn = 0 => down' = <<>>
    BY DEF Connections, ClientStep
  <2>5. b'.opening => b'.stream = 0
    BY <1>1 DEF Sane
  <2> QED
    BY <1>1, <2>1, <2>2, <2>3, <2>4, <2>5 DEF Connections
<1> QED
  BY <1>5, <1>6, <1>7

----------------------------------------------------------------------------
(* The invariant is kept: the client and its connection *)

\* Blocks sent after a step.
LEMMA SentNext ==
  ASSUME typed' \in Nat, b' \in Bind, Contiguous'
  PROVE  Sent' \in Nat
<1>1. b'.host_pending \in Seq(Nat)
  BY DEF Bind
<1>2. Len(b'.host_pending) \in Nat
  BY <1>1
<1>3. Len(b'.host_pending) <= typed'
  BY DEF Contiguous, Queue
<1> QED
  BY <1>2, <1>3 DEF Sent

\* A step of the client keeps the invariant.
LEMMA ClientKeeps ==
  ASSUME SerialInv, NEW o, NEW s, ClientStep(o, s)
  PROVE  SerialInv'
<1>1. Shape /\ Connections /\ Owners /\ StreamsGrow /\ WInv /\ HInv /\ GInv
  BY DEF SerialInv
<1>2. Shape' /\ Connections' /\ Owners'
  BY <1>1, ShapeClient
<1>3. StreamsGrow'
  BY <1>1, SClient
<1>4. HInv' /\ GInv'
  BY <1>1, HClient, GClient
<1>5. /\ Contiguous' /\ UNCHANGED <<exports, wrote, issued, may, conn>> /\ b' \in Bind
      /\ typed' \in Nat /\ conn \in 0..MaxConns
  BY <1>1, SerialAssumption DEF ClientStep, Acts, Shape
<1>6. Sent' \in Nat
  BY <1>5, SentNext
<1>7. /\ up' \in [Conn -> Seq(ToServer)]
      /\ \A c \in Conn : c # conn => up'[c] = up[c]
      /\ conn # 0 => conn \in Conn
  BY <1>1, ClientUp
<1>8. CASE QuietTx(o) /\ \A c \in Conn : Quietly(up[c], up'[c])
  <2>1. Sent <= Sent' /\ (b'.tx_seq = 0 \/ (b'.tx_seq = b.tx_seq /\ Sent' = Sent /\ conn' = conn))
    BY <1>8 DEF QuietTx
  <2>2. WInv'
    BY <1>1, <1>5, <1>6, <1>7, <1>8, <2>1, WQuiet
  <2> QED
    BY <1>2, <1>3, <1>4, <2>2 DEF SerialInv
<1>9. CASE /\ FrameTx(o) /\ conn # 0 /\ Follows(b'.stream) /\ b'.stream \in Nat \ {0}
           /\ Framed(up[conn], up'[conn], NextFrame(b'.stream))
  <2>1. Sent' = Sent + 1 /\ b'.tx_seq = b.tx_seq + 1
    BY <1>9 DEF FrameTx
  <2>2. UpTo(up[conn], b'.stream) /\ conn \in Conn
    BY <1>7, <1>9 DEF Follows
  <2>3. WInv'
    BY <1>1, <1>5, <1>7, <1>9, <2>1, <2>2, WFrame
  <2> QED
    BY <1>2, <1>3, <1>4, <2>3 DEF SerialInv
<1> QED
  BY <1>1, <1>8, <1>9, ClientUp

\* A list of one message that is not a frame.
LEMMA OneOpen ==
  ASSUME NEW p \in Port, NEW q, q = <<[cmd |-> "open", port |-> p]>>
  PROVE  /\ q \in Seq(ToServer) /\ Len(q) = 1 /\ q[1].cmd = "open"
         /\ Quietly(<<>>, q) /\ Rising(q)
         /\ \A s : UpTo(q, s)
<1> DEFINE m == [cmd |-> "open", port |-> p]
<1>1. m \in ToServer /\ m.cmd = "open" /\ ~IsFrame(m)
  BY DEF ToServer, IsFrame
<1> HIDE DEF m
<1>2. q = <<m>>
  BY DEF m
<1>3. q \in Seq(ToServer) /\ Len(q) = 1 /\ q[1] = m
  BY <1>1, <1>2
<1>4. \A i \in 1..Len(q) : ~IsFrame(q[i])
  BY <1>1, <1>3
<1> QED
  BY <1>1, <1>3, <1>4 DEF Quietly, Longer, Rising, UpTo

\* host_connection(authorized): a new connection starts with no stream.
LEMMA AuthorizedKeeps ==
  ASSUME SerialInv, Authorized
  PROVE  SerialInv'
<1>1. Shape /\ Connections /\ Owners /\ StreamsGrow /\ WInv /\ HInv /\ GInv
  BY DEF SerialInv
<1> DEFINE c == conns + 1
           u == Unattached(b.host_port)
           f == [u EXCEPT !.host_pending = b.host_pending]
           g == [f EXCEPT !.opening = TRUE]
           q == <<[cmd |-> "open", port |-> b.host_port]>>
<1>2. /\ conn = 0 /\ conns < MaxConns /\ conns' = c /\ conn' = c /\ sessions' = sessions \cup {c}
      /\ \/ b' = g /\ up' = [up EXCEPT ![c] = q]
         \/ b' = f /\ up' = up
      /\ UNCHANGED <<exports, issued, may, wrote, active, down, typed, upsets, heard>>
  BY DEF Authorized
<1>3. b.host_port \in Port /\ b.host_pending \in Seq(Nat) /\ b \in Bind
  BY <1>1 DEF Shape, Bind
<1>4. /\ u \in Bind /\ u.stream = 0 /\ u.tx_seq = 0 /\ u.rx_seq = 0 /\ ~u.opening
      /\ u.host_pending = <<>> /\ ~u.rx_pending
  BY <1>3, UnattachedFields
<1> HIDE DEF u
<1>5. /\ f \in Bind /\ f.stream = 0 /\ f.tx_seq = 0 /\ f.rx_seq = 0
      /\ f.host_pending = b.host_pending /\ ~f.rx_pending
  BY <1>3, <1>4 DEF Bind
<1> HIDE DEF f
<1>6. /\ g \in Bind /\ g.stream = 0 /\ g.tx_seq = 0 /\ g.rx_seq = 0
      /\ g.host_pending = b.host_pending /\ ~g.rx_pending
  BY <1>5 DEF Bind
<1> HIDE DEF g
<1>7. /\ b' \in Bind /\ b'.stream = 0 /\ b'.tx_seq = 0 /\ b'.rx_seq = 0
      /\ b'.host_pending = b.host_pending /\ ~b'.rx_pending
  BY <1>2, <1>5, <1>6
<1>8. /\ q \in Seq(ToServer) /\ Len(q) = 1 /\ q[1].cmd = "open"
      /\ Quietly(<<>>, q) /\ Rising(q)
      /\ \A s : UpTo(q, s)
  BY <1>3, OneOpen
<1> HIDE DEF q
<1>9. conns \in 0..MaxConns /\ c \in Conn /\ c > conns /\ c \in Nat /\ c <= MaxConns /\ c # 0
  BY <1>1, <1>2, SerialAssumption DEF Shape, Conn
<1>10. up[c] = <<>> /\ down = <<>> /\ heard.conn <= conns
  BY <1>1, <1>2, <1>9 DEF Connections
<1>11. /\ up' \in [Conn -> Seq(ToServer)] /\ \A k \in Conn : k # c => up'[k] = up[k]
       /\ up'[c] \in {<<>>, q}
  BY <1>1, <1>2, <1>8, <1>9, <1>10 DEF Shape
<1>12. \A p \in Port : exports[p].owner <= conns /\ exports[p].owner \in Nat
  BY <1>1, DeviceFacts DEF Owners
<1>13. heard.conn \in Nat
  BY <1>1 DEF Shape
<1>14. Shape'
  <2>1. sessions' \subseteq Conn /\ conn' \in 0..MaxConns /\ conns' \in 0..MaxConns
    BY <1>1, <1>2, <1>9, SerialAssumption DEF Shape
  <2> QED
    BY <1>1, <1>2, <1>7, <1>11, <2>1 DEF Shape
<1>15. Connections'
  <2>1. heard.conn <= c
    BY <1>9, <1>10, <1>13, SerialAssumption
  <2>2. \A k \in Conn : k > c => up'[k] = <<>>
    <3> SUFFICES ASSUME NEW k \in Conn, k > c PROVE up'[k] = <<>>
      OBVIOUS
    <3>1. k # c /\ k > conns
      BY <1>9, SerialAssumption DEF Conn
    <3> QED
      BY <1>1, <1>11, <3>1 DEF Connections
  <2> HIDE DEF c
  <2> QED
    BY <1>2, <1>7, <1>9, <2>1, <2>2 DEF Connections
<1>16. Owners'
  <2>1. \A p \in Port : exports[p].owner <= c
    <3> TAKE p \in Port
    <3>1. exports[p].owner <= conns /\ exports[p].owner \in Nat /\ conns \in Nat
      BY <1>9, <1>12
    <3> QED
      BY <3>1
  <2> HIDE DEF c
  <2> QED
    BY <1>1, <1>2, <2>1 DEF Owners
<1>17. \A p \in Port : exports[p].owner # c
  <2> TAKE p \in Port
  <2>1. exports[p].owner <= conns /\ exports[p].owner \in Nat /\ conns \in Nat
    BY <1>9, <1>12
  <2> QED
    BY <2>1
<1>18. heard.conn # c
  BY <1>9, <1>10, <1>13, SerialAssumption
<1>a. /\ conn' = c /\ conn = 0 /\ UNCHANGED <<exports, issued, may, wrote, typed, down, heard>>
  BY <1>2
<1> HIDE DEF c
<1>19. StreamsGrow'
  <2>1. FrameStreams'
    <3> SUFFICES ASSUME NEW k \in Conn
                 PROVE  /\ Rising(up'[k]) /\ UpTo(up'[k], issued[k])
                        /\ \A p \in Port : Begins(p, k) => AllOf(up'[k], exports[p].stream)
      BY <1>a DEF FrameStreams, Begins
    <3>1. CASE k # c
      BY <1>1, <1>11, <3>1 DEF StreamsGrow, FrameStreams
    <3>2. CASE k = c
      BY <1>8, <1>11, <1>17, <3>2, NoMessages DEF Begins
    <3> QED
      BY <3>1, <3>2
  <2>2. BindingStream' /\ OpenedStreams' /\ HeardStream'
    <3>1. BindingStream'
      BY <1>7 DEF BindingStream
    <3>2. OpenedStreams'
      <4>1. Len(down') = 0
        BY <1>10, <1>a
      <4> QED
        BY <4>1 DEF OpenedStreams
    <3>3. HeardStream'
      BY <1>1, <1>a DEF StreamsGrow, HeardStream
    <3> QED
      BY <3>1, <3>2, <3>3
  <2> QED
    BY <2>1, <2>2 DEF StreamsGrow
<1>20. WInv'
  <2>1. Sent \in Nat /\ Sent' = Sent /\ typed \in Nat
    BY <1>1, <1>7, <1>a, SentNumber DEF Sent, WInv
  <2>2. Contiguous'
    <3>1. Queue(b.host_pending, typed)
      BY <1>1 DEF WInv, Contiguous
    <3>2. Queue(b'.host_pending, typed') /\ b'.tx_seq <= Sent'
      BY <1>7, <1>a, <2>1, <3>1
    <3> QED
      BY <3>2 DEF Contiguous
  <2>3. \A k \in Conn : Quietly(up[k], up'[k])
    <3> SUFFICES ASSUME NEW k \in Conn PROVE Quietly(up[k], up'[k])
      OBVIOUS
    <3>0. up[k] \in Seq(ToServer)
      BY <1>1 DEF Shape
    <3>1. Quietly(up[k], up[k])
      BY <3>0 DEF Quietly, Longer
    <3> QED
      BY <1>8, <1>10, <1>11, <3>1
  <2>4. conn' \in 0..MaxConns
    BY <1>14 DEF Shape
  <2>5. UNCHANGED <<exports, wrote, issued>> /\ may' = may /\ Sent <= Sent' /\ Sent' \in Nat
    BY <1>a, <2>1
  <2> QED
    BY <1>1, <1>7, <1>11, <2>2, <2>3, <2>4, <2>5, WQuiet
<1>21. HInv'
  <2>0. Len(down') = 0
    BY <1>10, <1>a
  <2>1. Buffered'
    BY <1>1, <1>a DEF HInv, Buffered
  <2>2. FramesDown'
    BY <2>0 DEF FramesDown
  <2>3. FramesSent'
    BY <1>17, <1>a DEF FramesSent
  <2>4. ReadsHeard'
    <3>1. \A i \in 1..Len(up'[c]) : up'[c][i].cmd # "read"
      BY <1>8, <1>11
    <3> QED
      BY <1>a, <3>1 DEF ReadsHeard
  <2>5. Counts'
    BY <1>1, <1>7, <1>a, SerialAssumption DEF HInv, Counts
  <2>6. HeardInOrder'
    BY <1>1, <1>a DEF HInv, HeardInOrder
  <2> QED
    BY <2>1, <2>2, <2>3, <2>4, <2>5, <2>6 DEF HInv
<1>22. GInv'
  <2>1. Len(down') = 0
    BY <1>10, <1>a
  <2> QED
    BY <1>7, <2>1 DEF GInv
<1> QED
  BY <1>14, <1>15, <1>16, <1>19, <1>20, <1>21, <1>22 DEF SerialInv

\* host_connection(disconnected): what was queued is given up.
LEMMA DisconnectedKeeps ==
  ASSUME SerialInv, Disconnected
  PROVE  SerialInv'
<1>1. Shape /\ Connections /\ Owners /\ StreamsGrow /\ WInv /\ HInv /\ GInv
  BY DEF SerialInv
<1>2. /\ conn' = 0 /\ b' = Unattached(b.host_port) /\ down' = <<>> /\ Upset
      /\ UNCHANGED <<exports, issued, sessions, may, wrote, active, conns, up, typed, heard>>
  BY DEF Disconnected, Server
<1>3. b.host_port \in Port
  BY <1>1 DEF Shape, Bind
<1>4. /\ b' \in Bind /\ b'.stream = 0 /\ b'.tx_seq = 0 /\ b'.rx_seq = 0 /\ ~b'.opening
      /\ b'.host_pending = <<>> /\ ~b'.rx_pending
  BY <1>2, <1>3, UnattachedFields
<1>5. upsets' \in 0..MaxUpsets
  BY <1>1, <1>2, SerialAssumption DEF Upset, Shape
<1>6. Len(down') = 0 /\ down' \in Seq(ToClient)
  BY <1>2
<1>7. Shape'
  BY <1>1, <1>2, <1>4, <1>5, <1>6, SerialAssumption DEF Shape
<1>8. Connections'
  BY <1>1, <1>2, <1>4 DEF Connections
<1>9. Owners'
  BY <1>1, <1>2 DEF Owners
<1>10. StreamsGrow'
  <2>1. FrameStreams'
    BY <1>1, <1>2 DEF StreamsGrow, FrameStreams, Begins
  <2>2. BindingStream' /\ OpenedStreams'
    BY <1>2 DEF BindingStream, OpenedStreams
  <2>3. HeardStream'
    BY <1>1, <1>2 DEF StreamsGrow, HeardStream
  <2> QED
    BY <2>1, <2>2, <2>3 DEF StreamsGrow
<1>11. WInv'
  <2>1. Sent \in Nat /\ typed \in Nat /\ Sent <= typed
    BY <1>1, SentNumber DEF WInv
  <2>2. Sent' = typed
    <3>1. Len(b'.host_pending) = 0
      BY <1>4
    <3> QED
      BY <1>2, <2>1, <3>1 DEF Sent
  <2>3. Contiguous'
    <3>1. Queue(b'.host_pending, typed')
      BY <1>2, <1>4, <2>1 DEF Queue
    <3>2. b'.tx_seq <= Sent'
      BY <1>4, <2>1, <2>2
    <3> QED
      BY <3>1, <3>2 DEF Contiguous
  <2>4. \A k \in Conn : Quietly(up[k], up'[k])
    <3> SUFFICES ASSUME NEW k \in Conn PROVE Quietly(up[k], up[k])
      BY <1>2
    <3>1. up[k] \in Seq(ToServer)
      BY <1>1 DEF Shape
    <3> QED
      BY <3>1 DEF Quietly, Longer
  <2>5. /\ up' \in [Conn -> Seq(ToServer)] /\ conn' \in 0..MaxConns /\ UNCHANGED <<exports, wrote, issued>>
        /\ may' = may /\ Sent <= Sent' /\ Sent' \in Nat
    BY <1>2, <1>7, <2>1, <2>2 DEF Shape
  <2> QED
    BY <1>1, <1>4, <2>3, <2>4, <2>5, WQuiet
<1>12. HInv'
  <2>1. Buffered'
    BY <1>1, <1>2 DEF HInv, Buffered
  <2>2. FramesDown'
    BY <1>6 DEF FramesDown
  <2>3. FramesSent' /\ ReadsHeard'
    BY <1>2 DEF FramesSent, ReadsHeard
  <2>4. Counts'
    BY <1>1, <1>2, <1>4, SerialAssumption DEF HInv, Counts
  <2>5. HeardInOrder'
    BY <1>1, <1>2 DEF HInv, HeardInOrder
  <2> QED
    BY <2>1, <2>2, <2>3, <2>4, <2>5 DEF HInv
<1>13. GInv'
  BY <1>2 DEF GInv
<1> QED
  BY <1>7, <1>8, <1>9, <1>10, <1>11, <1>12, <1>13 DEF SerialInv

\* A change of privilege keeps the invariant.
LEMMA PrivilegeKeeps ==
  ASSUME SerialInv, Privilege
  PROVE  SerialInv'
<1>1. Shape /\ Connections /\ Owners /\ StreamsGrow /\ WInv /\ HInv /\ GInv
  BY DEF SerialInv
<1>2. /\ Upset /\ may' = ~may /\ (may \/ \A p \in Port : exports[p].owner = 0)
      /\ UNCHANGED <<exports, issued, sessions, b, active, conn, conns, up, down, typed, wrote, heard>>
  BY DEF Privilege
<1>3. upsets' \in 0..MaxUpsets
  BY <1>1, <1>2, SerialAssumption DEF Upset, Shape
<1>4. Shape'
  BY <1>1, <1>2, <1>3 DEF Shape
<1>5. Connections' /\ Owners'
  BY <1>1, <1>2 DEF Connections, Owners
<1>6. StreamsGrow'
  BY <1>1, <1>2 DEF StreamsGrow, FrameStreams, BindingStream, OpenedStreams, HeardStream, Follows, Begins
<1>7. WInv'
  <2>1. Sent \in Nat /\ Sent' = Sent
    BY <1>1, <1>2, SentNumber DEF WInv, Sent
  <2>2. Contiguous'
    BY <1>1, <1>2 DEF WInv, Contiguous, Sent
  <2>3. \A k \in Conn : Quietly(up[k], up'[k])
    <3> SUFFICES ASSUME NEW k \in Conn PROVE Quietly(up[k], up[k])
      BY <1>2
    <3>1. up[k] \in Seq(ToServer)
      BY <1>1 DEF Shape
    <3> QED
      BY <3>1 DEF Quietly, Longer
  <2>4. /\ up' \in [Conn -> Seq(ToServer)] /\ conn' \in 0..MaxConns /\ UNCHANGED <<exports, wrote, issued>>
        /\ may' => may \/ \A p \in Port : exports[p].owner = 0
        /\ Sent <= Sent' /\ Sent' \in Nat /\ b'.tx_seq = b.tx_seq /\ conn' = conn
    BY <1>2, <1>4, <2>1 DEF Shape
  <2> QED
    BY <1>1, <2>1, <2>2, <2>3, <2>4, WQuiet
<1>8. HInv'
  BY <1>1, <1>2 DEF HInv, Buffered, FramesDown, FramesSent, ReadsHeard, Counts, HeardInOrder, Unheard
<1>9. GInv'
  BY <1>1, <1>2 DEF GInv, Attached, Told
<1> QED
  BY <1>4, <1>5, <1>6, <1>7, <1>8, <1>9 DEF SerialInv

----------------------------------------------------------------------------
(* The invariant is kept: the server *)

\* A step of the server keeps the invariant.
LEMMA StepKeeps ==
  ASSUME SerialInv, NEW d, ServerStep(d)
  PROVE  SerialInv'
<1>1. Shape /\ Connections /\ Owners /\ StreamsGrow /\ WInv /\ HInv /\ GInv
  BY DEF SerialInv
<1>2. Shape' /\ Owners' /\ ServerKeeps /\ \A p \in Port : PortStep(p)
  BY DEF ServerStep
<1>3. StreamsGrow' /\ HInv' /\ GInv'
  BY <1>1, SServer, HServer, GServer
<1>4. WInv'
  BY <1>1, <1>2, WServer DEF StreamsGrow
<1>5. Connections'
  <2>1. UNCHANGED <<b, conn, conns, heard>> /\ Answers(d)
    BY DEF ServerStep, ServerKeeps
  <2>2. \A c \in Conn : c > conns => up'[c] = <<>>
    <3> SUFFICES ASSUME NEW c \in Conn, c > conns PROVE up'[c] = <<>>
      OBVIOUS
    <3>1. up[c] = <<>> /\ Shrinks(c)
      BY <1>1, <1>2 DEF Connections, ServerKeeps
    <3>2. Len(up[c]) = 0
      BY <3>1
    <3> QED
      BY <3>1, <3>2 DEF Shrinks, Popped
  <2>3. conn = 0 => down' = <<>>
    <3> SUFFICES ASSUME conn = 0 PROVE down' = <<>>
      OBVIOUS
    <3>1. down = <<>> /\ d = <<>> /\ down' = down \o d
      BY <1>1, <2>1 DEF Connections, Answers
    <3> QED
      BY <3>1
  <2> QED
    BY <1>1, <2>1, <2>2, <2>3 DEF Connections
<1> QED
  BY <1>1, <1>2, <1>3, <1>4, <1>5 DEF SerialInv

\* What the server does not touch.
ServerFrame ==
  /\ ServerKeeps /\ UNCHANGED <<conns, heard, active>>
  /\ sessions' \subseteq Conn /\ upsets' \in 0..MaxUpsets
  /\ issued' \in [Conn -> 0..Streams]

\* The counts of a device agree with its buffer.
Fits(y) ==
  /\ y.read = y.rx_seq + Len(y.buffer) /\ y.read <= MaxRead
  /\ \A i \in 1..Len(y.buffer) : y.buffer[i] = y.rx_seq + i

\* A device without an owner is empty.
Empty(y) == y.pending = NoBlock /\ y.buffer = <<>> /\ y.read = 0 /\ ~y.rx_pending

\* No device changes.
LEMMA IdleStep ==
  ASSUME Shape, Owners, Buffered, ServerFrame, UNCHANGED <<exports, wrote, issued>>,
         \A q \in Port : may /\ exports[q].owner # 0 /\ exports[q].tx_seq # 0 => Unread(exports[q].owner),
         NEW d, Answers(d),
         \A k \in 1..Len(d) : /\ ~IsFrame(d[k])
                              /\ IsOpened(d[k]) => Attached(d[k].stream)
  PROVE  ServerStep(d)
<1>1. Shape'
  <2>1. down' \in Seq(ToClient)
    BY AnswerLists
  <2> QED
    BY <2>1 DEF Shape, ServerFrame, ServerKeeps
<1>2. Owners' /\ Buffered'
  BY DEF Owners, Buffered, ServerFrame
<1>3. \A p \in Port : PortStep(p) /\ RxStep(p)
  BY DEF PortStep, Stays, SameUser, RxStep, RxStays
<1>4. AnswersRight(d)
  BY DEF AnswersRight, Attached
<1> QED
  BY <1>1, <1>2, <1>3, <1>4 DEF ServerStep, ServerFrame

\* One device changes.
LEMMA OneDevice ==
  ASSUME Shape, Owners, Buffered, ServerFrame,
         NEW p \in Port, NEW y \in Device, exports' = [exports EXCEPT ![p] = y],
         wrote' \in [Port -> Seq(Entry)], \A q \in Port : q # p => wrote'[q] = wrote[q],
         y.owner <= conns,
         y.owner # 0 => /\ y.stream # 0 /\ y.stream = issued'[y.owner] /\ Fits(y)
                        /\ \A q \in Port : exports[q].owner = y.owner => q = p,
         y.owner = 0 => Empty(y),
         y.pending # NoBlock => y.tx_seq # 0,
         \A c \in Conn : issued'[c] = issued[c] \/ \A q \in Port : exports[q].owner # c,
         \A q \in Port : q # p /\ may /\ exports[q].owner # 0 /\ exports[q].tx_seq # 0 =>
           Unread(exports[q].owner),
         PortStep(p), RxStep(p),
         NEW d, Answers(d),
         \A k \in 1..Len(d) : IsOpened(d[k]) => y.owner = conn /\ y.stream = d[k].stream,
         \A k \in 1..Len(d) : IsFrame(d[k]) =>
           /\ k = Len(d) /\ d[k].block = d[k].seq /\ d[k].seq <= MaxRead
           /\ RxSends(p) /\ exports[p].owner = conn
           /\ d[k].stream = exports[p].stream /\ d[k].seq = exports[p].rx_seq + 1,
         conn # 0 /\ exports[p].owner = conn /\ y.owner # conn =>
           \E k \in 1..Len(d) : News(d[k], exports[p].stream)
  PROVE  ServerStep(d)
<1>1. exports'[p] = y /\ \A q \in Port : q # p => exports'[q] = exports[q]
  BY DEF Shape
<1>2. Shape'
  <2>1. down' \in Seq(ToClient)
    BY AnswerLists
  <2>2. exports' \in [Port -> Device]
    BY DEF Shape
  <2> QED
    BY <2>1, <2>2 DEF Shape, ServerFrame, ServerKeeps
<1>3. Owners'
  <2> SUFFICES ASSUME NEW q \in Port
               PROVE  /\ exports'[q].owner <= conns
                      /\ exports'[q].owner # 0 =>
                           /\ exports'[q].stream = issued'[exports'[q].owner] /\ exports'[q].stream # 0
                           /\ \A r \in Port : exports'[r].owner = exports'[q].owner => r = q
                      /\ exports'[q].owner = 0 =>
                           /\ exports'[q].pending = NoBlock /\ exports'[q].buffer = <<>>
                           /\ exports'[q].read = 0 /\ ~exports'[q].rx_pending
                      /\ exports'[q].pending # NoBlock => exports'[q].tx_seq # 0
    BY DEF Owners, ServerFrame
  <2>1. CASE q = p
    <3>1. exports'[q] = y
      BY <1>1, <2>1
    <3>2. y.owner # 0 => \A r \in Port : exports'[r].owner = y.owner => r = q
      BY <1>1, <2>1
    <3> QED
      BY <3>1, <3>2 DEF Empty
  <2>2. CASE q # p
    <3>1. exports'[q] = exports[q]
      BY <1>1, <2>2
    <3>2. /\ exports[q].owner <= conns
          /\ exports[q].owner # 0 =>
               /\ exports[q].stream = issued[exports[q].owner] /\ exports[q].stream # 0
               /\ \A r \in Port : exports[r].owner = exports[q].owner => r = q
          /\ exports[q].owner = 0 =>
               /\ exports[q].pending = NoBlock /\ exports[q].buffer = <<>>
               /\ exports[q].read = 0 /\ ~exports[q].rx_pending
          /\ exports[q].pending # NoBlock => exports[q].tx_seq # 0
      BY DEF Owners
    <3>3. exports[q].owner # 0 => issued'[exports[q].owner] = issued[exports[q].owner]
      BY DeviceFacts
    <3>4. exports[q].owner # 0 => \A r \in Port : exports'[r].owner = exports[q].owner => r = q
      <4> SUFFICES ASSUME exports[q].owner # 0, NEW r \in Port, exports'[r].owner = exports[q].owner, r # q
                   PROVE  FALSE
        OBVIOUS
      <4>1. CASE r = p
        BY <1>1, <2>2, <4>1
      <4>2. CASE r # p
        BY <1>1, <3>2, <4>2
      <4> QED
        BY <4>1, <4>2
    <3> QED
      BY <3>1, <3>2, <3>3, <3>4
  <2> QED
    BY <2>1, <2>2
<1>4. Buffered'
  <2> SUFFICES ASSUME NEW q \in Port, exports'[q].owner # 0
               PROVE  Fits(exports'[q])
    BY DEF Buffered, Fits
  <2>1. CASE q = p
    BY <1>1, <2>1
  <2>2. CASE q # p
    BY <1>1, <2>2 DEF Buffered, Fits
  <2> QED
    BY <2>1, <2>2
<1>5. \A q \in Port : PortStep(q) /\ RxStep(q)
  <2> SUFFICES ASSUME NEW q \in Port, q # p PROVE PortStep(q) /\ RxStep(q)
    OBVIOUS
  <2>1. exports'[q] = exports[q] /\ wrote'[q] = wrote[q]
    BY <1>1
  <2>2. Stays(q) /\ RxStays(q)
    BY <2>1 DEF Stays, SameUser, RxStays
  <2> QED
    BY <2>2 DEF PortStep, RxStep
<1>6. AnswersRight(d)
  <2>1. \A k \in 1..Len(d) : IsOpened(d[k]) =>
          \E q \in Port : exports'[q].owner = conn /\ exports'[q].stream = d[k].stream
    BY <1>1
  <2>2. conn # 0 => \A q \in Port : exports[q].owner = conn /\ exports'[q].owner # conn =>
          \E k \in 1..Len(d) : News(d[k], exports[q].stream)
    BY <1>1
  <2> QED
    BY <2>1, <2>2 DEF AnswersRight
<1> QED
  BY <1>2, <1>3, <1>4, <1>5, <1>6 DEF ServerStep, ServerFrame

\* What reply sends arrives if the connection is the client's.
LEMMA ReplyAnswers ==
  ASSUME Shape, NEW c \in Conn, NEW o \in Seq(ToClient), Reply(c, o),
         NEW d, d = IF c = conn THEN o ELSE <<>>
  PROVE  Answers(d)
<1>1. down \in Seq(ToClient) /\ c # 0
  BY SerialAssumption DEF Shape, Conn
<1>2. CASE c = conn
  BY <1>1, <1>2 DEF Reply, Answers
<1>3. CASE c # conn
  <2>1. down \o <<>> = down
    BY <1>1
  <2>2. d = <<>> /\ d \in Seq(ToClient) /\ down' = down
    BY <1>3 DEF Reply
  <2> QED
    BY <2>1, <2>2 DEF Answers
<1> QED
  BY <1>2, <1>3

\* Nothing is answered.
LEMMA NoAnswer ==
  ASSUME Shape, UNCHANGED down
  PROVE  Answers(<<>>)
<1>1. down \in Seq(ToClient)
  BY DEF Shape
<1>2. down \o <<>> = down /\ <<>> \in Seq(ToClient)
  BY <1>1
<1> QED
  BY <1>2 DEF Answers

\* Single answers.
LEMMA OneAnswer ==
  ASSUME NEW m \in ToClient, NEW o, o = <<m>>
  PROVE  o \in Seq(ToClient) /\ Len(o) = 1 /\ o[1] = m
  OBVIOUS

\* The server reads a message of connection c.
LEMMA ReadsFrame ==
  ASSUME Shape, Connections, NEW c \in Conn, up[c] # <<>>, NEW fails \in BOOLEAN, Perhaps(fails),
         up' = [up EXCEPT ![c] = Tail(@)],
         UNCHANGED <<sessions, may, b, active, conn, conns, typed, heard>>,
         issued' \in [Conn -> 0..Streams], \A k \in Conn : issued[k] <= issued'[k]
  PROVE  /\ ServerFrame /\ Popped(up[c], up'[c]) /\ Head(up[c]) = up[c][1] /\ Head(up[c]) \in ToServer
         /\ \A k \in Conn : k # c => up'[k] = up[k]
         /\ c <= conns /\ 1 \in 1..Len(up[c])
<1>1. up[c] \in Seq(ToServer) /\ up \in [Conn -> Seq(ToServer)]
  BY DEF Shape
<1>2. /\ Tail(up[c]) \in Seq(ToServer) /\ Popped(up[c], Tail(up[c])) /\ Head(up[c]) = up[c][1]
      /\ Head(up[c]) \in ToServer /\ 1 \in 1..Len(up[c])
  BY <1>1, TailPopped
<1>3. /\ up'[c] = Tail(up[c]) /\ up' \in [Conn -> Seq(ToServer)]
      /\ \A k \in Conn : k # c => up'[k] = up[k]
  BY <1>1, <1>2
<1>4. \A k \in Conn : Shrinks(k)
  BY <1>2, <1>3 DEF Shrinks
<1>5. c <= conns
  BY SerialAssumption DEF Connections, Shape, Conn
<1>6. upsets' \in 0..MaxUpsets
  BY PerhapsBounded
<1>7. issued' \in [Conn -> Nat]
  BY SerialAssumption
<1>8. sessions' \subseteq Conn
  BY DEF Shape
<1>9. ServerKeeps
  BY <1>3, <1>4, <1>7 DEF ServerKeeps
<1> QED
  BY <1>2, <1>3, <1>5, <1>6, <1>8, <1>9 DEF ServerFrame

\* A device that is closed.
LEMMA ClosedFields ==
  ASSUME Shape, NEW p \in Port, NEW y, y = close_port(p)
  PROVE  y \in Device /\ y.owner = 0 /\ Empty(y)
<1> DEFINE x == exports[p]
<1>1. x \in Device
  BY DEF Shape
<1>2. y = [x EXCEPT !.owner = 0, !.stream = 0, !.rx_pending = FALSE, !.close_pending = FALSE,
                    !.pending = NoBlock, !.buffer = <<>>, !.read = 0]
  BY DEF close_port
<1> HIDE DEF x
<1>3. y.owner = 0 /\ y.pending = NoBlock /\ y.buffer = <<>> /\ y.read = 0 /\ ~y.rx_pending
  BY <1>1, <1>2 DEF Device
<1>4. y \in Device
  <2>1. <<>> \in Seq(Nat) /\ 0 \in Nat /\ NoBlock \in Nat \cup {NoBlock}
    OBVIOUS
  <2> QED
    BY <1>1, <1>2, <2>1 DEF Device
<1> QED
  BY <1>3, <1>4 DEF Empty

\* A device is given back, and its user is told.
LEMMA LeavesStep ==
  ASSUME Shape, Owners, Buffered, ServerFrame, NEW p \in Port,
         exports' = [exports EXCEPT ![p] = close_port(p)], UNCHANGED <<wrote, issued>>,
         \A q \in Port : q # p /\ may /\ exports[q].owner # 0 /\ exports[q].tx_seq # 0 =>
           Unread(exports[q].owner),
         NEW d, Answers(d),
         \A k \in 1..Len(d) : ~IsOpened(d[k]) /\ ~IsFrame(d[k]),
         conn # 0 /\ exports[p].owner = conn => \E k \in 1..Len(d) : News(d[k], exports[p].stream)
  PROVE  ServerStep(d)
<1> DEFINE y == close_port(p)
<1>1. y \in Device /\ y.owner = 0 /\ Empty(y)
  BY ClosedFields
<1>2. exports'[p] = y
  BY DEF Shape
<1> HIDE DEF y
<1>3. PortStep(p) /\ RxStep(p)
  BY <1>1, <1>2 DEF PortStep, Leaves, RxStep, Empty
<1>4. y.owner <= conns /\ y.pending = NoBlock
  BY <1>1, SerialAssumption DEF Shape, Empty
<1>5. wrote' \in [Port -> Seq(Entry)]
  BY DEF Shape
<1>6. exports' = [exports EXCEPT ![p] = y]
  BY DEF y
<1> QED
  BY <1>1, <1>3, <1>4, <1>5, <1>6, OneDevice

\* ServerReads, apart from what the message does.
Reading(c, fails) ==
  /\ up[c] # <<>> /\ Perhaps(fails) /\ up' = [up EXCEPT ![c] = Tail(@)]
  /\ UNCHANGED <<sessions, may, b, active, conn, conns, typed, heard>>

\* A message that is not a frame changes nothing but the answers.
LEMMA IdleReading ==
  ASSUME SerialInv, NEW c \in Conn, NEW fails \in BOOLEAN, Reading(c, fails),
         ~IsFrame(Head(up[c])), UNCHANGED <<exports, issued, wrote>>,
         NEW d, Answers(d),
         \A k \in 1..Len(d) : /\ ~IsFrame(d[k])
                              /\ IsOpened(d[k]) => Attached(d[k].stream)
  PROVE  ServerStep(d)
<1>1. Shape /\ Connections /\ Owners /\ Buffered
  BY DEF SerialInv, HInv
<1>2. issued' \in [Conn -> 0..Streams] /\ \A k \in Conn : issued[k] <= issued'[k]
  BY <1>1, SerialAssumption DEF Shape
<1>3. /\ ServerFrame /\ Popped(up[c], up'[c]) /\ Head(up[c]) = up[c][1]
      /\ \A k \in Conn : k # c => up'[k] = up[k]
  BY <1>1, <1>2, ReadsFrame DEF Reading
<1>4. \A k \in Conn : Unread(k)
  BY <1>3 DEF Unread
<1>5. \A q \in Port : may /\ exports[q].owner # 0 /\ exports[q].tx_seq # 0 => Unread(exports[q].owner)
  BY <1>1, <1>4, DeviceFacts
<1> QED
  BY <1>1, <1>3, <1>5, IdleStep

\* The error reply is an answer that opens nothing.
LEMMA ErrorAnswer ==
  ASSUME NEW s \in Nat, NEW o, o = Error(s)
  PROVE  /\ o \in Seq(ToClient) /\ Len(o) = 1 /\ News(o[1], s)
         /\ ~IsFrame(o[1]) /\ ~IsOpened(o[1])
<1> DEFINE m == [cmd |-> "error", stream |-> s]
<1>1. m \in ToClient /\ News(m, s) /\ ~IsFrame(m) /\ ~IsOpened(m)
  BY DEF ToClient, News, IsFrame, IsOpened
<1>2. o = <<m>>
  BY DEF Error
<1> HIDE DEF m
<1>3. o \in Seq(ToClient) /\ Len(o) = 1 /\ o[1] = m
  BY <1>1, <1>2, OneAnswer
<1> QED
  BY <1>1, <1>3

\* The "closed" reply is news of the stream and opens nothing.
LEMMA ClosedAnswer ==
  ASSUME Shape, NEW p \in Port, NEW o, o = ClosedReply(p)
  PROVE  /\ o \in Seq(ToClient) /\ Len(o) = 1 /\ News(o[1], exports[p].stream)
         /\ ~IsFrame(o[1]) /\ ~IsOpened(o[1])
<1> DEFINE s == exports[p].stream
           m == [cmd |-> "closed", stream |-> s]
<1>0. s \in Nat
  BY DEF Shape, Device
<1>1. m \in ToClient /\ News(m, s) /\ ~IsFrame(m) /\ ~IsOpened(m)
  BY <1>0 DEF ToClient, News, IsFrame, IsOpened
<1>2. o = <<m>>
  BY DEF ClosedReply
<1> HIDE DEF m, s
<1>3. o \in Seq(ToClient) /\ Len(o) = 1 /\ o[1] = m
  BY <1>1, <1>2, OneAnswer
<1> QED
  BY <1>1, <1>3 DEF s

\* The "opened" reply names the stream.
LEMMA OpenedAnswer ==
  ASSUME NEW s \in Nat, NEW o, o = <<[cmd |-> "opened", stream |-> s]>>
  PROVE  /\ o \in Seq(ToClient) /\ Len(o) = 1 /\ o[1].stream = s
         /\ ~IsFrame(o[1]) /\ IsOpened(o[1])
<1> DEFINE m == [cmd |-> "opened", stream |-> s]
<1>1. m \in ToClient /\ m.stream = s /\ ~IsFrame(m) /\ IsOpened(m)
  BY DEF ToClient, IsFrame, IsOpened
<1> HIDE DEF m
<1>2. o = <<m>>
  BY DEF m
<1>3. o \in Seq(ToClient) /\ Len(o) = 1 /\ o[1] = m
  BY <1>1, <1>2, OneAnswer
<1> QED
  BY <1>1, <1>3

\* A single answer arrives if the connection is the client's.
LEMMA OneArrives ==
  ASSUME NEW c, NEW o \in Seq(ToClient), Len(o) = 1, NEW d, d = IF c = conn THEN o ELSE <<>>
  PROVE  /\ \A k \in 1..Len(d) : c = conn /\ d[k] = o[1]
         /\ c = conn => 1 \in 1..Len(d) /\ d[1] = o[1]
<1>1. CASE c = conn
  <2>1. d = o
    BY <1>1
  <2> QED
    BY <1>1, <2>1, SMTT(30)
<1>2. CASE c # conn
  <2>1. d = <<>>
    BY <1>2
  <2>2. Len(d) = 0
    BY <2>1
  <2> QED
    BY <1>2, <2>2
<1> QED
  BY <1>1, <1>2

\* request "open".
LEMMA OpenSteps ==
  ASSUME SerialInv, NEW c \in Conn, NEW fails \in BOOLEAN, Reading(c, fails),
         NEW port \in Port, ~IsFrame(Head(up[c])), open(c, port, fails)
  PROVE  \E d : ServerStep(d)
<1>1. Shape /\ Connections /\ Owners /\ Buffered
  BY DEF SerialInv, HInv
<1>a. exports[port] \in Device /\ exports[port].stream \in Nat
  BY <1>1, DeviceFacts
<1>2. CASE UNCHANGED <<exports, issued>> /\ Reply(c, Error(0))
  <2> DEFINE o == Error(0)
             d == IF c = conn THEN o ELSE <<>>
  <2>1. o \in Seq(ToClient) /\ Len(o) = 1 /\ ~IsFrame(o[1]) /\ ~IsOpened(o[1])
    BY ErrorAnswer
  <2>2. Reply(c, o)
    BY <1>2
  <2> HIDE DEF o
  <2>3. Answers(d)
    BY <1>1, <2>1, <2>2, ReplyAnswers
  <2>4. \A k \in 1..Len(d) : ~IsFrame(d[k]) /\ ~IsOpened(d[k])
    <3>1. \A k \in 1..Len(d) : c = conn /\ d[k] = o[1]
      BY <2>1, OneArrives
    <3> HIDE DEF d
    <3> QED
      BY <2>1, <3>1
  <2>5. UNCHANGED <<exports, issued, wrote>>
    BY <1>2 DEF open
  <2> HIDE DEF d
  <2>6. ServerStep(d)
    BY <2>3, <2>4, <2>5, IdleReading
  <2> QED
    BY <2>6
<1>3. CASE /\ UNCHANGED <<exports, issued>> /\ owned(c) = {port}
           /\ Reply(c, <<[cmd |-> "opened", stream |-> exports[port].stream]>>)
  <2> DEFINE o == <<[cmd |-> "opened", stream |-> exports[port].stream]>>
             d == IF c = conn THEN o ELSE <<>>
  <2>1. o \in Seq(ToClient) /\ Len(o) = 1 /\ ~IsFrame(o[1]) /\ o[1].stream = exports[port].stream
    BY <1>a, OpenedAnswer
  <2>2. Reply(c, o)
    BY <1>3
  <2> HIDE DEF o
  <2>3. Answers(d)
    BY <1>1, <2>1, <2>2, ReplyAnswers
  <2>4. exports[port].owner = c
    BY <1>3 DEF owned
  <2>5. \A k \in 1..Len(d) : ~IsFrame(d[k]) /\ (IsOpened(d[k]) => Attached(d[k].stream))
    <3>1. c = conn => Attached(exports[port].stream)
      BY <2>4 DEF Attached
    <3>2. \A k \in 1..Len(d) : c = conn /\ d[k] = o[1]
      BY <2>1, OneArrives
    <3> QED
      BY <2>1, <3>1, <3>2
  <2>6. UNCHANGED <<exports, issued, wrote>>
    BY <1>3 DEF open
  <2> HIDE DEF d
  <2>7. ServerStep(d)
    BY <2>3, <2>5, <2>6, IdleReading
  <2> QED
    BY <2>7
<1>4. CASE /\ owned(c) = {} /\ exports[port].owner = 0 /\ allocate_stream(c) # 0
           /\ exports' = [exports EXCEPT ![port] = [@ EXCEPT !.owner = c, !.stream = allocate_stream(c),
                                                             !.tx_seq = 0, !.rx_seq = 0]]
           /\ issued' = [issued EXCEPT ![c] = allocate_stream(c)]
           /\ Reply(c, <<[cmd |-> "opened", stream |-> allocate_stream(c)]>>)
  <2> DEFINE s == allocate_stream(c)
             x == exports[port]
             y == [x EXCEPT !.owner = c, !.stream = s, !.tx_seq = 0, !.rx_seq = 0]
             o == <<[cmd |-> "opened", stream |-> s]>>
             d == IF c = conn THEN o ELSE <<>>
  <2>1. issued[c] \in 0..Streams /\ s = issued[c] + 1 /\ s \in 1..Streams /\ s \in Nat
    <3>1. issued[c] \in 0..Streams
      BY <1>1 DEF Shape
    <3>2. issued[c] < Streams
      BY <1>4, <3>1 DEF allocate_stream
    <3> QED
      BY <3>1, <3>2, SerialAssumption DEF allocate_stream
  <2>2. issued' = [issued EXCEPT ![c] = s] /\ Reply(c, o) /\ exports' = [exports EXCEPT ![port] = y]
    BY <1>4
  <2>3. o \in Seq(ToClient) /\ Len(o) = 1 /\ ~IsFrame(o[1]) /\ o[1].stream = s
    BY <2>1, OpenedAnswer
  <2> HIDE DEF s, o
  <2>4. c \in Nat /\ c # 0
    BY SerialAssumption DEF Conn
  <2>5. x \in Device /\ x.owner = 0 /\ x.pending = NoBlock /\ x.buffer = <<>> /\ x.read = 0 /\ ~x.rx_pending
    BY <1>1, <1>4 DEF Shape, Owners
  <2> HIDE DEF x
  <2>6. y \in Device
    BY <2>1, <2>4, <2>5 DEF Device
  <2>7. /\ y.owner = c /\ y.stream = s /\ y.tx_seq = 0 /\ y.rx_seq = 0
        /\ y.pending = NoBlock /\ y.buffer = <<>> /\ y.read = 0
    BY <2>5 DEF Device
  <2> HIDE DEF y
  <2>8. issued' \in [Conn -> 0..Streams] /\ issued'[c] = s /\ \A k \in Conn : k # c => issued'[k] = issued[k]
    BY <1>1, <2>1, <2>2, SerialAssumption DEF Shape
  <2>9. \A k \in Conn : issued[k] <= issued'[k]
    <3> TAKE k \in Conn
    <3>1. issued[k] \in Nat
      BY <1>1, SerialAssumption DEF Shape
    <3>2. CASE k = c
      BY <2>1, <2>8, <3>1, <3>2
    <3>3. CASE k # c
      BY <2>8, <3>1, <3>3
    <3> QED
      BY <3>2, <3>3
  <2>10. /\ ServerFrame /\ Popped(up[c], up'[c]) /\ Head(up[c]) = up[c][1]
         /\ \A k \in Conn : k # c => up'[k] = up[k]
         /\ c <= conns
    BY <1>1, <2>8, <2>9, ReadsFrame DEF Reading
  <2>11. \A q \in Port : q # port /\ may /\ exports[q].owner # 0 /\ exports[q].tx_seq # 0 =>
           Unread(exports[q].owner)
    <3>1. \A k \in Conn : Unread(k)
      BY <2>10 DEF Unread
    <3> QED
      BY <1>1, <3>1, DeviceFacts
  <2>12. Answers(d)
    BY <1>1, <2>2, <2>3, ReplyAnswers
  <2>13. exports'[port] = y
    BY <1>1, <2>2 DEF Shape
  <2>14. wrote' = wrote /\ wrote' \in [Port -> Seq(Entry)]
    BY <1>1 DEF open, Shape
  <2>15. RxAttaches(port, c)
    BY <2>1, <2>5, <2>7, <2>8, <2>13, <2>14 DEF RxAttaches, Attaches, x
  <2>16. PortStep(port) /\ RxStep(port)
    BY <2>15 DEF PortStep, RxStep, RxAttaches
  <2>17. \A q \in Port : exports[q].owner # c
    BY <1>4 DEF owned
  <2>18. Fits(y)
    <3>1. Len(y.buffer) = 0
      BY <2>7
    <3> QED
      BY <2>7, <3>1, SerialAssumption DEF Fits
  <2>19. \A k \in 1..Len(d) : y.owner = conn /\ y.stream = d[k].stream /\ ~IsFrame(d[k])
    <3>1. \A k \in 1..Len(d) : c = conn /\ d[k] = o[1]
      BY <2>3, OneArrives
    <3> QED
      BY <2>3, <2>7, <3>1
  <2>20. ~(conn # 0 /\ exports[port].owner = conn)
    BY <1>4
  <2> HIDE DEF d
  <2>21. \A k \in Conn : issued'[k] = issued[k] \/ \A q \in Port : exports[q].owner # k
    BY <2>8, <2>17
  <2>22. y.owner # 0 => /\ y.stream # 0 /\ y.stream = issued'[y.owner] /\ Fits(y)
                        /\ \A q \in Port : exports[q].owner = y.owner => q = port
    BY <2>1, <2>7, <2>8, <2>17, <2>18
  <2>23. y.owner <= conns /\ (y.owner = 0 => Empty(y)) /\ (y.pending # NoBlock => y.tx_seq # 0)
    BY <2>4, <2>7, <2>10
  <2>24. \A q \in Port : q # port => wrote'[q] = wrote[q]
    BY <2>14
  <2>25. ServerStep(d)
    BY <1>1, <2>2, <2>6, <2>10, <2>11, <2>12, <2>14, <2>16, <2>19, <2>20, <2>21, <2>22, <2>23, <2>24, OneDevice
  <2> QED
    BY <2>25
<1>5. \/ /\ UNCHANGED <<exports, issued>> /\ Reply(c, Error(0))
      \/ /\ UNCHANGED <<exports, issued>> /\ owned(c) = {port}
         /\ Reply(c, <<[cmd |-> "opened", stream |-> exports[port].stream]>>)
      \/ /\ owned(c) = {} /\ exports[port].owner = 0 /\ allocate_stream(c) # 0
         /\ exports' = [exports EXCEPT ![port] = [@ EXCEPT !.owner = c, !.stream = allocate_stream(c),
                                                           !.tx_seq = 0, !.rx_seq = 0]]
         /\ issued' = [issued EXCEPT ![c] = allocate_stream(c)]
         /\ Reply(c, <<[cmd |-> "opened", stream |-> allocate_stream(c)]>>)
  BY Zenon DEF open
<1> QED
  BY <1>2, <1>3, <1>4, <1>5

\* A device changes and keeps its user.
LEMMA SameUserStep ==
  ASSUME Shape, Owners, Buffered, ServerFrame, UNCHANGED issued,
         NEW p \in Port, exports[p].owner # 0, NEW y \in Device, exports' = [exports EXCEPT ![p] = y],
         y.owner = exports[p].owner, y.stream = exports[p].stream, Fits(y),
         y.pending # NoBlock => y.tx_seq # 0,
         wrote' \in [Port -> Seq(Entry)], \A q \in Port : q # p => wrote'[q] = wrote[q],
         \A q \in Port : q # p /\ may /\ exports[q].owner # 0 /\ exports[q].tx_seq # 0 =>
           Unread(exports[q].owner),
         PortStep(p), RxStep(p),
         NEW d, Answers(d),
         \A k \in 1..Len(d) : ~IsOpened(d[k]),
         \A k \in 1..Len(d) : IsFrame(d[k]) =>
           /\ k = Len(d) /\ d[k].block = d[k].seq /\ d[k].seq <= MaxRead
           /\ RxSends(p) /\ exports[p].owner = conn
           /\ d[k].stream = exports[p].stream /\ d[k].seq = exports[p].rx_seq + 1
  PROVE  ServerStep(d)
<1>1. /\ y.owner <= conns
      /\ y.owner # 0 => /\ y.stream # 0 /\ y.stream = issued'[y.owner] /\ Fits(y)
                        /\ \A q \in Port : exports[q].owner = y.owner => q = p
      /\ y.owner # 0
  BY DEF Owners
<1>2. \A c \in Conn : issued'[c] = issued[c] \/ \A q \in Port : exports[q].owner # c
  OBVIOUS
<1> QED
  BY <1>1, <1>2, OneDevice, ZenonT(60)

\* request "close" and "read".
LEMMA RequestSteps ==
  ASSUME SerialInv, NEW c \in Conn, NEW fails \in BOOLEAN, Reading(c, fails),
         NEW m, m = Head(up[c]), m.cmd \in {"close", "read"}, request(c, m)
  PROVE  \E d : ServerStep(d)
<1>1. Shape /\ Connections /\ Owners /\ Buffered /\ ReadsHeard
  BY DEF SerialInv, HInv
<1>2. UNCHANGED <<issued, wrote>>
  BY DEF request
<1>3. issued' \in [Conn -> 0..Streams] /\ \A k \in Conn : issued[k] <= issued'[k]
  BY <1>1, <1>2, SerialAssumption DEF Shape
<1>4. /\ ServerFrame /\ Popped(up[c], up'[c]) /\ m = up[c][1]
      /\ \A k \in Conn : k # c => up'[k] = up[k]
      /\ 1 \in 1..Len(up[c])
  BY <1>1, <1>3, ReadsFrame DEF Reading
<1>5. ~IsFrame(m)
  BY DEF IsFrame
<1>6. \A q \in Port : may /\ exports[q].owner # 0 /\ exports[q].tx_seq # 0 => Unread(exports[q].owner)
  <2>1. \A k \in Conn : Unread(k)
    BY <1>4, <1>5 DEF Unread
  <2> QED
    BY <1>1, <2>1, DeviceFacts
<1>7. c # 0
  BY SerialAssumption DEF Conn
<1>8. CASE Reply(c, Error(0)) /\ UNCHANGED exports
  <2> DEFINE o == Error(0)
             d == IF c = conn THEN o ELSE <<>>
  <2>1. o \in Seq(ToClient) /\ Len(o) = 1 /\ ~IsFrame(o[1]) /\ ~IsOpened(o[1])
    BY ErrorAnswer
  <2>2. Reply(c, o)
    BY <1>8
  <2> HIDE DEF o
  <2>3. Answers(d)
    BY <1>1, <2>1, <2>2, ReplyAnswers
  <2>4. \A k \in 1..Len(d) : ~IsFrame(d[k]) /\ ~IsOpened(d[k])
    <3>1. \A k \in 1..Len(d) : c = conn /\ d[k] = o[1]
      BY <2>1, OneArrives
    <3> HIDE DEF d
    <3> QED
      BY <2>1, <3>1
  <2> HIDE DEF d
  <2>5. ServerStep(d)
    BY <1>1, <1>2, <1>4, <1>6, <1>8, <2>3, <2>4, IdleStep
  <2> QED
    BY <2>5
<1>9. CASE UNCHANGED <<exports, down>>
  <2> DEFINE d == <<>>
  <2>1. UNCHANGED down
    BY <1>9
  <2>2. Answers(d) /\ Len(d) = 0
    BY <1>1, <2>1, NoAnswer
  <2> HIDE DEF d
  <2>3. \A k \in 1..Len(d) : ~IsFrame(d[k]) /\ ~IsOpened(d[k])
    BY <2>2
  <2>4. ServerStep(d)
    BY <1>1, <1>2, <1>4, <1>6, <1>9, <2>2, <2>3, IdleStep
  <2> QED
    BY <2>4
<1>10. ASSUME NEW p \in owned(c), Finish(c, p)
       PROVE  \E d : ServerStep(d)
  <2>0. p \in Port /\ exports[p].owner = c
    BY DEF owned
  <2>1. CASE Reply(c, ClosedReply(p)) /\ exports' = [exports EXCEPT ![p] = close_port(p)]
    <3> DEFINE o == ClosedReply(p)
               d == IF c = conn THEN o ELSE <<>>
    <3>1. o \in Seq(ToClient) /\ Len(o) = 1 /\ ~IsFrame(o[1]) /\ ~IsOpened(o[1]) /\ News(o[1], exports[p].stream)
      BY <1>1, <2>0, ClosedAnswer
    <3>2. Reply(c, o)
      BY <2>1
    <3> HIDE DEF o
    <3>3. Answers(d)
      BY <1>1, <3>1, <3>2, ReplyAnswers
    <3>4. /\ \A k \in 1..Len(d) : c = conn /\ d[k] = o[1]
          /\ c = conn => 1 \in 1..Len(d) /\ d[1] = o[1]
      BY <3>1, OneArrives
    <3> HIDE DEF d
    <3>5. ServerStep(d)
      BY <1>1, <1>2, <1>4, <1>6, <2>0, <2>1, <3>1, <3>3, <3>4, LeavesStep
    <3> QED
      BY <3>5
  <2>2. CASE UNCHANGED down /\ exports' = [exports EXCEPT ![p].close_pending = TRUE]
    <3> DEFINE x == exports[p]
               y == [x EXCEPT !.close_pending = TRUE]
               d == <<>>
    <3>1. x \in Device /\ Fits(x) /\ (x.pending # NoBlock => x.tx_seq # 0)
      BY <1>1, <1>7, <2>0 DEF Shape, Buffered, Fits, Owners
    <3>2. exports' = [exports EXCEPT ![p] = y]
      BY <2>2
    <3>3. /\ y \in Device /\ y.owner = x.owner /\ y.stream = x.stream /\ y.tx_seq = x.tx_seq
          /\ y.pending = x.pending /\ y.rx_seq = x.rx_seq /\ y.rx_pending = x.rx_pending
          /\ y.buffer = x.buffer /\ y.read = x.read
      <4> HIDE DEF x
      <4> QED
        BY <3>1 DEF Device
    <3>4. exports'[p] = y
      BY <1>1, <2>0, <3>2 DEF Shape
    <3> HIDE DEF y
    <3>5. Stays(p) /\ RxStays(p)
      BY <1>2, <1>6, <2>0, <3>3, <3>4 DEF Stays, RxStays, SameUser
    <3>6. PortStep(p) /\ RxStep(p)
      BY <3>5 DEF PortStep, RxStep
    <3>7. Fits(y)
      BY <3>1, <3>3 DEF Fits
    <3>8. Answers(d) /\ Len(d) = 0
      BY <1>1, <2>2, NoAnswer
    <3> HIDE DEF d
    <3>9. \A k \in 1..Len(d) : ~IsFrame(d[k]) /\ ~IsOpened(d[k])
      BY <3>8
    <3>10. wrote' \in [Port -> Seq(Entry)] /\ \A q \in Port : q # p => wrote'[q] = wrote[q]
      BY <1>1, <1>2 DEF Shape
    <3>11. ServerStep(d)
      BY <1>1, <1>2, <1>4, <1>6, <1>7, <2>0, <3>1, <3>2, <3>3, <3>6, <3>7, <3>8, <3>9, <3>10, SameUserStep
    <3> QED
      BY <3>11
  <2> QED
    BY <1>10, <2>1, <2>2 DEF Finish
<1>11. ASSUME NEW p \in owned(c), Acknowledge(p, m.seq), m.cmd = "read",
              m.stream = 0 \/ m.stream = exports[p].stream
       PROVE  \E d : ServerStep(d)
  <2>0. p \in Port /\ exports[p].owner = c
    BY DEF owned
  <2> DEFINE x == exports[p]
             f == x.rx_pending /\ m.seq # x.rx_seq
             y == [x EXCEPT !.rx_pending = f]
             d == <<>>
  <2>1. x \in Device /\ Fits(x) /\ (x.pending # NoBlock => x.tx_seq # 0)
    BY <1>1, <1>7, <2>0 DEF Shape, Buffered, Fits, Owners
  <2>2. exports' = [exports EXCEPT ![p] = y] /\ UNCHANGED down
    BY <1>11 DEF Acknowledge
  <2>a. f \in BOOLEAN
    OBVIOUS
  <2>3. /\ y \in Device /\ y.owner = x.owner /\ y.stream = x.stream /\ y.tx_seq = x.tx_seq
        /\ y.pending = x.pending /\ y.rx_seq = x.rx_seq
        /\ y.buffer = x.buffer /\ y.read = x.read
    <3> HIDE DEF x, f
    <3> QED
      BY <2>1, <2>a DEF Device
  <2>4. exports'[p] = y
    BY <1>1, <2>0, <2>2 DEF Shape
  <2> HIDE DEF y
  <2>5. c = conn => ~Unheard(x.stream)
    <3> SUFFICES ASSUME c = conn PROVE ~Unheard(x.stream)
      OBVIOUS
    <3>1. m.stream # 0 /\ ~Unheard(m.stream)
      BY <1>1, <1>4, <1>7, <1>11 DEF ReadsHeard
    <3> QED
      BY <1>11, <3>1
  <2>6. Stays(p) /\ RxStays(p)
    BY <1>2, <1>6, <2>0, <2>3, <2>4, <2>5 DEF Stays, RxStays, SameUser
  <2>7. PortStep(p) /\ RxStep(p)
    BY <2>6 DEF PortStep, RxStep
  <2>8. Fits(y)
    BY <2>1, <2>3 DEF Fits
  <2>9. Answers(d) /\ Len(d) = 0
    BY <1>1, <2>2, NoAnswer
  <2> HIDE DEF d
  <2>10. \A k \in 1..Len(d) : ~IsFrame(d[k]) /\ ~IsOpened(d[k])
    BY <2>9
  <2>11. wrote' \in [Port -> Seq(Entry)] /\ \A q \in Port : q # p => wrote'[q] = wrote[q]
    BY <1>1, <1>2 DEF Shape
  <2>12. ServerStep(d)
    BY <1>1, <1>2, <1>4, <1>6, <1>7, <2>0, <2>1, <2>2, <2>3, <2>7, <2>8, <2>9, <2>10, <2>11, SameUserStep
  <2> QED
    BY <2>12
<1>12. \/ Reply(c, Error(0)) /\ UNCHANGED exports
       \/ UNCHANGED <<exports, down>>
       \/ \E p \in owned(c) : Finish(c, p)
       \/ \E p \in owned(c) : /\ Acknowledge(p, m.seq) /\ m.cmd = "read"
                              /\ m.stream = 0 \/ m.stream = exports[p].stream
  BY DEF request
<1> QED
  BY <1>8, <1>9, <1>10, <1>11, <1>12

\* A data frame.
LEMMA FrameReadSteps ==
  ASSUME SerialInv, NEW c \in Conn, NEW fails \in BOOLEAN, Reading(c, fails),
         NEW m, m = Head(up[c]), IsFrame(m), frame(c, m)
  PROVE  \E d : ServerStep(d)
<1>1. Shape /\ Connections /\ Owners /\ Buffered /\ FrameStreams
  BY DEF SerialInv, HInv, StreamsGrow
<1>2. UNCHANGED <<issued, wrote>>
  BY DEF frame
<1>3. issued' \in [Conn -> 0..Streams] /\ \A k \in Conn : issued[k] <= issued'[k]
  BY <1>1, <1>2, SerialAssumption DEF Shape
<1>4. /\ ServerFrame /\ Popped(up[c], up'[c]) /\ m = up[c][1]
      /\ \A k \in Conn : k # c => up'[k] = up[k]
      /\ 1 \in 1..Len(up[c])
  BY <1>1, <1>3, ReadsFrame DEF Reading
<1>5. c # 0 /\ up[c] \in Seq(ToServer)
  BY <1>1, SerialAssumption DEF Conn, Shape
<1>6. m.stream \in Nat /\ m.seq \in Nat /\ m.block \in Nat
  BY <1>4, <1>5, FrameType
<1>7. \A q \in Port : exports[q].owner # 0 /\ exports[q].owner # c => Unread(exports[q].owner)
  BY <1>1, <1>4, DeviceFacts DEF Unread
<1>8. CASE {p \in owned(c) : exports[p].stream = m.stream /\ may} = {} /\ UNCHANGED <<exports, down>>
  <2> DEFINE d == <<>>
  <2>1. UNCHANGED down
    BY <1>8
  <2>2. Answers(d) /\ Len(d) = 0
    BY <1>1, <2>1, NoAnswer
  <2> HIDE DEF d
  <2>3. \A k \in 1..Len(d) : ~IsFrame(d[k]) /\ ~IsOpened(d[k])
    BY <2>2
  <2>4. \A q \in Port : may /\ exports[q].owner # 0 /\ exports[q].tx_seq # 0 => Unread(exports[q].owner)
    <3> SUFFICES ASSUME NEW q \in Port, may, exports[q].owner = c, exports[q].tx_seq # 0 PROVE FALSE
      BY <1>7
    <3>1. AllOf(up[c], exports[q].stream)
      BY <1>1 DEF FrameStreams, Begins
    <3>2. m.stream = exports[q].stream
      BY <1>4, <3>1 DEF AllOf
    <3> QED
      BY <1>8, <3>2 DEF owned
  <2>5. ServerStep(d)
    BY <1>1, <1>2, <1>4, <1>8, <2>2, <2>3, <2>4, IdleStep
  <2> QED
    BY <2>5
<1>9. ASSUME NEW p \in owned(c), exports[p].stream = m.stream, may,
             Reply(c, Error(m.stream)), exports' = [exports EXCEPT ![p] = close_port(p)]
      PROVE  \E d : ServerStep(d)
  <2>0. p \in Port /\ exports[p].owner = c
    BY DEF owned
  <2> DEFINE o == Error(m.stream)
             d == IF c = conn THEN o ELSE <<>>
  <2>1. o \in Seq(ToClient) /\ Len(o) = 1 /\ ~IsFrame(o[1]) /\ ~IsOpened(o[1]) /\ News(o[1], m.stream)
    BY <1>6, ErrorAnswer
  <2>2. Reply(c, o)
    BY <1>9
  <2> HIDE DEF o
  <2>3. Answers(d)
    BY <1>1, <2>1, <2>2, ReplyAnswers
  <2>4. /\ \A k \in 1..Len(d) : c = conn /\ d[k] = o[1]
        /\ c = conn => 1 \in 1..Len(d) /\ d[1] = o[1]
    BY <2>1, OneArrives
  <2> HIDE DEF d
  <2>5. \A q \in Port : q # p /\ exports[q].owner # 0 => Unread(exports[q].owner)
    BY <1>1, <1>5, <1>7, <2>0 DEF Owners
  <2>6. conn # 0 /\ exports[p].owner = conn => \E k \in 1..Len(d) : News(d[k], exports[p].stream)
    BY <1>9, <2>0, <2>1, <2>4
  <2>7. \A k \in 1..Len(d) : ~IsOpened(d[k]) /\ ~IsFrame(d[k])
    BY <2>1, <2>4
  <2>8. ServerStep(d)
    BY <1>1, <1>2, <1>4, <1>9, <2>0, <2>3, <2>5, <2>6, <2>7, LeavesStep
  <2> QED
    BY <2>8
<1>10. ASSUME NEW p \in owned(c), exports[p].stream = m.stream, may,
              exports[p].pending = NoBlock, m.seq = exports[p].tx_seq + 1,
              exports' = [exports EXCEPT ![p].pending = m.block, ![p].tx_seq = m.seq], UNCHANGED down
       PROVE  \E d : ServerStep(d)
  <2>0. p \in Port /\ exports[p].owner = c
    BY DEF owned
  <2> DEFINE x == exports[p]
             y == [x EXCEPT !.pending = m.block, !.tx_seq = m.seq]
             d == <<>>
  <2>1. x \in Device /\ Fits(x)
    BY <1>1, <1>5, <2>0 DEF Shape, Buffered, Fits
  <2>2. exports' = [exports EXCEPT ![p] = y]
    BY <1>10
  <2>3. /\ y \in Device /\ y.owner = x.owner /\ y.stream = x.stream /\ y.tx_seq = m.seq
        /\ y.pending = m.block /\ y.rx_seq = x.rx_seq /\ y.rx_pending = x.rx_pending
        /\ y.buffer = x.buffer /\ y.read = x.read
    <3> HIDE DEF x
    <3> QED
      BY <1>6, <2>1 DEF Device
  <2>4. exports'[p] = y
    BY <1>1, <2>0, <2>2 DEF Shape
  <2> HIDE DEF y
  <2>5. Takes(p, m) /\ RxStays(p)
    BY <1>2, <1>4, <1>5, <1>10, <2>0, <2>3, <2>4 DEF Takes, RxStays, SameUser
  <2>6. PortStep(p) /\ RxStep(p)
    BY <1>10, <2>5 DEF PortStep, RxStep
  <2>7. Fits(y)
    BY <2>1, <2>3 DEF Fits
  <2>8. y.tx_seq # 0
    <3>1. exports[p].tx_seq \in Nat
      BY <1>1, <2>0, DeviceFacts
    <3> QED
      BY <1>10, <2>3, <3>1
  <2>9. Answers(d) /\ Len(d) = 0
    BY <1>1, <1>10, NoAnswer
  <2> HIDE DEF d
  <2>10. \A k \in 1..Len(d) : ~IsFrame(d[k]) /\ ~IsOpened(d[k])
    BY <2>9
  <2>11. wrote' \in [Port -> Seq(Entry)] /\ \A q \in Port : q # p => wrote'[q] = wrote[q]
    BY <1>1, <1>2 DEF Shape
  <2>12. \A q \in Port : q # p /\ exports[q].owner # 0 => Unread(exports[q].owner)
    BY <1>1, <1>5, <1>7, <2>0 DEF Owners
  <2>13. ServerStep(d)
    BY <1>1, <1>2, <1>4, <1>5, <2>0, <2>2, <2>3, <2>6, <2>7, <2>8, <2>9, <2>10, <2>11, <2>12, SameUserStep
  <2> QED
    BY <2>13
<1>11. \/ {p \in owned(c) : exports[p].stream = m.stream /\ may} = {} /\ UNCHANGED <<exports, down>>
       \/ \E p \in owned(c) : /\ exports[p].stream = m.stream /\ may
                              /\ Reply(c, Error(m.stream)) /\ exports' = [exports EXCEPT ![p] = close_port(p)]
       \/ \E p \in owned(c) : /\ exports[p].stream = m.stream /\ may
                              /\ exports[p].pending = NoBlock /\ m.seq = exports[p].tx_seq + 1
                              /\ exports' = [exports EXCEPT ![p].pending = m.block, ![p].tx_seq = m.seq]
                              /\ UNCHANGED down
  BY DEF frame
<1> QED
  BY <1>8, <1>9, <1>10, <1>11

\* ServerReads as a whole.
LEMMA ServerReadsSteps ==
  ASSUME SerialInv, NEW c \in Conn, NEW fails \in BOOLEAN, ServerReads(c, fails)
  PROVE  \E d : ServerStep(d)
<1> DEFINE m == Head(up[c])
<1>1. Reading(c, fails)
  BY DEF ServerReads, Reading
<1>2. up[c] \in Seq(ToServer) /\ up[c] # <<>>
  BY DEF SerialInv, Shape, ServerReads
<1>3. m \in ToServer
  BY <1>2, TailPopped
<1>4. CASE m.cmd = "open"
  <2>1. open(c, m.port, fails)
    BY <1>4 DEF ServerReads
  <2>2. m.port \in Port /\ ~IsFrame(m)
    BY <1>3, <1>4 DEF ToServer, IsFrame
  <2> QED
    BY <1>1, <2>1, <2>2, OpenSteps
<1>5. CASE m.cmd = "frame"
  <2>1. frame(c, m) /\ IsFrame(m)
    BY <1>5 DEF ServerReads, IsFrame
  <2> QED
    BY <1>1, <2>1, FrameReadSteps
<1>6. CASE m.cmd \in {"close", "read"}
  <2>1. request(c, m)
    BY <1>6 DEF ServerReads
  <2> QED
    BY <1>1, <1>6, <2>1, RequestSteps
<1> QED
  BY <1>3, <1>4, <1>5, <1>6 DEF ToServer

\* closed.
LEMMA ClosedSteps ==
  ASSUME SerialInv, NEW c \in Conn, closed(c)
  PROVE  \E d : ServerStep(d)
<1>1. Shape /\ Connections /\ Owners /\ Buffered
  BY DEF SerialInv, HInv
<1>2. /\ c # conn /\ sessions' = sessions \ {c} /\ up' = [up EXCEPT ![c] = <<>>]
      /\ exports' = [p \in Port |-> IF exports[p].owner = c THEN close_port(p) ELSE exports[p]]
      /\ UNCHANGED <<issued, may, b, active, conn, conns, down, typed, upsets, wrote, heard>>
  BY DEF closed
<1>3. c # 0
  BY SerialAssumption DEF Conn
<1>4. up' \in [Conn -> Seq(ToServer)] /\ up'[c] = <<>> /\ \A k \in Conn : k # c => up'[k] = up[k]
  <2>1. up \in [Conn -> Seq(ToServer)] /\ <<>> \in Seq(ToServer)
    BY <1>1 DEF Shape
  <2> QED
    BY <1>2, <2>1
<1>5. ServerFrame
  <2>1. \A k \in Conn : Shrinks(k)
    BY <1>4 DEF Shrinks
  <2>2. issued' \in [Conn -> Nat] /\ issued' \in [Conn -> 0..Streams] /\ \A k \in Conn : issued[k] <= issued'[k]
    BY <1>1, <1>2, SerialAssumption DEF Shape
  <2>3. ServerKeeps
    BY <1>2, <1>4, <2>1, <2>2 DEF ServerKeeps
  <2>4. sessions' \subseteq Conn /\ upsets' \in 0..MaxUpsets
    BY <1>1, <1>2 DEF Shape
  <2> QED
    BY <1>2, <2>2, <2>3, <2>4 DEF ServerFrame
<1>6. \A q \in Port : exports[q].owner # 0 /\ exports[q].owner # c => Unread(exports[q].owner)
  BY <1>1, <1>4, DeviceFacts DEF Unread
<1> DEFINE d == <<>>
<1>7. Answers(d) /\ Len(d) = 0
  BY <1>1, <1>2, NoAnswer
<1> HIDE DEF d
<1>8. \A k \in 1..Len(d) : ~IsFrame(d[k]) /\ ~IsOpened(d[k])
  BY <1>7
<1>9. CASE \A p \in Port : exports[p].owner # c
  <2>1. exports' = exports
    BY <1>1, <1>2, <1>9 DEF Shape
  <2>2. \A q \in Port : may /\ exports[q].owner # 0 /\ exports[q].tx_seq # 0 => Unread(exports[q].owner)
    BY <1>6, <1>9
  <2>3. ServerStep(d)
    BY <1>1, <1>2, <1>5, <1>7, <1>8, <2>1, <2>2, IdleStep
  <2> QED
    BY <2>3
<1>10. CASE \E p \in Port : exports[p].owner = c
  <2>1. PICK p \in Port : exports[p].owner = c
    BY <1>10
  <2>2. \A q \in Port : exports[q].owner = c => q = p
    BY <1>1, <1>3, <2>1 DEF Owners
  <2>3. exports' = [exports EXCEPT ![p] = close_port(p)]
    BY <1>1, <1>2, <2>1, <2>2 DEF Shape
  <2>4. \A q \in Port : q # p /\ exports[q].owner # 0 => Unread(exports[q].owner)
    BY <1>6, <2>2
  <2>5. ~(conn # 0 /\ exports[p].owner = conn)
    BY <1>2, <2>1
  <2>6. ServerStep(d)
    BY <1>1, <1>2, <1>5, <1>7, <1>8, <2>3, <2>4, <2>5, LeavesStep
  <2> QED
    BY <2>6
<1> QED
  BY <1>9, <1>10

----------------------------------------------------------------------------
(* rrserver_serial_poll *)

\* The device after a read of one more block, or of none.
LEMMA ReadFits ==
  ASSUME NEW x \in Device, Fits(x), NEW z, z = ReadIn(x)
  PROVE  /\ z \in Device /\ Fits(z) /\ z.owner = x.owner /\ z.stream = x.stream
         /\ z.tx_seq = x.tx_seq /\ z.pending = x.pending
         /\ z.rx_seq = x.rx_seq /\ z.rx_pending = x.rx_pending
<1>1. CASE ~(Len(x.buffer) < BufferLimit /\ x.read < MaxRead)
  <2>1. z = x
    BY <1>1 DEF ReadIn
  <2> QED
    BY <2>1
<1>2. CASE Len(x.buffer) < BufferLimit /\ x.read < MaxRead
  <2> DEFINE n == x.read + 1
             q == Append(x.buffer, n)
  <2>1. x.read \in Nat /\ x.rx_seq \in Nat /\ x.buffer \in Seq(Nat) /\ n \in Nat
    BY DEF Device
  <2>2. q \in Seq(Nat) /\ Len(q) = Len(x.buffer) + 1 /\ Len(x.buffer) \in Nat
        /\ q[Len(x.buffer) + 1] = n /\ \A i \in 1..Len(x.buffer) : q[i] = x.buffer[i]
    BY <2>1, AppendElems
  <2>3. z = [x EXCEPT !.buffer = q, !.read = n]
    BY <1>2 DEF ReadIn
  <2> HIDE DEF q, n
  <2>4. /\ z \in Device /\ z.owner = x.owner /\ z.stream = x.stream
        /\ z.tx_seq = x.tx_seq /\ z.pending = x.pending
        /\ z.rx_seq = x.rx_seq /\ z.rx_pending = x.rx_pending
        /\ z.buffer = q /\ z.read = n
    BY <2>1, <2>2, <2>3 DEF Device
  <2>5. Fits(z)
    <3>1. n = x.rx_seq + Len(q) /\ n <= MaxRead
      BY <1>2, <2>1, <2>2, SerialAssumption, SMTT(30) DEF Fits, n
    <3>2. \A i \in 1..Len(q) : q[i] = x.rx_seq + i
      <4> TAKE i \in 1..Len(q)
      <4>1. CASE i = Len(q)
        BY <2>1, <2>2, <3>1, <4>1
      <4>2. CASE i # Len(q)
        <5>1. i \in 1..Len(x.buffer)
          BY <2>2, <4>2
        <5> QED
          BY <2>2, <5>1 DEF Fits
      <4> QED
        BY <4>1, <4>2
    <3> QED
      BY <2>4, <3>1, <3>2 DEF Fits
  <2> QED
    BY <2>4, <2>5
<1> QED
  BY <1>1, <1>2

\* The device after its first buffered block was sent on.
LEMMA SendFits ==
  ASSUME NEW x \in Device, Fits(x), CanSend(x), NEW w, w = SendsOn(x)
  PROVE  /\ w \in Device /\ Fits(w) /\ w.owner = x.owner /\ w.stream = x.stream
         /\ w.tx_seq = x.tx_seq /\ w.pending = x.pending
         /\ w.rx_seq = x.rx_seq + 1 /\ w.rx_pending
         /\ Head(x.buffer) = x.rx_seq + 1 /\ x.rx_seq + 1 <= MaxRead
<1> DEFINE n == x.rx_seq + 1
           t == Tail(x.buffer)
<1>1. x.read \in Nat /\ x.rx_seq \in Nat /\ x.buffer \in Seq(Nat) /\ n \in Nat /\ x.buffer # <<>>
  BY DEF Device, CanSend
<1>2. /\ t \in Seq(Nat) /\ Head(x.buffer) = x.buffer[1] /\ Len(x.buffer) \in Nat \ {0}
      /\ Len(t) = Len(x.buffer) - 1
      /\ \A i \in 1..Len(t) : t[i] = x.buffer[i + 1] /\ i + 1 \in 1..Len(x.buffer)
  BY <1>1, TailElems
<1>3. w = [x EXCEPT !.rx_seq = n, !.rx_pending = TRUE, !.buffer = t]
  BY DEF SendsOn
<1>4. 1 \in 1..Len(x.buffer)
  BY <1>2
<1>5. x.buffer[1] = x.rx_seq + 1
  BY <1>4 DEF Fits
<1>6. n <= MaxRead
  BY <1>1, <1>2, SerialAssumption DEF Fits
<1> HIDE DEF t
<1>7. /\ w \in Device /\ w.owner = x.owner /\ w.stream = x.stream
      /\ w.tx_seq = x.tx_seq /\ w.pending = x.pending
      /\ w.rx_seq = n /\ w.rx_pending /\ w.buffer = t /\ w.read = x.read
  BY <1>1, <1>2, <1>3 DEF Device
<1>8. Fits(w)
  <2> DEFINE a == x.rx_seq
             l == Len(x.buffer)
             k == Len(t)
  <2>0. a \in Nat /\ l \in Nat \ {0} /\ k = l - 1 /\ k \in Nat /\ n = a + 1 /\ x.read = a + l
    BY <1>1, <1>2 DEF Fits
  <2>1. x.read = n + Len(t) /\ x.read <= MaxRead
    <3>1. x.read <= MaxRead
      BY DEF Fits
    <3> HIDE DEF a, l, n
    <3>2. x.read = n + k
      BY <2>0
    <3> QED
      BY <3>1, <3>2
  <2>2. \A i \in 1..Len(t) : t[i] = n + i
    <3> TAKE i \in 1..Len(t)
    <3>0. i \in Nat
      BY <2>0
    <3>1. t[i] = x.buffer[i + 1] /\ i + 1 \in 1..Len(x.buffer)
      BY <1>2
    <3>2. x.buffer[i + 1] = x.rx_seq + (i + 1)
      BY <3>1 DEF Fits
    <3>3. a + (i + 1) = n + i
      BY <2>0, <3>0
    <3> QED
      BY <3>1, <3>2, <3>3
  <2> QED
    BY <1>7, <2>1, <2>2 DEF Fits
<1> QED
  BY <1>2, <1>5, <1>6, <1>7, <1>8

\* The device after its pending block was written, or not.
LEMMA DoneFits ==
  ASSUME NEW x \in Device, Fits(x), NEW y, y = [x EXCEPT !.pending = NoBlock]
  PROVE  /\ y \in Device /\ Fits(y) /\ y.owner = x.owner /\ y.stream = x.stream
         /\ y.tx_seq = x.tx_seq /\ y.pending = NoBlock
         /\ y.rx_seq = x.rx_seq /\ y.rx_pending = x.rx_pending
<1>1. y \in Device /\ y.pending = NoBlock
  BY DEF Device
<1>2. /\ y.owner = x.owner /\ y.stream = x.stream /\ y.tx_seq = x.tx_seq
      /\ y.rx_seq = x.rx_seq /\ y.rx_pending = x.rx_pending
      /\ y.buffer = x.buffer /\ y.read = x.read
  BY DEF Device
<1> QED
  BY <1>1, <1>2 DEF Fits

\* A poll leaves the messages to the server alone.
LEMMA PollFrame ==
  ASSUME Shape, Owners, NEW fails \in BOOLEAN, Perhaps(fails),
         UNCHANGED <<issued, sessions, may, b, active, conn, conns, up, typed, heard>>
  PROVE  /\ ServerFrame
         /\ \A q \in Port : exports[q].owner # 0 => Unread(exports[q].owner)
<1>1. upsets' \in 0..MaxUpsets
  BY PerhapsBounded
<1>2. issued' \in [Conn -> Nat] /\ issued' \in [Conn -> 0..Streams] /\ \A k \in Conn : issued[k] <= issued'[k]
  BY SerialAssumption DEF Shape
<1>3. \A k \in Conn : Shrinks(k) /\ Unread(k)
  BY DEF Shrinks, Unread
<1>4. up' \in [Conn -> Seq(ToServer)] /\ sessions' \subseteq Conn
  BY DEF Shape
<1>5. ServerKeeps
  BY <1>2, <1>3, <1>4 DEF ServerKeeps
<1> QED
  BY <1>1, <1>2, <1>3, <1>4, <1>5, DeviceFacts DEF ServerFrame

\* The acknowledgement of a block that was written, if one was.
LEMMA DoneAnswer ==
  ASSUME NEW s \in Nat, NEW n \in Nat, NEW writes \in BOOLEAN, NEW o,
         o = IF writes THEN <<[cmd |-> "written", stream |-> s, seq |-> n]>> ELSE <<>>
  PROVE  /\ o \in Seq(ToClient)
         /\ \A k \in 1..Len(o) : ~IsFrame(o[k]) /\ ~IsOpened(o[k])
<1>1. CASE writes
  <2> DEFINE m == [cmd |-> "written", stream |-> s, seq |-> n]
  <2>1. m \in ToClient /\ ~IsFrame(m) /\ ~IsOpened(m)
    BY DEF ToClient, IsFrame, IsOpened
  <2>2. o = <<m>>
    BY <1>1
  <2> HIDE DEF m
  <2>3. o \in Seq(ToClient) /\ Len(o) = 1 /\ o[1] = m
    BY <2>1, <2>2, OneAnswer
  <2> QED
    BY <2>1, <2>3
<1>2. CASE ~writes
  <2>1. o = <<>>
    BY <1>2
  <2> QED
    BY <2>1
<1> QED
  BY <1>1, <1>2

\* The answers d to connection c are o and, last, one more.
Then(c, o, m, d) ==
  /\ \A k \in 1..Len(d) : c = conn /\ ((k = Len(d) /\ d[k] = m) \/ \E i \in 1..Len(o) : d[k] = o[i])
  /\ c = conn => Len(d) \in 1..Len(d) /\ d[Len(d)] = m

\* A further answer behind those.
LEMMA MoreArrives ==
  ASSUME NEW c, NEW o \in Seq(ToClient), NEW t \in Seq(ToClient), Len(t) = 1,
         NEW r, r = o \o t, NEW d, d = IF c = conn THEN r ELSE <<>>
  PROVE  r \in Seq(ToClient) /\ Then(c, o, t[1], d)
<1>1. /\ r \in Seq(ToClient) /\ Len(r) = Len(o) + 1 /\ Len(o) \in Nat
      /\ \A i \in 1..(Len(o) + 1) : r[i] = IF i <= Len(o) THEN o[i] ELSE t[i - Len(o)]
  <2>1. /\ o \o t \in Seq(ToClient) /\ Len(o \o t) = Len(o) + Len(t) /\ Len(o) \in Nat
        /\ \A i \in 1..(Len(o) + Len(t)) : (o \o t)[i] = IF i <= Len(o) THEN o[i] ELSE t[i - Len(o)]
    BY ConcatElems, Zenon
  <2> QED
    BY <2>1, Zenon
<1>2. CASE c = conn
  <2>1. d = r
    BY <1>2
  <2>2. r[Len(r)] = t[1] /\ Len(r) \in 1..Len(r)
    <3>1. Len(o) + 1 \in 1..(Len(o) + 1) /\ ~(Len(o) + 1 <= Len(o)) /\ (Len(o) + 1) - Len(o) = 1
      BY <1>1
    <3>2. r[Len(o) + 1] = t[(Len(o) + 1) - Len(o)]
      BY <1>1, <3>1
    <3> QED
      BY <1>1, <3>1, <3>2
  <2>3. \A k \in 1..Len(r) : k # Len(r) => k \in 1..Len(o) /\ r[k] = o[k]
    <3> SUFFICES ASSUME NEW k \in 1..Len(r), k # Len(r) PROVE k \in 1..Len(o) /\ r[k] = o[k]
      OBVIOUS
    <3>1. k \in 1..Len(o) /\ k <= Len(o) /\ k \in 1..(Len(o) + 1)
      BY <1>1
    <3> QED
      BY <1>1, <3>1
  <2> QED
    BY <1>1, <1>2, <2>1, <2>2, <2>3 DEF Then
<1>3. CASE c # conn
  <2>1. d = <<>>
    BY <1>3
  <2>2. Len(d) = 0
    BY <2>1
  <2> QED
    BY <1>1, <1>3, <2>2 DEF Then
<1> QED
  BY <1>2, <1>3

\* The device has written, or not, and keeps its user.
LEMMA PollPort ==
  ASSUME Shape, Owners, NEW p \in Port, exports[p].owner # 0,
         NEW writes \in BOOLEAN, writes => exports[p].pending # NoBlock,
         IF writes THEN WritesOut(p) ELSE UNCHANGED wrote,
         UNCHANGED up,
         NEW w, exports'[p] = w, w.owner = exports[p].owner, w.stream = exports[p].stream,
         w.tx_seq = exports[p].tx_seq,
         writes => w.pending = NoBlock, ~writes => w.pending = exports[p].pending
  PROVE  /\ PortStep(p) /\ wrote' \in [Port -> Seq(Entry)] /\ \A q \in Port : q # p => wrote'[q] = wrote[q]
<1>1. /\ exports[p].owner \in Nat /\ exports[p].stream \in Nat
      /\ exports[p].pending \in Nat \cup {NoBlock} /\ wrote[p] \in Seq(Entry)
      /\ wrote \in [Port -> Seq(Entry)]
  BY DeviceFacts DEF Shape
<1>2. CASE ~writes
  <2>1. Stays(p)
    BY <1>2 DEF Stays, SameUser, Unread
  <2> QED
    BY <1>1, <1>2, <2>1 DEF PortStep
<1>3. CASE writes
  <2> DEFINE r == [conn |-> exports[p].owner, stream |-> exports[p].stream, block |-> exports[p].pending]
             t == Append(wrote[p], r)
  <2>1. r \in Entry
    BY <1>1, <1>3 DEF Entry
  <2>2. wrote' = [wrote EXCEPT ![p] = t]
    BY <1>3 DEF WritesOut
  <2> HIDE DEF r
  <2>3. t \in Seq(Entry)
    BY <1>1, <2>1
  <2> HIDE DEF t
  <2>4. wrote'[p] = t /\ wrote' \in [Port -> Seq(Entry)] /\ \A q \in Port : q # p => wrote'[q] = wrote[q]
    BY <1>1, <2>2, <2>3
  <2>5. Writes(p)
    BY <1>3, <2>4 DEF Writes, SameUser, t, r
  <2> QED
    BY <2>4, <2>5 DEF PortStep
<1> QED
  BY <1>2, <1>3

\* rrserver_serial_poll, for one device.
LEMMA PollSteps ==
  ASSUME SerialInv, NEW p \in Port, NEW writes \in BOOLEAN, NEW reads \in BOOLEAN,
         NEW ready \in BOOLEAN, NEW fails \in BOOLEAN, poll(p, writes, reads, ready, fails)
  PROVE  \E d : ServerStep(d)
<1>1. Shape /\ Connections /\ Owners /\ Buffered
  BY DEF SerialInv, HInv
<1> DEFINE x == exports[p]
           c == x.owner
           o == IF writes THEN <<[cmd |-> "written", stream |-> x.stream, seq |-> x.tx_seq]>> ELSE <<>>
           y == IF writes THEN [x EXCEPT !.pending = NoBlock] ELSE x
           z == IF reads THEN ReadIn(y) ELSE y
<1>2. /\ c # 0 /\ (writes => x.pending # NoBlock) /\ Perhaps(fails)
      /\ UNCHANGED <<issued, sessions, may, b, active, conn, conns, up, typed, heard>>
  BY DEF poll
<1>3. ServerFrame /\ \A q \in Port : exports[q].owner # 0 => Unread(exports[q].owner)
  BY <1>1, <1>2, PollFrame
<1>4. /\ x \in Device /\ Fits(x) /\ x.stream \in Nat /\ x.tx_seq \in Nat /\ x.rx_seq \in Nat /\ c \in Conn
      /\ (x.pending # NoBlock => x.tx_seq # 0)
  BY <1>1, <1>2, DeviceFacts DEF Buffered, Fits, Owners
<1>5. o \in Seq(ToClient) /\ \A k \in 1..Len(o) : ~IsFrame(o[k]) /\ ~IsOpened(o[k])
  BY <1>4, DoneAnswer
<1>6. /\ z \in Device /\ Fits(z) /\ z.owner = c /\ z.stream = x.stream /\ z.tx_seq = x.tx_seq
      /\ z.rx_seq = x.rx_seq /\ z.rx_pending = x.rx_pending
      /\ (writes => z.pending = NoBlock) /\ (~writes => z.pending = x.pending)
  <2> HIDE DEF x
  <2>1. /\ y \in Device /\ Fits(y) /\ y.owner = c /\ y.stream = x.stream /\ y.tx_seq = x.tx_seq
        /\ y.rx_seq = x.rx_seq /\ y.rx_pending = x.rx_pending
        /\ (writes => y.pending = NoBlock) /\ (~writes => y.pending = x.pending)
    <3>1. CASE writes
      <4>1. y = [x EXCEPT !.pending = NoBlock]
        BY <3>1
      <4> HIDE DEF y
      <4> QED
        BY <1>4, <3>1, <4>1, DoneFits
    <3>2. CASE ~writes
      <4>1. y = x
        BY <3>2
      <4> HIDE DEF y
      <4> QED
        BY <1>4, <3>2, <4>1
    <3> QED
      BY <3>1, <3>2
  <2> HIDE DEF y
  <2>2. CASE reads
    <3>1. z = ReadIn(y)
      BY <2>2
    <3> HIDE DEF z
    <3> QED
      BY <2>1, <3>1, ReadFits
  <2>3. CASE ~reads
    <3>1. z = y
      BY <2>3
    <3> HIDE DEF z
    <3> QED
      BY <2>1, <3>1
  <2> QED
    BY <2>2, <2>3
<1> DEFINE f == [cmd |-> "frame", stream |-> z.stream, seq |-> z.rx_seq + 1, block |-> Head(z.buffer)]
<1>7. \/ /\ Reply(c, ClosedReply(p)) /\ exports' = [exports EXCEPT ![p] = close_port(p)] /\ UNCHANGED wrote
      \/ /\ writes /\ WritesOut(p)
         /\ Reply(c, o \o ClosedReply(p)) /\ exports' = [exports EXCEPT ![p] = close_port(p)]
      \/ /\ IF writes THEN WritesOut(p) ELSE UNCHANGED wrote
         /\ CanSend(z) /\ Reply(c, o \o <<f>>) /\ exports' = [exports EXCEPT ![p] = SendsOn(z)]
      \/ /\ IF writes THEN WritesOut(p) ELSE UNCHANGED wrote
         /\ Reply(c, o) /\ exports' = [exports EXCEPT ![p] = z]
  BY Zenon DEF poll
<1>8. CASE /\ Reply(c, ClosedReply(p)) /\ exports' = [exports EXCEPT ![p] = close_port(p)] /\ UNCHANGED wrote
  <2> DEFINE t == ClosedReply(p)
             d == IF c = conn THEN t ELSE <<>>
  <2>1. t \in Seq(ToClient) /\ Len(t) = 1 /\ News(t[1], x.stream) /\ ~IsFrame(t[1]) /\ ~IsOpened(t[1])
    BY <1>1, ClosedAnswer
  <2>2. Reply(c, t)
    BY <1>8
  <2> HIDE DEF t
  <2>3. Answers(d)
    BY <1>1, <1>4, <2>1, <2>2, ReplyAnswers
  <2>4. /\ \A k \in 1..Len(d) : c = conn /\ d[k] = t[1]
        /\ c = conn => 1 \in 1..Len(d) /\ d[1] = t[1]
    BY <2>1, OneArrives
  <2> HIDE DEF d
  <2>5. conn # 0 /\ exports[p].owner = conn => \E k \in 1..Len(d) : News(d[k], exports[p].stream)
    BY <2>1, <2>4
  <2>6. \A k \in 1..Len(d) : ~IsOpened(d[k]) /\ ~IsFrame(d[k])
    BY <2>1, <2>4
  <2>7. ServerStep(d)
    BY <1>1, <1>2, <1>3, <1>8, <2>3, <2>5, <2>6, LeavesStep
  <2> QED
    BY <2>7
<1>9. CASE /\ writes /\ WritesOut(p)
           /\ Reply(c, o \o ClosedReply(p)) /\ exports' = [exports EXCEPT ![p] = close_port(p)]
  <2> DEFINE t == ClosedReply(p)
             r == o \o t
             d == IF c = conn THEN r ELSE <<>>
             w == close_port(p)
  <2>1. t \in Seq(ToClient) /\ Len(t) = 1 /\ News(t[1], x.stream) /\ ~IsFrame(t[1]) /\ ~IsOpened(t[1])
    BY <1>1, ClosedAnswer
  <2>2. Reply(c, r)
    BY <1>9
  <2> HIDE DEF t, o
  <2>a. r = o \o t /\ d = IF c = conn THEN r ELSE <<>>
    OBVIOUS
  <2> HIDE DEF r, d
  <2>b. r \in Seq(ToClient) /\ Then(c, o, t[1], d)
    BY <1>5, <2>a, <2>1, MoreArrives
  <2>3. /\ r \in Seq(ToClient)
        /\ \A k \in 1..Len(d) : c = conn /\ ((k = Len(d) /\ d[k] = t[1]) \/ \E i \in 1..Len(o) : d[k] = o[i])
        /\ c = conn => Len(d) \in 1..Len(d) /\ d[Len(d)] = t[1]
    BY <2>b DEF Then
  <2>4. Answers(d)
    BY <1>1, <1>4, <2>a, <2>2, <2>3, ReplyAnswers
  <2>5. conn # 0 /\ exports[p].owner = conn => \E k \in 1..Len(d) : News(d[k], exports[p].stream)
    BY <2>1, <2>3
  <2>6. \A k \in 1..Len(d) : ~IsOpened(d[k]) /\ ~IsFrame(d[k])
    BY <1>5, <2>1, <2>3
  <2>7. w \in Device /\ w.owner = 0 /\ Empty(w)
    BY <1>1, ClosedFields
  <2>8. exports'[p] = w /\ exports' = [exports EXCEPT ![p] = w]
    BY <1>1, <1>9 DEF Shape
  <2> HIDE DEF w
  <2>9. wrote' \in [Port -> Seq(Entry)] /\ \A q \in Port : q # p => wrote'[q] = wrote[q]
    <3> DEFINE e == [conn |-> c, stream |-> x.stream, block |-> x.pending]
    <3>1. e \in Entry
      <4>1. x.pending \in Nat /\ c \in Nat
        BY <1>1, <1>2, <1>9, DeviceFacts
      <4> QED
        BY <1>4, <4>1 DEF Entry
    <3>2. wrote \in [Port -> Seq(Entry)] /\ wrote[p] \in Seq(Entry)
      BY <1>1 DEF Shape
    <3>3. wrote' = [wrote EXCEPT ![p] = Append(wrote[p], e)]
      BY <1>9 DEF WritesOut
    <3> HIDE DEF e
    <3>4. Append(wrote[p], e) \in Seq(Entry)
      BY <3>1, <3>2
    <3> QED
      BY <3>2, <3>3, <3>4
  <2>10. Writes(p)
    <3>1. wrote'[p] = Append(wrote[p], [conn |-> c, stream |-> x.stream, block |-> x.pending])
      BY <1>1, <1>9 DEF WritesOut, Shape
    <3> QED
      BY <1>2, <1>9, <2>7, <2>8, <3>1 DEF Writes, Empty
  <2>11. PortStep(p) /\ RxStep(p)
    BY <2>7, <2>8, <2>10 DEF PortStep, RxStep
  <2>12. w.owner <= conns /\ w.pending = NoBlock
    BY <1>1, <2>7, SerialAssumption DEF Shape, Empty
  <2>13. ServerStep(d)
    BY <1>1, <1>2, <1>3, <2>4, <2>5, <2>6, <2>7, <2>8, <2>9, <2>11, <2>12, OneDevice
  <2> QED
    BY <2>13
<1>10. CASE /\ IF writes THEN WritesOut(p) ELSE UNCHANGED wrote
            /\ CanSend(z) /\ Reply(c, o \o <<f>>) /\ exports' = [exports EXCEPT ![p] = SendsOn(z)]
  <2> DEFINE t == <<f>>
             r == o \o t
             d == IF c = conn THEN r ELSE <<>>
             w == SendsOn(z)
  <2>1. exports' = [exports EXCEPT ![p] = w] /\ Reply(c, r) /\ CanSend(z)
    BY <1>10
  <2> HIDE DEF z, o
  <2>2. /\ w \in Device /\ Fits(w) /\ w.owner = z.owner /\ w.stream = z.stream
        /\ w.tx_seq = z.tx_seq /\ w.pending = z.pending
        /\ w.rx_seq = z.rx_seq + 1 /\ w.rx_pending
        /\ Head(z.buffer) = z.rx_seq + 1 /\ z.rx_seq + 1 <= MaxRead
    BY <1>6, <2>1, SendFits
  <2> HIDE DEF w
  <2>3. /\ f \in ToClient /\ IsFrame(f) /\ ~IsOpened(f) /\ f.stream = x.stream
        /\ f.seq = x.rx_seq + 1 /\ f.block = f.seq /\ f.seq <= MaxRead
    BY <1>4, <1>6, <2>2 DEF ToClient, IsFrame, IsOpened
  <2> HIDE DEF f
  <2>4. t \in Seq(ToClient) /\ Len(t) = 1 /\ t[1] = f
    BY <2>3, OneAnswer
  <2> HIDE DEF t
  <2>a. r = o \o t /\ d = IF c = conn THEN r ELSE <<>>
    OBVIOUS
  <2> HIDE DEF r, d
  <2>b. r \in Seq(ToClient) /\ Then(c, o, t[1], d)
    BY <1>5, <2>a, <2>4, MoreArrives
  <2>5. /\ r \in Seq(ToClient)
        /\ \A k \in 1..Len(d) : c = conn /\ ((k = Len(d) /\ d[k] = t[1]) \/ \E i \in 1..Len(o) : d[k] = o[i])
    BY <2>b DEF Then
  <2>6. Answers(d)
    BY <1>1, <1>4, <2>a, <2>1, <2>5, ReplyAnswers
  <2>7. exports'[p] = w
    BY <1>1, <2>1 DEF Shape
  <2>8. PortStep(p) /\ wrote' \in [Port -> Seq(Entry)] /\ \A q \in Port : q # p => wrote'[q] = wrote[q]
    BY <1>1, <1>2, <1>6, <1>10, <2>2, <2>7, PollPort
  <2>9. RxSends(p) /\ RxStep(p)
    <3>1. ~z.rx_pending
      BY <2>1 DEF CanSend
    <3> QED
      BY <1>2, <1>6, <2>2, <2>7, <3>1 DEF RxSends, SameUser, RxStep
  <2>10. \A k \in 1..Len(d) : ~IsOpened(d[k])
    BY <1>5, <2>3, <2>4, <2>5
  <2>11. \A k \in 1..Len(d) : IsFrame(d[k]) =>
           /\ k = Len(d) /\ d[k].block = d[k].seq /\ d[k].seq <= MaxRead
           /\ RxSends(p) /\ exports[p].owner = conn
           /\ d[k].stream = exports[p].stream /\ d[k].seq = exports[p].rx_seq + 1
    <3> SUFFICES ASSUME NEW k \in 1..Len(d), IsFrame(d[k])
                 PROVE  k = Len(d) /\ d[k] = f /\ c = conn
      BY <2>3, <2>9
    <3> QED
      BY <1>5, <2>4, <2>5
  <2>12. w.owner = exports[p].owner /\ w.stream = exports[p].stream /\ (w.pending # NoBlock => w.tx_seq # 0)
    BY <1>4, <1>6, <2>2
  <2>13. ServerStep(d)
    BY <1>1, <1>2, <1>3, <2>1, <2>2, <2>6, <2>8, <2>9, <2>10, <2>11, <2>12, SameUserStep
  <2> QED
    BY <2>13
<1>11. CASE /\ IF writes THEN WritesOut(p) ELSE UNCHANGED wrote
            /\ Reply(c, o) /\ exports' = [exports EXCEPT ![p] = z]
  <2> DEFINE d == IF c = conn THEN o ELSE <<>>
  <2>1. exports' = [exports EXCEPT ![p] = z] /\ Reply(c, o)
    BY <1>11
  <2> HIDE DEF z, o
  <2>2. Answers(d)
    BY <1>1, <1>4, <1>5, <2>1, ReplyAnswers
  <2>3. \A k \in 1..Len(d) : ~IsOpened(d[k]) /\ ~IsFrame(d[k])
    <3>1. CASE c = conn
      <4>1. d = o
        BY <3>1
      <4> HIDE DEF d
      <4> QED
        BY <1>5, <4>1
    <3>2. CASE c # conn
      <4>1. d = <<>>
        BY <3>2
      <4>2. Len(d) = 0
        BY <4>1
      <4> HIDE DEF d
      <4> QED
        BY <4>2
    <3> QED
      BY <3>1, <3>2
  <2> HIDE DEF d
  <2>4. exports'[p] = z
    BY <1>1, <1>6, <2>1 DEF Shape
  <2>5. PortStep(p) /\ wrote' \in [Port -> Seq(Entry)] /\ \A q \in Port : q # p => wrote'[q] = wrote[q]
    BY <1>1, <1>2, <1>6, <1>11, <2>4, PollPort
  <2>6. RxStep(p)
    BY <1>6, <2>4 DEF RxStays, SameUser, RxStep
  <2>7. z.owner = exports[p].owner /\ z.stream = exports[p].stream /\ (z.pending # NoBlock => z.tx_seq # 0)
    BY <1>4, <1>6
  <2>8. ServerStep(d)
    BY <1>1, <1>2, <1>3, <1>6, <2>1, <2>2, <2>3, <2>5, <2>6, <2>7, SameUserStep
  <2> QED
    BY <2>8
<1> QED
  BY <1>7, <1>8, <1>9, <1>10, <1>11

----------------------------------------------------------------------------
(* The invariant *)

\* The program starts with nothing attached.
LEMMA InitInv ==
  ASSUME Init
  PROVE  SerialInv
<1>1. PICK p \in Port : b = Unattached(p)
  BY DEF Init
<1>2. /\ b \in Bind /\ b.stream = 0 /\ b.tx_seq = 0 /\ b.rx_seq = 0 /\ ~b.opening
      /\ b.host_pending = <<>> /\ ~b.rx_pending
  BY <1>1, UnattachedFields
<1>3. /\ Closed \in Device /\ Closed.owner = 0 /\ Closed.pending = NoBlock /\ Closed.buffer = <<>>
      /\ Closed.read = 0 /\ ~Closed.rx_pending /\ Closed.tx_seq = 0
  <2>1. <<>> \in Seq(Nat)
    OBVIOUS
  <2> QED
    BY <2>1 DEF Closed, Device
<1>4. \A q \in Port : exports[q] = Closed
  BY DEF Init
<1>5. /\ exports \in [Port -> Device]
      /\ \A q \in Port : exports[q].owner = 0 /\ exports[q].tx_seq = 0 /\ exports[q].pending = NoBlock
  BY <1>3, <1>4 DEF Init
<1>6. /\ issued = [c \in Conn |-> 0] /\ sessions = {} /\ may = TRUE /\ active = TRUE
      /\ conn = 0 /\ conns = 0 /\ up = [c \in Conn |-> <<>>] /\ down = <<>> /\ typed = 0 /\ upsets = 0
      /\ wrote = [q \in Port |-> <<>>] /\ heard = [conn |-> 0, stream |-> 0, blocks |-> <<>>]
  BY DEF Init, Conn
<1>7. Shape
  <2>1. <<>> \in Seq(ToServer) /\ <<>> \in Seq(ToClient) /\ <<>> \in Seq(Entry) /\ <<>> \in Seq(Nat)
    OBVIOUS
  <2>2. up \in [Conn -> Seq(ToServer)] /\ wrote \in [Port -> Seq(Entry)] /\ down \in Seq(ToClient)
    BY <1>6, <2>1
  <2>3. issued \in [Conn -> 0..Streams]
    BY <1>6, SerialAssumption
  <2>4. heard \in [conn : Nat, stream : Nat, blocks : Seq(Nat)]
    BY <1>6, <2>1
  <2> QED
    BY <1>2, <1>5, <1>6, <2>2, <2>3, <2>4, SerialAssumption DEF Shape
<1>8. /\ \A c \in Conn : up[c] = <<>>
      /\ \A q \in Port : wrote[q] = <<>> /\ Len(wrote[q]) = 0
      /\ Len(down) = 0 /\ heard.conn = 0 /\ Len(heard.blocks) = 0 /\ heard.blocks = <<>>
  BY <1>6
<1>9. Connections
  BY <1>2, <1>6, <1>8 DEF Connections
<1>10. Owners
  BY <1>3, <1>4, <1>6 DEF Owners
<1>11. StreamsGrow
  <2>1. FrameStreams
    BY <1>5, <1>8, NoMessages DEF FrameStreams, Begins
  <2> QED
    BY <1>6, <1>8, <2>1 DEF StreamsGrow, BindingStream, OpenedStreams, HeardStream
<1>12. WInv
  <2>1. Len(b.host_pending) = 0
    BY <1>2
  <2>a. typed = 0 /\ b.tx_seq = 0
    BY <1>2, <1>6
  <2>2. Contiguous /\ Sent = 0
    BY <2>a, <2>1 DEF Contiguous, Queue, Sent
  <2>3. \A c \in Conn : FramesJoined(up[c], Sent)
    BY <1>8, NoMessages
  <2>4. ServerJoined /\ Ledger /\ Accepted
    BY <1>5, <1>8 DEF ServerJoined, Ledger, Accepted
  <2>5. WrittenOnce
    BY <1>8 DEF WrittenOnce
  <2> QED
    BY <1>6, <2>2, <2>3, <2>4, <2>5 DEF WInv
<1>13. HInv
  <2>1. HeardInOrder
    BY <1>8 DEF HeardInOrder
  <2>2. Buffered /\ FramesDown /\ FramesSent /\ ReadsHeard
    BY <1>5, <1>6, <1>8 DEF Buffered, FramesDown, FramesSent, ReadsHeard
  <2>3. Counts
    BY <1>2, <1>8, SerialAssumption DEF Counts
  <2> QED
    BY <2>1, <2>2, <2>3 DEF HInv
<1>14. GInv
  BY <1>6 DEF GInv
<1> QED
  BY <1>7, <1>9, <1>10, <1>11, <1>12, <1>13, <1>14 DEF SerialInv

\* What a step is: of the client, of the server, or one of three that change
\* what both look at.
LEMMA NextKinds ==
  ASSUME SerialInv, Next
  PROVE  \/ \E o, s : ClientStep(o, s)
         \/ \E d : ServerStep(d)
         \/ Authorized \/ Disconnected \/ Privilege
<1>1. Shape /\ Connections /\ Counts /\ Contiguous /\ FramesDown
  BY DEF SerialInv, HInv, WInv
<1>2. ASSUME NEW late \in BOOLEAN, host_tick(late) PROVE \E o, s : ClientStep(o, s)
  BY <1>1, <1>2, TickSteps
<1>3. ASSUME NEW late \in BOOLEAN, receive(late) PROVE \E o, s : ClientStep(o, s)
  BY <1>1, <1>3, ReceiveSteps
<1>4. ASSUME NEW p \in Port, focus_room(p) PROVE \E o, s : ClientStep(o, s)
  BY <1>1, <1>4, FocusSteps
<1>5. ASSUME ModeChange PROVE \E o, s : ClientStep(o, s)
  BY <1>1, <1>5, ModeSteps
<1>6. ASSUME NEW blocked \in BOOLEAN, ClientReads(blocked) PROVE \E o, s : ClientStep(o, s)
  BY <1>1, <1>6, ReadsSteps
<1>7. ASSUME NEW c \in 1..MaxConns, NEW fails \in BOOLEAN, ServerReads(c, fails) PROVE \E d : ServerStep(d)
  BY <1>7, ServerReadsSteps DEF Conn
<1>8. ASSUME NEW c \in 1..MaxConns, closed(c) PROVE \E d : ServerStep(d)
  BY <1>8, ClosedSteps DEF Conn
<1>9. ASSUME NEW p \in Port, NEW writes \in BOOLEAN, NEW reads \in BOOLEAN, NEW ready \in BOOLEAN,
             NEW fails \in BOOLEAN, poll(p, writes, reads, ready, fails)
      PROVE  \E d : ServerStep(d)
  BY <1>9, PollSteps
<1> QED
  BY <1>2, <1>3, <1>4, <1>5, <1>6, <1>7, <1>8, <1>9, Zenon DEF Next

\* Every step keeps the invariant.
LEMMA NextInv ==
  ASSUME SerialInv, [Next]_vars
  PROVE  SerialInv'
<1>1. CASE Next
  <2>1. CASE \E o, s : ClientStep(o, s)
    BY <2>1, ClientKeeps
  <2>2. CASE \E d : ServerStep(d)
    BY <2>2, StepKeeps
  <2>3. CASE Authorized
    BY <2>3, AuthorizedKeeps
  <2>4. CASE Disconnected
    BY <2>4, DisconnectedKeeps
  <2>5. CASE Privilege
    BY <2>5, PrivilegeKeeps
  <2> QED
    BY <1>1, <2>1, <2>2, <2>3, <2>4, <2>5, NextKinds
<1>2. CASE UNCHANGED vars
  <2>1. UNCHANGED <<exports, issued, sessions, may, b, active, conn, conns, up, down,
                    typed, upsets, wrote, heard>>
    BY <1>2 DEF vars
  <2>2. Shape' /\ Connections' /\ Owners'
    BY <2>1 DEF SerialInv, Shape, Connections, Owners
  <2>3. StreamsGrow'
    BY <2>1 DEF SerialInv, StreamsGrow, FrameStreams, BindingStream, OpenedStreams, HeardStream, Follows, Begins
  <2>4. WInv'
    <3>1. /\ Contiguous' /\ (\A c \in Conn : FramesJoined(up[c], Sent))'
          /\ (conn # 0 => OwnJoined(up[conn], Sent, b.tx_seq))'
      BY <2>1 DEF SerialInv, WInv, Contiguous, Sent
    <3>2. ServerJoined'
      BY <2>1 DEF SerialInv, WInv, ServerJoined, Sent, LastBlock, GoesOn
    <3>3. Ledger' /\ Accepted'
      BY <2>1 DEF SerialInv, WInv, Ledger, Accepted, WroteNow, Sent
    <3>4. WrittenOnce'
      BY <2>1 DEF SerialInv, WInv, WrittenOnce
    <3> QED
      BY <3>1, <3>2, <3>3, <3>4 DEF WInv
  <2>5. HInv'
    BY <2>1 DEF SerialInv, HInv, Buffered, FramesDown, FramesSent, ReadsHeard, Counts, HeardInOrder, Unheard
  <2>6. GInv'
    BY <2>1 DEF SerialInv, GInv, Attached, Told
  <2> QED
    BY <2>2, <2>3, <2>4, <2>5, <2>6 DEF SerialInv
<1> QED
  BY <1>1, <1>2

\* The inductive invariant of a tunnel: identifiers only grow along a
\* connection, the frames of an attachment carry consecutive blocks from the
\* endpoint through the connection to the device and back, and both ends agree
\* on what is attached, or the news of it is on its way.
THEOREM SerialInvariant == Spec => []SerialInv
<1>1. Init => SerialInv
  BY InitInv
<1>2. SerialInv /\ [Next]_vars => SerialInv'
  BY NextInv
<1> QED
  BY <1>1, <1>2, PTL DEF Spec

\* What was typed is never written to a device twice or out of order, over
\* retries, reconnections and changes of rig (host_retry, host_connection and
\* rr_sercom_focus_room drop or requeue it), and no block of an attachment is
\* skipped.
THEOREM SerialWrittenOnce == Spec => []WrittenOnce
<1>1. SerialInv => WrittenOnce
  BY DEF SerialInv, WInv
<1> QED
  BY <1>1, SerialInvariant, PTL

\* The endpoint hears what the device said from its first block on, without a
\* gap or a repetition (host_frame, rrserver_serial_poll).
THEOREM SerialHeardInOrder == Spec => []HeardInOrder
<1>1. SerialInv => HeardInOrder
  BY DEF SerialInv, HInv
<1> QED
  BY <1>1, SerialInvariant, PTL

----------------------------------------------------------------------------
(* The counters stay within their bounds *)

\* Counters the invariant says nothing of: those of a device that nobody uses,
\* and those of the frames that are unread.
Bounded ==
  /\ \A p \in Port : /\ exports[p].stream <= Streams /\ exports[p].tx_seq <= MaxTyped
                     /\ exports[p].rx_seq <= MaxRead
  /\ \A c \in Conn : \A i \in 1..Len(up[c]) : IsFrame(up[c][i]) => up[c][i].seq <= MaxTyped

\* A device that nobody uses was not used before, or was just closed.
Released(p) == exports'[p].owner = 0 => exports'[p] \in {exports[p], close_port(p)}

\* One device changes and keeps its user, or is closed.
LEMMA OneReleased ==
  ASSUME Shape, NEW p \in Port, NEW y, exports' = [exports EXCEPT ![p] = y],
         y.owner # 0 \/ y = close_port(p)
  PROVE  \A q \in Port : Released(q)
<1>1. exports'[p] = y /\ \A q \in Port : q # p => exports'[q] = exports[q]
  BY DEF Shape
<1> QED
  BY <1>1 DEF Released

\* No device changes.
LEMMA IdleReleased ==
  ASSUME UNCHANGED exports
  PROVE  \A q \in Port : Released(q)
  BY DEF Released

\* A poll closes the device or leaves it to its user.
LEMMA PollReleases ==
  ASSUME SerialInv, NEW p \in Port, NEW writes \in BOOLEAN, NEW reads \in BOOLEAN,
         NEW ready \in BOOLEAN, NEW fails \in BOOLEAN, poll(p, writes, reads, ready, fails)
  PROVE  \A q \in Port : Released(q)
<1>1. Shape /\ Owners /\ Buffered
  BY DEF SerialInv, HInv
<1> DEFINE x == exports[p]
           y == IF writes THEN [x EXCEPT !.pending = NoBlock] ELSE x
           z == IF reads THEN ReadIn(y) ELSE y
<1>2. \/ exports' = [exports EXCEPT ![p] = close_port(p)]
      \/ CanSend(z) /\ exports' = [exports EXCEPT ![p] = SendsOn(z)]
      \/ exports' = [exports EXCEPT ![p] = z]
  BY Zenon DEF poll
<1>3. x \in Device /\ x.owner # 0 /\ Fits(x)
  BY <1>1 DEF poll, Shape, Buffered, Fits
<1>4. z \in Device /\ z.owner # 0 /\ Fits(z)
  <2> HIDE DEF x
  <2>1. y \in Device /\ y.owner # 0 /\ Fits(y)
    <3>1. CASE writes
      <4>1. y = [x EXCEPT !.pending = NoBlock]
        BY <3>1
      <4> HIDE DEF y
      <4> QED
        BY <1>3, <4>1, DoneFits
    <3>2. CASE ~writes
      <4>1. y = x
        BY <3>2
      <4> HIDE DEF y
      <4> QED
        BY <1>3, <4>1
    <3> QED
      BY <3>1, <3>2
  <2> HIDE DEF y
  <2>2. CASE reads
    <3>1. z = ReadIn(y)
      BY <2>2
    <3> HIDE DEF z
    <3> QED
      BY <2>1, <3>1, ReadFits
  <2>3. CASE ~reads
    <3>1. z = y
      BY <2>3
    <3> HIDE DEF z
    <3> QED
      BY <2>1, <3>1
  <2> QED
    BY <2>2, <2>3
<1> HIDE DEF z
<1>5. CASE exports' = [exports EXCEPT ![p] = close_port(p)]
  BY <1>1, <1>5, OneReleased
<1>6. CASE CanSend(z) /\ exports' = [exports EXCEPT ![p] = SendsOn(z)]
  <2> DEFINE w == SendsOn(z)
  <2>1. w.owner # 0
    BY <1>4, <1>6, SendFits
  <2>2. exports' = [exports EXCEPT ![p] = w]
    BY <1>6
  <2> HIDE DEF w
  <2> QED
    BY <1>1, <2>1, <2>2, OneReleased
<1>7. CASE exports' = [exports EXCEPT ![p] = z]
  BY <1>1, <1>4, <1>7, OneReleased
<1> QED
  BY <1>2, <1>5, <1>6, <1>7

\* A message closes a device or leaves it to its user.
LEMMA ServerReadsReleases ==
  ASSUME SerialInv, NEW c \in Conn, NEW fails \in BOOLEAN, ServerReads(c, fails)
  PROVE  \A q \in Port : Released(q)
<1>1. Shape /\ Owners /\ Buffered
  BY DEF SerialInv, HInv
<1> DEFINE m == Head(up[c])
<1>2. up[c] \in Seq(ToServer) /\ up[c] # <<>> /\ c # 0
  BY <1>1, SerialAssumption DEF Shape, ServerReads, Conn
<1>3. m \in ToServer
  BY <1>2, TailPopped
<1>4. \/ m.cmd = "open" /\ open(c, m.port, fails)
      \/ m.cmd = "frame" /\ frame(c, m)
      \/ m.cmd \in {"close", "read"} /\ request(c, m)
  <2>1. m.cmd \in {"open", "frame", "close", "read"}
    BY <1>3 DEF ToServer
  <2> QED
    BY <2>1 DEF ServerReads
<1> HIDE DEF m
<1>5. CASE m.cmd = "open" /\ open(c, m.port, fails)
  <2>1. m.port \in Port
    BY <1>3, <1>5 DEF ToServer
  <2> DEFINE x == exports[m.port]
             y == [x EXCEPT !.owner = c, !.stream = allocate_stream(c), !.tx_seq = 0, !.rx_seq = 0]
  <2>2. UNCHANGED exports \/ exports' = [exports EXCEPT ![m.port] = y]
    BY <1>5, Zenon DEF open
  <2>3. x \in Device
    BY <1>1, <2>1 DEF Shape
  <2> HIDE DEF x
  <2>4. y.owner = c
    BY <2>3 DEF Device
  <2> HIDE DEF y
  <2> QED
    BY <1>1, <1>2, <2>1, <2>2, <2>4, OneReleased, IdleReleased
<1>6. CASE m.cmd = "frame" /\ frame(c, m)
  <2>1. \/ UNCHANGED exports
        \/ \E p \in owned(c) : \/ exports' = [exports EXCEPT ![p] = close_port(p)]
                               \/ exports' = [exports EXCEPT ![p].pending = m.block, ![p].tx_seq = m.seq]
    BY <1>6 DEF frame
  <2>2. ASSUME NEW p \in owned(c), exports' = [exports EXCEPT ![p] = close_port(p)]
        PROVE  \A q \in Port : Released(q)
    BY <1>1, <2>2, OneReleased DEF owned
  <2>3. ASSUME NEW p \in owned(c), exports' = [exports EXCEPT ![p].pending = m.block, ![p].tx_seq = m.seq]
        PROVE  \A q \in Port : Released(q)
    <3> DEFINE x == exports[p]
               y == [x EXCEPT !.pending = m.block, !.tx_seq = m.seq]
    <3>1. p \in Port /\ x.owner = c /\ x \in Device
      BY <1>1 DEF owned, Shape
    <3>2. exports' = [exports EXCEPT ![p] = y]
      BY <2>3
    <3> HIDE DEF x
    <3>3. y.owner = c
      BY <3>1 DEF Device
    <3> HIDE DEF y
    <3> QED
      BY <1>1, <1>2, <3>1, <3>2, <3>3, OneReleased
  <2> QED
    BY <2>1, <2>2, <2>3, IdleReleased
<1>7. CASE m.cmd \in {"close", "read"} /\ request(c, m)
  <2>1. \/ UNCHANGED exports
        \/ \E p \in owned(c) : \/ exports' = [exports EXCEPT ![p] = close_port(p)]
                               \/ exports' = [exports EXCEPT ![p].close_pending = TRUE]
                               \/ exports' = [exports EXCEPT ![p].rx_pending = @ /\ m.seq # exports[p].rx_seq]
    BY <1>7 DEF request, Finish, Acknowledge
  <2>2. ASSUME NEW p \in owned(c), exports' = [exports EXCEPT ![p] = close_port(p)]
        PROVE  \A q \in Port : Released(q)
    BY <1>1, <2>2, OneReleased DEF owned
  <2>3. ASSUME NEW p \in owned(c), exports' = [exports EXCEPT ![p].close_pending = TRUE]
        PROVE  \A q \in Port : Released(q)
    <3> DEFINE x == exports[p]
               y == [x EXCEPT !.close_pending = TRUE]
    <3>1. p \in Port /\ x.owner = c /\ x \in Device
      BY <1>1 DEF owned, Shape
    <3>2. exports' = [exports EXCEPT ![p] = y]
      BY <2>3
    <3> HIDE DEF x
    <3>3. y.owner = c
      BY <3>1 DEF Device
    <3> HIDE DEF y
    <3> QED
      BY <1>1, <1>2, <3>1, <3>2, <3>3, OneReleased
  <2>4. ASSUME NEW p \in owned(c), exports' = [exports EXCEPT ![p].rx_pending = @ /\ m.seq # exports[p].rx_seq]
        PROVE  \A q \in Port : Released(q)
    <3> DEFINE x == exports[p]
               y == [x EXCEPT !.rx_pending = x.rx_pending /\ m.seq # x.rx_seq]
    <3>1. p \in Port /\ x.owner = c /\ x \in Device
      BY <1>1 DEF owned, Shape
    <3>2. exports' = [exports EXCEPT ![p] = y]
      BY <2>4
    <3> HIDE DEF x
    <3>3. y.owner = c
      BY <3>1 DEF Device
    <3> HIDE DEF y
    <3> QED
      BY <1>1, <1>2, <3>1, <3>2, <3>3, OneReleased
  <2> QED
    BY <2>1, <2>2, <2>3, <2>4, IdleReleased
<1> QED
  BY <1>4, <1>5, <1>6, <1>7

\* No step changes the counters of a device that nobody uses.
LEMMA NextReleases ==
  ASSUME SerialInv, Next
  PROVE  \A q \in Port : Released(q)
<1>1. CASE UNCHANGED exports
  BY <1>1, IdleReleased
<1>2. CASE \E c \in 1..MaxConns, fails \in BOOLEAN : ServerReads(c, fails)
  BY <1>2, ServerReadsReleases DEF Conn
<1>3. CASE \E c \in 1..MaxConns : closed(c)
  <2>1. PICK c : exports' = [p \in Port |-> IF exports[p].owner = c THEN close_port(p) ELSE exports[p]]
    BY <1>3 DEF closed
  <2> QED
    BY <2>1 DEF Released
<1>4. CASE \E p \in Port : \E writes, reads, ready, fails \in BOOLEAN : poll(p, writes, reads, ready, fails)
  BY <1>4, PollReleases
<1>5. \/ UNCHANGED exports
      \/ \E c \in 1..MaxConns, fails \in BOOLEAN : ServerReads(c, fails)
      \/ \E c \in 1..MaxConns : closed(c)
      \/ \E p \in Port : \E writes, reads, ready, fails \in BOOLEAN : poll(p, writes, reads, ready, fails)
  BY DEF Next, host_tick, receive, focus_room, ModeChange, Authorized, Disconnected, ClientReads,
         Privilege, Server
<1> QED
  BY <1>1, <1>2, <1>3, <1>4, <1>5

\* The counters of a device after any step.
LEMMA DeviceBounded ==
  ASSUME SerialInv, SerialInv', Bounded, NEW p \in Port, Released(p),
         exports'[p].tx_seq <= MaxTyped \/ exports'[p].owner = 0
  PROVE  exports'[p].stream <= Streams /\ exports'[p].tx_seq <= MaxTyped /\ exports'[p].rx_seq <= MaxRead
<1> DEFINE x == exports[p]
           y == exports'[p]
<1>1. /\ x \in Device /\ y \in Device /\ x.stream <= Streams /\ x.tx_seq <= MaxTyped /\ x.rx_seq <= MaxRead
      /\ exports[p].owner = x.owner
  BY DEF SerialInv, Shape, Bounded
<1>2. CASE y.owner = 0
  <2>1. y = x \/ y = close_port(p)
    BY <1>2 DEF Released
  <2>2. CASE y = x
    BY <1>1, <2>2
  <2>3. CASE y = close_port(p)
    <3>1. y = [x EXCEPT !.owner = 0, !.stream = 0, !.rx_pending = FALSE, !.close_pending = FALSE,
                        !.pending = NoBlock, !.buffer = <<>>, !.read = 0]
      BY <2>3 DEF close_port
    <3> HIDE DEF x, y
    <3>2. y.stream = 0 /\ y.tx_seq = x.tx_seq /\ y.rx_seq = x.rx_seq
      BY <1>1, <3>1 DEF Device
    <3>3. y.stream <= Streams /\ y.tx_seq <= MaxTyped /\ y.rx_seq <= MaxRead
      BY <1>1, <3>2, SerialAssumption
    <3> QED
      BY <3>3 DEF y
  <2> QED
    BY <2>1, <2>2, <2>3
<1>3. CASE y.owner # 0
  <2>1. Shape' /\ Owners' /\ Buffered'
    BY DEF SerialInv, HInv
  <2>2. y.stream = issued'[y.owner] /\ y.owner <= conns' /\ conns' \in 0..MaxConns /\ issued' \in [Conn -> 0..Streams]
    BY <1>3, <2>1 DEF Owners, Shape
  <2>a. y.owner \in Nat
    BY <1>1 DEF Device
  <2>3. y.owner \in Conn
    <3>1. conns' \in Nat /\ conns' <= MaxConns /\ MaxConns \in Nat
      BY <2>2, SerialAssumption
    <3> HIDE DEF y
    <3> QED
      BY <1>3, <2>a, <2>2, <3>1 DEF Conn
  <2>4. y.stream <= Streams
    <3>1. issued'[y.owner] \in 0..Streams
      BY <2>2, <2>3
    <3> QED
      BY <2>2, <3>1, SerialAssumption
  <2>5. y.read = y.rx_seq + Len(y.buffer) /\ y.read <= MaxRead
    BY <1>3, <2>1 DEF Buffered
  <2>6. y.rx_seq <= MaxRead
    <3> HIDE DEF y
    <3>1. y.rx_seq \in Nat /\ y.read \in Nat /\ Len(y.buffer) \in Nat
      BY <1>1 DEF Device
    <3> QED
      BY <2>5, <3>1, SerialAssumption
  <2> QED
    BY <1>3, <2>4, <2>6
<1> QED
  BY <1>2, <1>3

\* The numbers of the frames after any step of the client.
LEMMA ClientBounded ==
  ASSUME SerialInv, SerialInv', Bounded, NEW o, NEW s, ClientStep(o, s), NEW c \in Conn, NEW i \in 1..Len(up'[c]),
         IsFrame(up'[c][i])
  PROVE  up'[c][i].seq <= MaxTyped
<1>1. Shape /\ Connections /\ StreamsGrow /\ Contiguous /\ Shape' /\ Contiguous'
  BY DEF SerialInv, WInv
<1>2. /\ up' \in [Conn -> Seq(ToServer)]
      /\ \A k \in Conn : k # conn => up'[k] = up[k]
      /\ \/ \A k \in Conn : Quietly(up[k], up'[k])
         \/ FrameTx(o) /\ Framed(up[conn], up'[conn], NextFrame(b'.stream))
  <2>1. /\ up' \in [Conn -> Seq(ToServer)]
        /\ \A k \in Conn : k # conn => up'[k] = up[k]
        /\ conn # 0 => conn \in Conn
        /\ \/ QuietTx(o) /\ \A k \in Conn : Quietly(up[k], up'[k])
           \/ /\ FrameTx(o) /\ conn # 0 /\ Follows(b'.stream) /\ b'.stream \in Nat \ {0}
              /\ Framed(up[conn], up'[conn], NextFrame(b'.stream))
    BY <1>1, ClientUp, Zenon
  <2> QED
    BY <2>1, Zenon
<1>3. up[c] \in Seq(ToServer) /\ Len(up[c]) \in Nat /\ up'[c] \in Seq(ToServer) /\ Len(up'[c]) \in Nat
  <2>1. up[c] \in Seq(ToServer)
    BY <1>1 DEF Shape
  <2>2. up'[c] \in Seq(ToServer)
    BY <1>2
  <2> QED
    BY <2>1, <2>2
<1>4. \A k \in 1..Len(up[c]) : IsFrame(up[c][k]) => up[c][k].seq <= MaxTyped
  BY DEF Bounded
<1>5. CASE i \in 1..Len(up[c]) /\ up'[c][i] = up[c][i]
  BY <1>4, <1>5
<1>6. CASE \A k \in Conn : Quietly(up[k], up'[k])
  <2>1. Quietly(up[c], up'[c])
    BY <1>6
  <2>2. i \in 1..Len(up[c]) /\ up'[c][i] = up[c][i]
    BY <1>3, <2>1 DEF Quietly, Longer
  <2> QED
    BY <1>5, <2>2
<1>7. CASE c # conn
  BY <1>2, <1>5, <1>7
<1>8. CASE c = conn /\ FrameTx(o) /\ Framed(up[conn], up'[conn], NextFrame(b'.stream))
  <2>1. CASE i = Len(up'[c])
    <3>1. up'[c][i] = NextFrame(b'.stream)
      BY <1>8, <2>1 DEF Framed
    <3>2. up'[c][i].seq = b'.tx_seq
      BY <1>8, <3>1 DEF NextFrame, FrameTx
    <3>3. b'.tx_seq \in Nat /\ typed' \in 0..MaxTyped
      BY <1>1 DEF Shape, Bind
    <3>4. b'.tx_seq <= Sent'
      BY <1>1 DEF Contiguous
    <3>5. Len(b'.host_pending) \in Nat
      BY <1>1 DEF Shape, Bind
    <3>6. Sent' = typed' - Len(b'.host_pending)
      BY DEF Sent
    <3>7. b'.tx_seq <= MaxTyped
      BY <3>3, <3>4, <3>5, <3>6, SerialAssumption
    <3> QED
      BY <3>2, <3>7
  <2>2. CASE i # Len(up'[c])
    <3>1. i < Len(up'[c])
      BY <1>3, <2>2
    <3>2. ~(i > Len(up[c]))
      BY <1>8, <3>1 DEF Framed
    <3>3. i \in 1..Len(up[c])
      BY <1>3, <3>2
    <3>4. up'[c][i] = up[c][i]
      BY <1>8, <3>3 DEF Framed, Longer
    <3> QED
      BY <1>5, <3>3, <3>4
  <2> QED
    BY <2>1, <2>2
<1> QED
  BY <1>2, <1>6, <1>7, <1>8

\* The numbers of the frames, and of what a device accepts of them, after any
\* step of the server.
LEMMA ServerBounded ==
  ASSUME SerialInv, Bounded, NEW d, ServerStep(d)
  PROVE  /\ \A p \in Port : exports'[p].tx_seq <= MaxTyped \/ exports'[p].owner = 0
         /\ \A c \in Conn : \A i \in 1..Len(up'[c]) : IsFrame(up'[c][i]) => up'[c][i].seq <= MaxTyped
<1>1. Shape /\ Owners /\ ServerKeeps /\ \A p \in Port : PortStep(p)
  BY DEF SerialInv, ServerStep
<1>2. ASSUME NEW p \in Port PROVE exports'[p].tx_seq <= MaxTyped \/ exports'[p].owner = 0
  <2>1. exports[p].tx_seq <= MaxTyped
    BY DEF Bounded
  <2>2. CASE Stays(p) \/ Leaves(p) \/ Writes(p)
    BY <2>1, <2>2 DEF Stays, Leaves, Writes
  <2>3. ASSUME NEW h, Takes(p, h) PROVE exports'[p].tx_seq <= MaxTyped
    <3> DEFINE c == exports[p].owner
    <3>1. c \in Conn
      BY <1>1, <2>3, DeviceFacts DEF Takes
    <3>2. up[c] \in Seq(ToServer)
      BY <1>1, <3>1 DEF Shape
    <3>3. 1 \in 1..Len(up[c]) /\ h = up[c][1] /\ IsFrame(h) /\ exports'[p].tx_seq = h.seq
      BY <2>3, <3>2 DEF Takes, Popped
    <3> HIDE DEF c
    <3> QED
      BY <3>1, <3>3 DEF Bounded
  <2>4. ASSUME NEW c, Attaches(p, c) PROVE exports'[p].tx_seq <= MaxTyped
    BY <2>4, SerialAssumption DEF Attaches
  <2> QED
    BY <1>1, <2>2, <2>3, <2>4 DEF PortStep
<1>3. ASSUME NEW c \in Conn, NEW i \in 1..Len(up'[c]), IsFrame(up'[c][i]) PROVE up'[c][i].seq <= MaxTyped
  <2>1. Shrinks(c)
    BY <1>1 DEF ServerKeeps
  <2>2. \A k \in 1..Len(up[c]) : IsFrame(up[c][k]) => up[c][k].seq <= MaxTyped
    BY DEF Bounded
  <2>3. CASE up'[c] = up[c]
    BY <1>3, <2>2, <2>3
  <2>4. CASE Popped(up[c], up'[c])
    <3>1. up'[c][i] = up[c][i + 1] /\ i + 1 \in 1..Len(up[c])
      BY <2>4 DEF Popped
    <3> QED
      BY <1>3, <2>2, <3>1
  <2>5. CASE up'[c] = <<>>
    <3>1. Len(up'[c]) = 0
      BY <2>5
    <3> QED
      BY <3>1
  <2> QED
    BY <2>1, <2>3, <2>4, <2>5 DEF Shrinks
<1> QED
  BY <1>2, <1>3

\* Every step keeps the bounds.
LEMMA NextBounded ==
  ASSUME SerialInv, Bounded, [Next]_vars
  PROVE  Bounded'
<1>0. SerialInv'
  BY NextInv
<1>1. CASE UNCHANGED vars
  BY <1>1 DEF vars, Bounded
<1>2. CASE Next
  <2>1. \A p \in Port : Released(p)
    BY <1>2, NextReleases
  <2>2. CASE UNCHANGED exports
    <3>1. \A p \in Port : /\ exports'[p].stream <= Streams /\ exports'[p].tx_seq <= MaxTyped
                          /\ exports'[p].rx_seq <= MaxRead
      BY <2>2 DEF Bounded
    <3>2. ASSUME NEW o, NEW s, ClientStep(o, s) PROVE Bounded'
      BY <1>0, <3>1, <3>2, ClientBounded DEF Bounded
    <3>3. CASE Authorized
      <4> DEFINE c == conns + 1
      <4>1. /\ UNCHANGED up \/ up' = [up EXCEPT ![c] = <<[cmd |-> "open", port |-> b.host_port]>>]
            /\ up \in [Conn -> Seq(ToServer)]
        BY <3>3 DEF Authorized, SerialInv, Shape
      <4>2. ASSUME NEW k \in Conn, NEW i \in 1..Len(up'[k]), IsFrame(up'[k][i]) PROVE up'[k][i].seq <= MaxTyped
        <5>1. CASE up'[k] = up[k]
          BY <4>2, <5>1 DEF Bounded
        <5>2. CASE up'[k] # up[k]
          <6> DEFINE m == [cmd |-> "open", port |-> b.host_port]
          <6>1. up'[k] = <<m>> /\ ~IsFrame(m)
            BY <4>1, <5>2 DEF IsFrame
          <6> HIDE DEF m
          <6>2. Len(up'[k]) = 1 /\ up'[k][1] = m
            BY <6>1
          <6> QED
            BY <4>2, <6>1, <6>2
        <5> QED
          BY <5>1, <5>2
      <4> QED
        BY <3>1, <4>2 DEF Bounded
    <3>4. CASE UNCHANGED up
      BY <3>1, <3>4 DEF Bounded
    <3>5. ASSUME NEW d, ServerStep(d) PROVE Bounded'
      BY <3>1, <3>5, ServerBounded DEF Bounded
    <3>6. (Disconnected => UNCHANGED up) /\ (Privilege => UNCHANGED up)
      BY DEF Disconnected, Privilege
    <3> QED
      BY <1>2, <3>2, <3>3, <3>4, <3>5, <3>6, NextKinds
  <2>3. CASE exports' # exports
    <3>1. \E d : ServerStep(d)
      <4>1. \A o, s : ClientStep(o, s) => UNCHANGED exports
        BY DEF ClientStep
      <4>2. Authorized \/ Disconnected \/ Privilege => UNCHANGED exports
        BY DEF Authorized, Disconnected, Privilege, Server
      <4> QED
        BY <1>2, <2>3, <4>1, <4>2, NextKinds
    <3>2. PICK d : ServerStep(d)
      BY <3>1
    <3>3. /\ \A p \in Port : exports'[p].tx_seq <= MaxTyped \/ exports'[p].owner = 0
          /\ \A c \in Conn : \A i \in 1..Len(up'[c]) : IsFrame(up'[c][i]) => up'[c][i].seq <= MaxTyped
      BY <3>2, ServerBounded
    <3>4. \A p \in Port : /\ exports'[p].stream <= Streams /\ exports'[p].tx_seq <= MaxTyped
                          /\ exports'[p].rx_seq <= MaxRead
      BY <1>0, <2>1, <3>3, DeviceBounded
    <3> QED
      BY <3>3, <3>4 DEF Bounded
  <2> QED
    BY <2>2, <2>3
<1> QED
  BY <1>1, <1>2

\* A sequence of members of T.
LEMMA SeqOf ==
  ASSUME NEW q \in Seq(Nat), NEW T, \A i \in 1..Len(q) : q[i] \in T
  PROVE  q \in Seq(T)
<1>1. Len(q) \in Nat /\ q = [i \in 1..Len(q) |-> q[i]]
  OBVIOUS
<1> DEFINE n == Len(q)
<1>2. q \in [1..n -> T] /\ n \in Nat
  BY <1>1
<1> HIDE DEF n
<1> QED
  BY <1>2

\* What the invariant and the bounds say about types.
LEMMA InvTypes ==
  ASSUME SerialInv, Bounded
  PROVE  TypeOK
<1>1. Shape /\ Owners /\ Contiguous /\ Accepted /\ Buffered /\ Counts /\ StreamsGrow /\ Connections
  BY DEF SerialInv, WInv, HInv
<1>2. Sent \in Nat /\ Sent <= MaxTyped /\ typed \in 0..MaxTyped /\ typed \in Nat /\ typed <= MaxTyped
  <2>1. Sent \in Nat /\ Sent <= typed
    BY <1>1, SentNumber
  <2> QED
    BY <1>1, <2>1, SerialAssumption DEF Shape
<1>3. ASSUME NEW p \in Port PROVE exports[p] \in Export
  <2> DEFINE x == exports[p]
  <2>1. x \in Device /\ x.stream <= Streams /\ x.tx_seq <= MaxTyped /\ x.rx_seq <= MaxRead
    BY <1>1 DEF Shape, Bounded
  <2>2. x.owner \in 0..MaxConns /\ (x.owner # 0 => x.owner \in Conn)
    <3>1. x.owner \in Nat /\ (x.owner # 0 => x.owner \in Conn)
      BY <1>1, DeviceFacts
    <3> QED
      BY <3>1, SerialAssumption DEF Conn
  <2>3. x.stream \in 0..Streams /\ x.tx_seq \in 0..MaxTyped /\ x.rx_seq \in 0..MaxRead
    <3>1. x.stream \in Nat /\ x.tx_seq \in Nat /\ x.rx_seq \in Nat
      BY <1>1, DeviceFacts
    <3> QED
      BY <2>1, <3>1, SerialAssumption
  <2>4. x.pending \in 1..MaxTyped \cup {NoBlock}
    <3>1. CASE x.owner = 0
      BY <1>1, <3>1 DEF Owners
    <3>2. CASE x.owner # 0
      <4>1. x.pending # NoBlock => x.pending # 0 /\ x.pending <= Sent
        BY <1>1, <3>2 DEF Accepted
      <4>2. x.pending \in Nat \cup {NoBlock}
        BY <1>1, DeviceFacts
      <4> HIDE DEF x
      <4> QED
        BY <1>2, <4>1, <4>2, SerialAssumption
    <3> QED
      BY <3>1, <3>2
  <2>5. x.read \in 0..MaxRead /\ x.buffer \in Seq(1..MaxRead)
    <3>1. x.buffer \in Seq(Nat) /\ x.read \in Nat /\ x.rx_seq \in Nat
      BY <2>1 DEF Device
    <3>2. CASE x.owner = 0
      <4>1. x.buffer = <<>> /\ x.read = 0
        BY <1>1, <3>2 DEF Owners
      <4> QED
        BY <4>1, SerialAssumption
    <3>3. CASE x.owner # 0
      <4>1. /\ x.read = x.rx_seq + Len(x.buffer) /\ x.read <= MaxRead
            /\ \A i \in 1..Len(x.buffer) : x.buffer[i] = x.rx_seq + i
        BY <1>1, <3>3 DEF Buffered
      <4> HIDE DEF x
      <4>2. Len(x.buffer) \in Nat
        BY <3>1
      <4>3. \A i \in 1..Len(x.buffer) : x.buffer[i] \in 1..MaxRead
        <5> TAKE i \in 1..Len(x.buffer)
        <5>1. x.buffer[i] = x.rx_seq + i
          BY <4>1
        <5>2. x.rx_seq + i \in 1..MaxRead
          BY <3>1, <4>1, <4>2, SerialAssumption
        <5> QED
          BY <5>1, <5>2
      <4>4. x.buffer \in Seq(1..MaxRead)
        BY <3>1, <4>3, SeqOf
      <4> QED
        BY <3>1, <4>1, <4>4, SerialAssumption
    <3> QED
      BY <3>2, <3>3
  <2> HIDE DEF x
  <2>6. x \in Export
    BY <2>1, <2>2, <2>3, <2>4, <2>5 DEF Export, Device
  <2> QED
    BY <2>6 DEF x
<1>4. b \in Binding
  <2>1. b \in Bind
    BY <1>1 DEF Shape
  <2>2. b.tx_seq \in 0..MaxTyped
    <3>1. b.tx_seq \in Nat /\ b.tx_seq <= Sent
      BY <1>1, <2>1 DEF Contiguous, Bind
    <3> QED
      BY <1>2, <3>1, SerialAssumption
  <2>3. b.rx_seq \in 0..MaxRead
    <3>1. b.rx_seq \in Nat /\ b.rx_seq <= MaxRead
      BY <1>1, <2>1 DEF Counts, Bind
    <3> QED
      BY <3>1, SerialAssumption
  <2>4. b.stream \in 0..Streams
    <3>1. CASE b.stream = 0
      BY <3>1, SerialAssumption
    <3>2. CASE b.stream # 0
      <4>a. conn # 0 /\ conn \in 0..MaxConns
        BY <1>1, <3>2 DEF Connections, Shape
      <4>1. conn # 0 /\ conn \in Conn
        BY <4>a, SerialAssumption DEF Conn
      <4>2. b.stream <= issued[conn]
        BY <1>1, <3>2, <4>1 DEF StreamsGrow, BindingStream, Follows
      <4>3. issued[conn] \in 0..Streams /\ b.stream \in Nat
        BY <1>1, <2>1, <4>1 DEF Shape, Bind
      <4> QED
        BY <4>2, <4>3, SerialAssumption
    <3> QED
      BY <3>1, <3>2
  <2>5. b.host_pending \in Seq(1..MaxTyped)
    <3> DEFINE q == b.host_pending
    <3>1. q \in Seq(Nat)
      BY <2>1 DEF Bind
    <3>2. Queue(q, typed)
      BY <1>1 DEF Contiguous
    <3> HIDE DEF q
    <3>3. Len(q) \in Nat
      BY <3>1
    <3>4. \A i \in 1..Len(q) : q[i] \in 1..MaxTyped
      <4> TAKE i \in 1..Len(q)
      <4>1. q[i] = typed - Len(q) + i /\ Len(q) <= typed
        BY <3>2 DEF Queue
      <4>2. typed - Len(q) + i \in 1..MaxTyped
        BY <1>2, <3>3, <4>1, SerialAssumption
      <4> QED
        BY <4>1, <4>2
    <3>5. q \in Seq(1..MaxTyped)
      BY <3>1, <3>4, SeqOf
    <3> QED
      BY <3>5 DEF q
  <2> QED
    BY <2>1, <2>2, <2>3, <2>4, <2>5 DEF Bind, Binding
<1>5. exports \in [Port -> Export]
  BY <1>1, <1>3 DEF Shape
<1> QED
  BY <1>1, <1>4, <1>5 DEF TypeOK, Shape, Conn

\* An endpoint that is shown as connected has its device at the server, or is
\* about to learn that it was closed (close_port, closed, rrserver_serial_poll
\* against host_message and host_sync); and both ends keep their types.
THEOREM SerialNoGhost == Spec => []NoGhost
<1>1. Init => SerialInv /\ Bounded
  <2> SUFFICES ASSUME Init PROVE Bounded
    BY InitInv
  <2>1. Closed.stream = 0 /\ Closed.tx_seq = 0 /\ Closed.rx_seq = 0
    BY DEF Closed
  <2>2. \A p \in Port : exports[p] = Closed
    BY DEF Init
  <2>3. \A c \in Conn : up[c] = <<>> /\ Len(up[c]) = 0
    BY DEF Init, Conn
  <2> QED
    BY <2>1, <2>2, <2>3, SerialAssumption DEF Bounded
<1>2. (SerialInv /\ Bounded) /\ [Next]_vars => (SerialInv /\ Bounded)'
  BY NextInv, NextBounded
<1>3. SerialInv /\ Bounded => NoGhost
  <2> SUFFICES ASSUME SerialInv, Bounded, conn # 0, b.stream # 0
               PROVE  \/ \E p \in owned(conn) : exports[p].stream = b.stream
                      \/ \E i \in DOMAIN down : Says(down[i])
    BY InvTypes DEF NoGhost
  <2>1. Attached(b.stream) \/ Told(b.stream, 0)
    BY DEF SerialInv, GInv
  <2>2. down \in Seq(ToClient)
    BY DEF SerialInv, Shape
  <2>3. DOMAIN down = 1..Len(down)
    BY <2>2
  <2>4. CASE Attached(b.stream)
    BY <2>4 DEF Attached, owned
  <2>5. CASE Told(b.stream, 0)
    BY <2>3, <2>5 DEF Told, Says
  <2> QED
    BY <2>1, <2>4, <2>5
<1> QED
  BY <1>1, <1>2, <1>3, PTL DEF Spec
=============================================================================
