---------------------------- MODULE EpollServer ----------------------------
(***************************************************************************)
(* The server thread of game.cpp (init_epool) between its epoll instance   *)
(* and ScriptEngine, with the clients and the kernel's side of their       *)
(* connections.  A connection is a stream of bytes; a client writes whole  *)
(* frames into it, a header of socket_msg and a body.  The thread reads a  *)
(* header and then a body for each readable descriptor that epoll_wait     *)
(* reports, and posts what it has read to the engine.                      *)
(*                                                                         *)
(* A byte is the connection it was written to, its position in that        *)
(* connection's stream and its character code.  A body is one character    *)
(* again and again; it matters what it is when the server has lost its     *)
(* place and takes a piece of a body for a header.                         *)
(***************************************************************************)
EXTENDS SocketMsg, FiniteSets

CONSTANTS
    Conns,       \* connections; each is used once
    NoConn,      \* no connection
    BodyLens,    \* lengths of the texts that clients send
    BodyCode,    \* the character that bodies are made of
    MaxFrames,   \* bound: frames that all clients send together
    MaxFds,      \* descriptors the process may have open for clients
    Pipelined,   \* do clients send before the last frame has been read?
    Pieces,      \* bytes that may arrive at once, if not all that are on the way
    Resets       \* may a connection be reset?

ASSUME NoConnAssumption == NoConn \notin Conns
ASSUME BodyLensAssumption == BodyLens \subseteq 0 .. max_body_length
ASSUME BodyCodeAssumption == BodyCode \in 1 .. 127
ASSUME MaxFramesAssumption == MaxFrames \in Nat
ASSUME MaxFdsAssumption == MaxFds \in Nat \ {0}
ASSUME PiecesAssumption == Pieces \subseteq Nat \ {0}
ASSUME SwitchAssumption == {Pipelined, Resets} \subseteq BOOLEAN

VARIABLES
    cli,           \* cli[c]: "off", "up", "fin" (closed) or "rst" (reset)
    sent,          \* sent[c]: where each frame of c starts and its body length
    net,           \* net[c]: bytes on their way to the server
    rcv,           \* rcv[c]: bytes in the server's receive buffer
    backlog,       \* connections that accept() has not returned yet
    files,         \* files[fd]: the connection that is open as fd, or NoConn
    spc,           \* where the server thread is
    events,        \* what is left of the last epoll_wait's events
    ev,            \* the event whose body is to be read
    data_,         \* the bytes of read_msg_, header and body
    pad,           \* the byte after them
    body_length_,  \* its body_length_
    posted         \* the items passed to ExecGafq, in order

clientVars == <<cli, sent, net>>
bufferVars == <<data_, pad, body_length_>>
vars == <<clientVars, rcv, backlog, files, spc, events, ev, bufferVars, posted>>

Fds == 1 .. MaxFds
Listener == 0
Zero == [conn |-> NoConn, off |-> 0, code |-> NUL]
Junk == [conn |-> NoConn, off |-> 0, code |-> 63]
BufferSize == header_length + max_body_length
NoEvent == [fd |-> Listener, conn |-> NoConn, in |-> FALSE, err |-> FALSE]

\* How many bytes c has written.
Written(c) ==
    IF sent[c] = <<>> THEN 0
    ELSE LET last == sent[c][Len(sent[c])]
         IN  last.start + header_length + last.len

Frame(c, n) ==
    [k \in 1 .. header_length + n |->
        [conn |-> c, off |-> Written(c) + k,
         code |-> IF k <= header_length THEN EncodeHeader(n)[k] ELSE BodyCode]]

Init ==
    /\ cli = [c \in Conns |-> "off"]
    /\ sent = [c \in Conns |-> <<>>]
    /\ net = [c \in Conns |-> <<>>]
    /\ rcv = [c \in Conns |-> <<>>]
    /\ backlog = <<>>
    /\ files = [fd \in Fds |-> NoConn]
    /\ spc = "loop"
    /\ events = {}
    /\ ev = NoEvent
    /\ data_ = [k \in 1 .. header_length + max_body_length |-> Zero]
    \* Memory that nothing has written.
    /\ pad \in {Zero, Junk}
    /\ body_length_ = 0
    /\ posted = <<>>

-----------------------------------------------------------------------------
(* The clients and the network.                                            *)

Attached(c) ==
    \/ \E k \in 1 .. Len(backlog) : backlog[k] = c
    \/ \E fd \in Fds : files[fd] = c

\* The server has read everything that c has written.
Drained(c) ==
    /\ net[c] = <<>>
    /\ rcv[c] = <<>>
    /\ ~(spc = "body" /\ ev.conn = c)

Connect(c) ==
    /\ cli[c] = "off"
    /\ cli' = [cli EXCEPT ![c] = "up"]
    /\ backlog' = Append(backlog, c)
    /\ UNCHANGED <<sent, net, rcv>>

SumSent == MapThenSumSet(LAMBDA c : Len(sent[c]), Conns)

SendFrame(c, n) ==
    /\ cli[c] = "up"
    /\ Attached(c)
    /\ SumSent < MaxFrames
    /\ Pipelined \/ Drained(c)
    /\ net' = [net EXCEPT ![c] = @ \o Frame(c, n)]
    /\ sent' = [sent EXCEPT ![c] = Append(@, [start |-> Written(c), len |-> n])]
    /\ UNCHANGED <<cli, rcv, backlog>>

Arrive(c) ==
    /\ net[c] # <<>>
    /\ \E k \in {Len(net[c])} \cup {n \in Pieces : n < Len(net[c])} :
           /\ rcv' = [rcv EXCEPT ![c] = @ \o SubSeq(net[c], 1, k)]
           /\ net' = [net EXCEPT ![c] = SubSeq(@, k + 1, Len(@))]
    /\ UNCHANGED <<cli, sent, backlog>>

\* The end of the stream arrives behind its last byte.
Finish(c) ==
    /\ cli[c] = "up"
    /\ cli' = [cli EXCEPT ![c] = "fin"]
    /\ UNCHANGED <<sent, net, rcv, backlog>>

\* A reset overtakes what is under way; what has arrived can still be read.
Reset(c) ==
    /\ Resets
    /\ cli[c] = "up"
    /\ cli' = [cli EXCEPT ![c] = "rst"]
    /\ net' = [net EXCEPT ![c] = <<>>]
    /\ UNCHANGED <<sent, rcv, backlog>>

Client(c) ==
    /\ \/ Connect(c)
       \/ \E n \in BodyLens : SendFrame(c, n)
       \/ Finish(c)
       \/ Reset(c)
    /\ UNCHANGED <<files, spc, events, ev, bufferVars, posted>>

Network(c) ==
    /\ Arrive(c)
    /\ UNCHANGED <<files, spc, events, ev, bufferVars, posted>>

-----------------------------------------------------------------------------
(* The kernel, as the server thread sees it.                               *)

\* A read() on c returns: bytes, 0 at the end of the stream, -1 after a reset.
Readable(c) ==
    \/ rcv[c] # <<>>
    \/ cli[c] = "fin" /\ net[c] = <<>>
    \/ cli[c] = "rst"

\* The events of epoll_wait.  On a reset connection EPOLLERR may come with or
\* without EPOLLIN; quiet are the ones without.
Ready(quiet) ==
    {[fd |-> fd, conn |-> files[fd], in |-> files[fd] \notin quiet,
      err |-> cli[files[fd]] = "rst"] :
        fd \in {f \in Fds : files[f] # NoConn /\ Readable(files[f])}}
    \cup
    IF backlog = <<>> THEN {}
    ELSE {[fd |-> Listener, conn |-> NoConn, in |-> TRUE, err |-> FALSE]}

\* Mutant: the close() is missing.
CloseForgotten(fd) == UNCHANGED <<files, net, rcv>>

\* close(): what was not read is gone.
Close(fd) ==
    /\ files' = [files EXCEPT ![fd] = NoConn]
    /\ net' = [net EXCEPT ![files[fd]] = <<>>]
    /\ rcv' = [rcv EXCEPT ![files[fd]] = <<>>]

\* What a read() of at most n bytes may return: all that is there, up to n.
Reads(c, n) == {SubSeq(rcv[c], 1, Min({n, Len(rcv[c])}))}
Rest(c, n) == SubSeq(rcv[c], n + 1, Len(rcv[c]))

-----------------------------------------------------------------------------
(* The server thread: the loop over epoll_wait, and the loop over events.  *)

EpollWait ==
    /\ spc = "loop"
    /\ events = {}
    /\ \E quiet \in SUBSET {c \in Conns : cli[c] = "rst"} :
           events' = Ready(quiet)
    /\ events' # {}
    /\ UNCHANGED <<clientVars, rcv, backlog, files, spc, ev, bufferVars, posted>>

\* Mutant: the new descriptor is not added to the epoll instance.
AcceptUnregistered(e) ==
    /\ e.fd = Listener
    /\ backlog' = Tail(backlog)
    /\ events' = events \ {e}
    /\ UNCHANGED <<clientVars, rcv, files, spc, ev, bufferVars, posted>>

\* Mutant: the -1 of accept() is entered among the descriptors.
AcceptUnchecked(e) ==
    /\ e.fd = Listener
    /\ LET free == {fd \in Fds : files[fd] = NoConn}
           fd == IF free = {} THEN -1 ELSE Min(free)
       IN  files' = [f \in DOMAIN files \cup {fd} |->
                        IF f = fd THEN Head(backlog) ELSE files[f]]
    /\ backlog' = Tail(backlog)
    /\ events' = events \ {e}
    /\ UNCHANGED <<clientVars, rcv, spc, ev, bufferVars, posted>>

\* accept() takes the lowest free descriptor.  Without a free one it returns
\* -1, and nothing comes of it but the next event.
Accept(e) ==
    /\ e.fd = Listener
    /\ \/ /\ \E fd \in Fds :
                /\ files[fd] = NoConn
                /\ \A f \in 1 .. fd - 1 : files[f] # NoConn
                /\ files' = [files EXCEPT ![fd] = Head(backlog)]
          /\ backlog' = Tail(backlog)
       \/ /\ \A fd \in Fds : files[fd] # NoConn
          /\ UNCHANGED <<files, backlog>>
    /\ events' = events \ {e}
    /\ UNCHANGED <<clientVars, rcv, spc, ev, bufferVars, posted>>

\* Mutant: the bytes are written one place too far.
OverlayLate(buffer, skip, bytes) ==
    [k \in DOMAIN buffer |->
        IF k - skip - 1 \in 1 .. Len(bytes) THEN bytes[k - skip - 1]
                                          ELSE buffer[k]]

\* The bytes are written into the memory behind its first skip bytes.
Overlay(buffer, skip, bytes) ==
    [k \in DOMAIN buffer |->
        IF k - skip \in 1 .. Len(bytes) THEN bytes[k - skip] ELSE buffer[k]]

\* Mutant: delete_msg clears nothing.
ClearedNot == data_

\* read_msg_ after delete_msg, and its header once some bytes are read into it.
Cleared == [k \in 1 .. BufferSize |-> Zero]
HeaderOf(bytes) ==
    [k \in 1 .. header_length |-> IF k <= Len(bytes) THEN bytes[k].code ELSE NUL]

\* The C string at the start of some memory.
CString(memory) ==
    LET ends == {k \in 1 .. Len(memory) : memory[k].code = NUL}
    IN  IF ends = {} THEN memory ELSE SubSeq(memory, 1, Min(ends) - 1)

\* str_len > 0 && read_msg_.decode_header()
Accepted(got, decoded) == got # <<>> /\ decoded.ok

\* delete_msg, and the read() of the header: a header that decodes is followed
\* by its body, and anything else closes the connection.
ReadHeader(e) ==
    /\ e.fd # Listener
    /\ e.in
    /\ \E got \in Reads(files[e.fd], header_length) :
         /\ data_' = Overlay(Cleared, 0, got)
         /\ \E header \in {HeaderOf(got)} :
            \E decoded \in {DecodeHeader(header)} :
              \/ /\ Accepted(got, decoded)
                 /\ body_length_' = decoded.body_length_
                 /\ rcv' = [rcv EXCEPT ![files[e.fd]] = Rest(files[e.fd], Len(got))]
                 /\ spc' = "body"
                 /\ ev' = e
                 /\ UNCHANGED <<net, files>>
              \/ /\ ~Accepted(got, decoded)
                 /\ body_length_' = 0
                 /\ Close(e.fd)
                 /\ UNCHANGED <<spc, ev>>
    /\ events' = events \ {e}
    /\ UNCHANGED <<cli, sent, backlog, pad, posted>>

\* The read() of the body asks for one byte more than its length, waits until
\* there is something to read, and may return less.  What is posted is the
\* C string that starts at the body.
ReadBody ==
    /\ spc = "body"
    /\ Readable(files[ev.fd])
    /\ \E got \in Reads(files[ev.fd], body_length_ + 1) :
         /\ rcv' = [rcv EXCEPT ![files[ev.fd]] = Rest(files[ev.fd], Len(got))]
         /\ \E memory \in {Overlay(Append(data_, pad), header_length, got)} :
              /\ data_' = SubSeq(memory, 1, BufferSize)
              /\ pad' = memory[BufferSize + 1]
              /\ posted' = Append(posted,
                     [fd |-> ev.fd, conn |-> ev.conn,
                      data |-> CString(SubSeq(memory, header_length + 1,
                                              Len(memory)))])
    /\ spc' = "loop"
    /\ ev' = NoEvent
    /\ UNCHANGED <<clientVars, backlog, files, events, body_length_>>

\* Mutant: the event is handled again.
CloseOnErrorAgain(e) ==
    /\ e.fd # Listener
    /\ ~e.in
    /\ e.err
    /\ Close(e.fd)
    /\ UNCHANGED <<cli, sent, backlog, spc, events, ev, bufferVars, posted>>

CloseOnError(e) ==
    /\ e.fd # Listener
    /\ ~e.in
    /\ e.err
    /\ Close(e.fd)
    /\ events' = events \ {e}
    /\ UNCHANGED <<cli, sent, backlog, spc, ev, bufferVars, posted>>

Server ==
    \/ EpollWait
    \/ spc = "loop" /\ \E e \in events :
          Accept(e) \/ ReadHeader(e) \/ CloseOnError(e)
    \/ ReadBody

-----------------------------------------------------------------------------
Next ==
    \/ \E c \in Conns : Client(c) \/ Network(c)
    \/ Server

Spec == Init /\ [][Next]_vars

\* The thread runs while it is not waiting, and what is sent arrives.
FairSpec ==
    /\ Spec
    /\ WF_vars(Server)
    /\ \A c \in Conns : WF_vars(Network(c))

-----------------------------------------------------------------------------
(* Properties.                                                             *)

Byte == [conn : Conns \cup {NoConn}, off : Nat, code : 0 .. 127]
Event == [fd : Fds \cup {Listener}, conn : Conns \cup {NoConn},
          in : BOOLEAN, err : BOOLEAN]

Post == [fd : Fds, conn : Conns, data : Seq(Byte)]
FrameType == [start : Nat, len : BodyLens]

TypeOK ==
    /\ cli \in [Conns -> {"off", "up", "fin", "rst"}]
    /\ sent \in [Conns -> Seq(FrameType)]
    /\ net \in [Conns -> Seq(Byte)]
    /\ rcv \in [Conns -> Seq(Byte)]
    /\ backlog \in Seq(Conns)
    /\ files \in [Fds -> Conns \cup {NoConn}]
    /\ spc \in {"loop", "body"}
    /\ events \in SUBSET Event
    /\ ev \in Event
    /\ data_ \in [1 .. BufferSize -> Byte]
    /\ pad \in Byte
    /\ body_length_ \in 0 .. max_body_length
    /\ posted \in Seq(Post)

\* However frames are cut, run together or cut off: the text of an item is a
\* piece of the stream of the connection it names, without a gap, and a later
\* item of that connection has a later piece.  Nothing of another client's
\* message, or of an earlier one, is left in read_msg_ (delete_msg).
StreamSlices ==
    \A n \in 1 .. Len(posted) :
        /\ \A k \in 1 .. Len(posted[n].data) :
               /\ posted[n].data[k].conn = posted[n].conn
               /\ k > 1 => posted[n].data[k].off = posted[n].data[k - 1].off + 1
        /\ \A m \in 1 .. n - 1 :
               posted[m].conn = posted[n].conn =>
                   \A j \in 1 .. Len(posted[m].data),
                      k \in 1 .. Len(posted[n].data) :
                       posted[m].data[j].off < posted[n].data[k].off

\* An event that is still to be handled is about the connection that it was
\* reported for, although descriptors are closed and reused meanwhile.
EventsFresh ==
    /\ \A e \in events : e.fd # Listener => e.conn # NoConn /\ files[e.fd] = e.conn
    /\ spc = "body" => files[ev.fd] = ev.conn

(***************************************************************************)
(* The invariant that both follow from.                                    *)
(***************************************************************************)

\* A connection is open as one descriptor or waits once to be accepted.
ConnInv ==
    /\ \A f, g \in Fds : files[f] = files[g] /\ files[f] # NoConn => f = g
    /\ \A j, k \in 1 .. Len(backlog) : backlog[j] = backlog[k] => j = k
    /\ \A f \in Fds, k \in 1 .. Len(backlog) : files[f] # backlog[k]
    /\ \A c \in Conns : cli[c] = "off" => ~Attached(c)

\* There is one event for a descriptor, and accept() will not block.
EventsInv ==
    /\ EventsFresh
    /\ \A e, f \in events : e.fd = f.fd => e = f
    /\ \A e \in events : e.fd = Listener => backlog # <<>>
    /\ spc = "body" => ev.fd # Listener /\ ev.conn # NoConn

\* While a body is to be read, nothing but the header is in read_msg_.
BufferInv ==
    spc = "body" => \A k \in header_length + 1 .. BufferSize : data_[k] = Zero

\* Some bytes of the stream of c, from the one after start on.
Piece(bytes, c, start) ==
    \A k \in 1 .. Len(bytes) : bytes[k].conn = c /\ bytes[k].off = start + k

\* c has not closed its side, and the server has not closed the other.
Adding(c) == cli[c] = "off" \/ (cli[c] = "up" /\ Attached(c))

\* Of the stream of c, read bytes have been taken out; what is in the receive
\* buffer follows them, and what is on its way follows that.  The latter goes
\* to the end of the stream as long as c can add to it.
StreamFrom(c, read) ==
    /\ Piece(rcv[c], c, read)
    /\ Piece(net[c], c, read + Len(rcv[c]))
    /\ read + Len(rcv[c]) + Len(net[c]) <= Written(c)
    /\ Adding(c) => read + Len(rcv[c]) + Len(net[c]) = Written(c)
    /\ \A n \in 1 .. Len(posted) : posted[n].conn = c =>
           \A k \in 1 .. Len(posted[n].data) : posted[n].data[k].off <= read

StreamInv == \A c \in Conns : \E read \in 0 .. Written(c) : StreamFrom(c, read)

\* Descriptors, events and bytes stay with their connections.
EpollInv == TypeOK /\ ConnInv /\ EventsInv /\ BufferInv

\* How many of the first n items are of the connection c.
Handed(c, n) == Cardinality({m \in 1 .. n : posted[m].conn = c})

\* The item is the body of the k-th frame of its connection, all of it and
\* nothing else.
Intact(item, k) ==
    LET frame == sent[item.conn][k]
    IN  /\ k <= Len(sent[item.conn])
        /\ Len(item.data) = frame.len
        /\ Piece(item.data, item.conn, frame.start + header_length)

\* The k-th item of a connection is the body of the k-th frame that its client
\* sent, as the read at game.cpp:289 would have it.
FramesIntact ==
    \A n \in 1 .. Len(posted) : Intact(posted[n], Handed(posted[n].conn, n))

\* Every frame that a client sends is posted.
FramesServed ==
    \A c \in Conns, k \in 1 .. MaxFrames :
        Len(sent[c]) >= k ~> Handed(c, Len(posted)) >= k

\* The descriptor of a client that has gone is given back.
FdsReclaimed == \A c \in Conns : cli[c] = "fin" ~> ~Attached(c)

(***************************************************************************)
(* The invariant behind FramesIntact, for clients that wait between frames *)
(* and frames that arrive whole: of each stream at most one frame is not   *)
(* read yet, and the server stands in front of it or of its body.          *)
(***************************************************************************)

\* What is left of a frame when its first skip bytes have been read.
FrameFrom(bytes, c, frame, skip) ==
    /\ Len(bytes) = header_length + frame.len - skip
    /\ Piece(bytes, c, frame.start + skip)
    /\ \A k \in 1 .. Len(bytes) :
           bytes[k].code = IF skip + k <= header_length
                           THEN EncodeHeader(frame.len)[skip + k] ELSE BodyCode

LastFrame(c) == sent[c][Len(sent[c])]
Reading(c) == spc = "body" /\ ev.conn = c

NothingLeft(c) ==
    /\ net[c] = <<>> /\ rcv[c] = <<>> /\ ~Reading(c)
    /\ Handed(c, Len(posted)) <= Len(sent[c])
    /\ Adding(c) => Handed(c, Len(posted)) = Len(sent[c])

FrameLeft(c) ==
    /\ Handed(c, Len(posted)) + 1 = Len(sent[c])
    /\ \/ /\ FrameFrom(net[c], c, LastFrame(c), 0)
          /\ rcv[c] = <<>> /\ ~Reading(c)
       \/ /\ FrameFrom(rcv[c], c, LastFrame(c), 0)
          /\ net[c] = <<>> /\ ~Reading(c)
       \/ /\ FrameFrom(rcv[c], c, LastFrame(c), header_length)
          /\ net[c] = <<>> /\ Reading(c)
          /\ body_length_ = LastFrame(c).len

PacedInv == \A c \in Conns : NothingLeft(c) \/ FrameLeft(c)
=============================================================================
