----------------------------- MODULE ChatClient -----------------------------
(***************************************************************************)
(* chat_client.cpp: the main thread reads lines and posts a do_write for   *)
(* every copy of each, then posts do_close and joins the thread that runs  *)
(* the io_service.  Only that thread touches the socket and write_msgs_:   *)
(* it runs handlers one at a time, until none is queued and no operation   *)
(* is outstanding.                                                         *)
(*                                                                         *)
(* A message is the number of the do_write that carries it.  io_service    *)
(* and the socket are external: an operation that is started completes     *)
(* with or without an error and then queues its handler; close() makes all *)
(* outstanding ones complete with an error, and so does starting one on a  *)
(* closed socket.  A write that fails may have sent a part of its message. *)
(***************************************************************************)
EXTENDS Naturals, Sequences

CONSTANTS
    MaxLines,   \* bound: lines read from standard input
    cnt_n,      \* copies of each line, the third argument
    MaxShown    \* bound: messages that arrive from the server

ASSUME MaxLinesAssumption == MaxLines \in Nat
ASSUME CopiesAssumption == cnt_n \in Nat
ASSUME MaxShownAssumption == MaxShown \in Nat

VARIABLES
    mainpc,       \* where the main thread is
    lines,        \* lines read
    left,         \* copies of the last line that are still to be posted
    posted,       \* do_writes posted
    handlers,     \* the io_service's queue of handlers that can run
    running,      \* the thread is in io_service::run
    socket_,      \* "connecting", "connected", "failed" or "closed"
    connecting,   \* async_connect is outstanding
    writes,       \* the messages of the outstanding async_writes
    reads,        \* the outstanding async_reads: "header" or "body"
    write_msgs_,  \* messages to be written, the first one being written
    wire,         \* messages written whole
    shown         \* messages received and printed

mainVars == <<mainpc, lines, left, posted>>
ioVars == <<handlers, socket_, connecting, writes, reads, write_msgs_>>
vars == <<mainVars, ioVars, running, wire, shown>>

Handler(op, ok, msg) == [op |-> op, ok |-> ok, msg |-> msg]

\* The constructor has started async_connect.
Init ==
    /\ mainpc = "typing"
    /\ lines = 0
    /\ left = 0
    /\ posted = 0
    /\ handlers = <<>>
    /\ running = TRUE
    /\ socket_ = "connecting"
    /\ connecting = TRUE
    /\ writes = <<>>
    /\ reads = <<>>
    /\ write_msgs_ = <<>>
    /\ wire = <<>>
    /\ shown = 0

-----------------------------------------------------------------------------
(* The main thread.                                                        *)

\* Mutant: the copies are counted from 0 to cnt_n.
ReadLineOnceMore ==
    /\ mainpc = "typing"
    /\ left = 0
    /\ lines < MaxLines
    /\ lines' = lines + 1
    /\ left' = cnt_n + 1
    /\ UNCHANGED <<mainpc, posted, ioVars>>

ReadLine ==
    /\ mainpc = "typing"
    /\ left = 0
    /\ lines < MaxLines
    /\ lines' = lines + 1
    /\ left' = cnt_n
    /\ UNCHANGED <<mainpc, posted, ioVars>>

\* c.write(msg): post may also come after run() has returned.
Write ==
    /\ mainpc = "typing"
    /\ left > 0
    /\ left' = left - 1
    /\ posted' = posted + 1
    /\ handlers' = Append(handlers, Handler("do_write", TRUE, posted + 1))
    /\ UNCHANGED <<mainpc, lines, socket_, connecting, writes, reads,
                   write_msgs_>>

\* getline fails, at the end of the input or on a line that is too long, and
\* c.close() posts do_close.
Close ==
    /\ mainpc = "typing"
    /\ left = 0
    /\ mainpc' = "join"
    /\ handlers' = Append(handlers, Handler("do_close", TRUE, 0))
    /\ UNCHANGED <<lines, left, posted, socket_, connecting, writes, reads,
                   write_msgs_>>

Join ==
    /\ mainpc = "join"
    /\ ~running
    /\ mainpc' = "done"
    /\ UNCHANGED <<lines, left, posted, ioVars>>

Main ==
    /\ ReadLine \/ Write \/ Close \/ Join
    /\ UNCHANGED <<running, wire, shown>>

-----------------------------------------------------------------------------
(* What a handler does.  rest is the queue of handlers behind it.          *)

Failed(op, n) == [k \in 1 .. n |-> Handler(op, FALSE, 0)]

\* do_close
DoClose(rest) ==
    /\ socket_' = "closed"
    /\ handlers' = rest \o
           (Failed("handle_connect", IF connecting THEN 1 ELSE 0)
            \o Failed("handle_write", Len(writes))
            \o [k \in 1 .. Len(reads) |-> Handler(reads[k], FALSE, 0)])
    /\ connecting' = FALSE
    /\ writes' = <<>>
    /\ reads' = <<>>

StartWrite(rest, msg) ==
    /\ IF socket_ = "closed"
       THEN /\ handlers' = rest \o Failed("handle_write", 1)
            /\ UNCHANGED writes
       ELSE /\ handlers' = rest
            /\ writes' = Append(writes, msg)
    /\ UNCHANGED <<socket_, connecting, reads>>

StartRead(rest, what) ==
    /\ IF socket_ = "closed"
       THEN /\ handlers' = Append(rest, Handler(what, FALSE, 0))
            /\ UNCHANGED reads
       ELSE /\ handlers' = rest
            /\ reads' = Append(reads, what)
    /\ UNCHANGED <<socket_, connecting, writes>>

NoFurther(rest) ==
    /\ handlers' = rest
    /\ UNCHANGED <<socket_, connecting, writes, reads>>

\* Mutant: every do_write starts its own async_write.
DoWriteAtOnce(rest, msg) ==
    /\ write_msgs_' = Append(write_msgs_, msg)
    /\ StartWrite(rest, msg)
    /\ UNCHANGED shown

DoWrite(rest, msg) ==
    /\ write_msgs_' = Append(write_msgs_, msg)
    /\ IF write_msgs_ = <<>> THEN StartWrite(rest, msg) ELSE NoFurther(rest)
    /\ UNCHANGED shown

\* Mutant: the message is dropped whether or not it was written.
HandleWritePopping(rest, ok) ==
    /\ write_msgs_' = Tail(write_msgs_)
    /\ IF ok /\ Len(write_msgs_) > 1
       THEN StartWrite(rest, write_msgs_[2])
       ELSE IF ok THEN NoFurther(rest) ELSE DoClose(rest)
    /\ UNCHANGED shown

\* Mutant: the next message is not started.
HandleWriteOnce(rest, ok) ==
    /\ IF ok THEN /\ write_msgs_' = Tail(write_msgs_)
                  /\ NoFurther(rest)
             ELSE /\ DoClose(rest)
                  /\ UNCHANGED write_msgs_
    /\ UNCHANGED shown

HandleWrite(rest, ok) ==
    /\ \/ /\ ok
          /\ write_msgs_' = Tail(write_msgs_)
          /\ IF Len(write_msgs_) > 1 THEN StartWrite(rest, write_msgs_[2])
                                     ELSE NoFurther(rest)
       \/ /\ ~ok
          /\ DoClose(rest)
          /\ UNCHANGED write_msgs_
    /\ UNCHANGED shown

\* An error is not looked into: nothing is closed and nothing is read.
HandleConnect(rest, ok) ==
    /\ IF ok THEN StartRead(rest, "header") ELSE NoFurther(rest)
    /\ UNCHANGED <<write_msgs_, shown>>

\* Mutant: after an error the next header is waited for.
HandleReadHeaderAgain(rest, ok) ==
    /\ IF ok THEN StartRead(rest, "body") ELSE StartRead(rest, "header")
    /\ UNCHANGED <<write_msgs_, shown>>

\* An error here is also a header that does not decode.
HandleReadHeader(rest, ok) ==
    /\ IF ok THEN StartRead(rest, "body") ELSE DoClose(rest)
    /\ UNCHANGED <<write_msgs_, shown>>

HandleReadBody(rest, ok) ==
    /\ \/ /\ ok
          /\ shown' = shown + 1
          /\ StartRead(rest, "header")
       \/ /\ ~ok
          /\ DoClose(rest)
          /\ UNCHANGED shown
    /\ UNCHANGED write_msgs_

-----------------------------------------------------------------------------
(* The thread in io_service::run.                                          *)

RunHandler ==
    /\ running
    /\ handlers # <<>>
    /\ LET h == Head(handlers)
           rest == Tail(handlers)
       IN  \/ h.op = "do_write" /\ DoWrite(rest, h.msg)
           \/ h.op = "do_close" /\ DoClose(rest) /\ UNCHANGED <<write_msgs_, shown>>
           \/ h.op = "handle_connect" /\ HandleConnect(rest, h.ok)
           \/ h.op = "handle_write" /\ HandleWrite(rest, h.ok)
           \/ h.op = "header" /\ HandleReadHeader(rest, h.ok)
           \/ h.op = "body" /\ HandleReadBody(rest, h.ok)
    /\ UNCHANGED <<mainVars, running, wire>>

\* run() returns when there is nothing left to wait for.
RunReturns ==
    /\ running
    /\ handlers = <<>>
    /\ ~connecting
    /\ writes = <<>>
    /\ reads = <<>>
    /\ running' = FALSE
    /\ UNCHANGED <<mainVars, ioVars, wire, shown>>

IoThread == RunHandler \/ RunReturns

-----------------------------------------------------------------------------
(* Completion of the operations.                                           *)

ConnectDone(ok) ==
    /\ connecting
    /\ connecting' = FALSE
    /\ socket_' = IF ok THEN "connected" ELSE "failed"
    /\ handlers' = Append(handlers, Handler("handle_connect", ok, 0))
    /\ UNCHANGED <<mainVars, running, writes, reads, write_msgs_, wire, shown>>

\* A write that is started while the socket is connecting waits for it, and
\* fails when connecting moves on to the next endpoint with a new socket.
WriteDone(ok) ==
    /\ writes # <<>>
    /\ ok => socket_ = "connected"
    /\ writes' = Tail(writes)
    /\ wire' = IF ok THEN Append(wire, Head(writes)) ELSE wire
    /\ handlers' = Append(handlers, Handler("handle_write", ok, 0))
    /\ UNCHANGED <<mainVars, running, socket_, connecting, reads, write_msgs_,
                   shown>>

ReadDone(ok) ==
    /\ reads # <<>>
    /\ socket_ = "connected"
    /\ ok => shown < MaxShown
    /\ reads' = Tail(reads)
    /\ handlers' = Append(handlers, Handler(Head(reads), ok, 0))
    /\ UNCHANGED <<mainVars, running, socket_, connecting, writes, write_msgs_,
                   wire, shown>>

-----------------------------------------------------------------------------
Next ==
    \/ Main
    \/ IoThread
    \/ \E ok \in BOOLEAN : running /\ (ConnectDone(ok) \/ WriteDone(ok) \/ ReadDone(ok))

Spec == Init /\ [][Next]_vars

(***************************************************************************)
(* The threads run when they can, connecting ends one way or the other,    *)
(* and a connected server goes on taking what is written to it.  Nobody    *)
(* has to type, and the server has to send nothing.                        *)
(***************************************************************************)
FairSpec ==
    /\ Spec
    /\ WF_vars(IoThread)
    /\ WF_vars(left > 0 /\ Main)
    /\ WF_vars(mainpc = "join" /\ Main)
    /\ WF_vars(running /\ \E ok \in BOOLEAN : ConnectDone(ok))
    /\ WF_vars(running /\ \E ok \in BOOLEAN : WriteDone(ok))

-----------------------------------------------------------------------------
(* Properties.                                                             *)

Ops == {"do_write", "do_close", "handle_connect", "handle_write", "header",
        "body"}
HandlerType == [op : Ops, ok : BOOLEAN, msg : Nat]

TypeOK ==
    /\ mainpc \in {"typing", "join", "done"}
    /\ lines \in 0 .. MaxLines
    /\ left \in 0 .. cnt_n
    /\ posted \in Nat
    /\ handlers \in Seq(HandlerType)
    /\ running \in BOOLEAN
    /\ socket_ \in {"connecting", "connected", "failed", "closed"}
    /\ connecting \in BOOLEAN
    /\ writes \in Seq(Nat)
    /\ reads \in Seq({"header", "body"})
    /\ write_msgs_ \in Seq(Nat)
    /\ wire \in Seq(Nat)
    /\ shown \in 0 .. MaxShown

\* The places of some handlers in the queue.
Queued(ops) == {k \in 1 .. Len(handlers) : handlers[k].op \in ops}

\* At most one operation is outstanding or has its handler queued.
OneUnderWay(started, ops) ==
    /\ Len(started) <= 1
    /\ \A j, k \in Queued(ops) : j = k
    /\ started # <<>> => Queued(ops) = {}

\* At most one write and one read are under way at any time, counting those
\* whose handler has not run: two would mix their bytes on the wire, or in
\* read_msg_.  And what is being written is the front of write_msgs_, whose
\* memory async_write uses (do_write's write_in_progress).
OneOfEach ==
    /\ OneUnderWay(writes, {"handle_write"})
    /\ OneUnderWay(reads, {"header", "body"})
    /\ writes # <<>> => write_msgs_ # <<>> /\ Head(write_msgs_) = Head(writes)

\* The messages of write_msgs_ that are not on the wire: the front is, once
\* its write has succeeded, though handle_write has yet to pop it.
Popping == \E k \in Queued({"handle_write"}) : handlers[k].ok
Unsent == IF Popping THEN Tail(write_msgs_) ELSE write_msgs_

\* Whatever fails, and whenever the client is closed: what was typed is on the
\* wire, in write_msgs_ or in a do_write that has not run, in this order, each
\* message once.
Conservation ==
    LET begun == wire \o Unsent
        waiting == Queued({"do_write"})
    IN  /\ \A k \in 1 .. Len(begun) : begun[k] = k
        /\ Len(begun) <= posted
        /\ {handlers[k].msg : k \in waiting} = Len(begun) + 1 .. posted
        /\ \A j, k \in waiting : j < k => handlers[j].msg < handlers[k].msg

(***************************************************************************)
(* The invariant that the safety properties above follow from.             *)
(***************************************************************************)

\* Every copy of every line is posted once.
PostInv == posted + left = lines * cnt_n

\* Connecting, its handler, the reads and theirs are one chain.
ReadChain == {"handle_connect", "header", "body"}

ReadInv ==
    /\ OneUnderWay(reads, ReadChain)
    /\ connecting => reads = <<>> /\ Queued(ReadChain) = {}
    /\ \A k \in Queued({"body"}) : handlers[k].ok => shown < MaxShown

\* While a write is under way its message is in front of write_msgs_, and stays
\* there until handle_write finds that it was written.
WriteInv ==
    /\ OneUnderWay(writes, {"handle_write"})
    /\ writes # <<>> => write_msgs_ # <<>> /\ writes[1] = write_msgs_[1]
    /\ Queued({"handle_write"}) # {} => write_msgs_ # <<>>

\* The messages on the wire, in write_msgs_ and in the do_writes are numbered
\* on from each other.
Base == Len(wire) - (IF Popping THEN 1 ELSE 0)

OrderInv ==
    /\ \A k \in 1 .. Len(wire) : wire[k] = k
    /\ \A k \in 1 .. Len(write_msgs_) : write_msgs_[k] = Base + k
    /\ Base + Len(write_msgs_) <= posted
    /\ \A k \in Queued({"do_write"}) :
           handlers[k].msg \in Base + Len(write_msgs_) + 1 .. posted
    /\ \A m \in Base + Len(write_msgs_) + 1 .. posted :
           \E k \in Queued({"do_write"}) : handlers[k].msg = m
    /\ \A j, k \in Queued({"do_write"}) : j < k => handlers[j].msg < handlers[k].msg

\* The two chains of handlers stay single, and no message leaves its place in
\* the order of typing.
ClientInv == TypeOK /\ PostInv /\ ReadInv /\ WriteInv /\ OrderInv

\* A message that was typed is written, unless the connection is lost or
\* closed first: handle_write starts the next one.
NothingStuck ==
    \A m \in 1 .. MaxLines * cnt_n :
        posted >= m ~> (\E k \in 1 .. Len(wire) : wire[k] = m)
                           \/ socket_ \in {"failed", "closed"}

\* main returns after the end of the input, whatever the connection is doing:
\* do_close ends what is outstanding, and nothing new is started.
JoinReturns == mainpc = "join" ~> mainpc = "done"
=============================================================================
