------------------------------ MODULE AsioChat ------------------------------
(***************************************************************************)
(* chat_client talking to the asio server of game.cpp: socket_server keeps *)
(* one async_accept under way, and a socket_session reads header and body  *)
(* in turn and writes what is delivered to it.  One thread runs all the    *)
(* handlers, the session's in the order in which they became ready.        *)
(* Neither class closes anything or looks into an error: a session is      *)
(* destroyed, and its socket closed with it, when no operation and no      *)
(* handler holds a pointer to it any more.                                 *)
(*                                                                         *)
(* The client is ChatClient, its messages the numbers of its do_writes;    *)
(* what is delivered to it are the numbers 1 to MaxShown.  Nothing in the  *)
(* tree calls deliver: any code of the server's thread may, while the      *)
(* session lives.  The line the session prints runs on to the next NUL of  *)
(* read_msg_, which is not cleared; what follows the message is left out.  *)
(***************************************************************************)
EXTENDS ChatClient, SequencesExt

VARIABLES
    acceptor,     \* "accepting", or how async_accept ended until its handler
                  \* has run: "accepted" or "failed"
    backlog,      \* the connection: "none", "waiting" or "accepted"
    shandlers,    \* the session's handlers that can run
    sreads,       \* the session's outstanding async_reads
    swrites,      \* the messages of its outstanding async_writes
    swrite_msgs_, \* the session's write_msgs_
    delivered,    \* messages delivered
    swire,        \* messages the session has written whole
    printed       \* messages the session has read and printed

sessionVars == <<sreads, swrites, swrite_msgs_, delivered, swire, printed>>
serverVars == <<acceptor, shandlers, sessionVars>>
chatVars == <<vars, backlog, serverVars>>

\* init_boost_asio: the constructor of socket_server calls start_accept.
ChatInit ==
    /\ Init
    /\ acceptor = "accepting"
    /\ backlog = "none"
    /\ shandlers = <<>>
    /\ sreads = <<>>
    /\ swrites = <<>>
    /\ swrite_msgs_ = <<>>
    /\ delivered = 0
    /\ swire = <<>>
    /\ printed = <<>>

-----------------------------------------------------------------------------
(* The handlers of socket_server and socket_session.                       *)

\* Mutant: the next connection is waited for only if this one was good.
HandleAcceptOnce ==
    /\ acceptor = "accepted"
    /\ acceptor' = "accepting"
    /\ sreads' = Append(sreads, "header")
    /\ UNCHANGED <<vars, backlog, shandlers, swrites, swrite_msgs_, delivered,
                   swire, printed>>

\* start() reads the first header, and start_accept() waits for the next
\* connection whether or not there was an error.
HandleAccept ==
    /\ acceptor # "accepting"
    /\ acceptor' = "accepting"
    /\ sreads' = IF acceptor = "accepted" THEN Append(sreads, "header") ELSE sreads
    /\ UNCHANGED <<vars, backlog, shandlers, swrites, swrite_msgs_, delivered,
                   swire, printed>>

\* Mutant: after an error the next header is read.
SessionReadHeaderAgain(ok) ==
    /\ sreads' = Append(sreads, IF ok THEN "body" ELSE "header")
    /\ UNCHANGED <<swrites, swrite_msgs_, delivered, swire, printed>>

\* The client's headers decode (Framing).
SessionReadHeader(ok) ==
    /\ sreads' = IF ok THEN Append(sreads, "body") ELSE sreads
    /\ UNCHANGED <<swrites, swrite_msgs_, delivered, swire, printed>>

SessionReadBody(ok) ==
    /\ sreads' = IF ok THEN Append(sreads, "header") ELSE sreads
    /\ printed' = IF ok THEN Append(printed, wire[Len(printed) + 1]) ELSE printed
    /\ UNCHANGED <<swrites, swrite_msgs_, delivered, swire>>

\* An error leaves the message in front, so that nothing is written again.
SessionWrite(ok) ==
    /\ IF ok THEN /\ swrite_msgs_' = Tail(swrite_msgs_)
                  /\ swrites' = IF Len(swrite_msgs_) > 1
                                THEN Append(swrites, swrite_msgs_[2])
                                ELSE swrites
             ELSE UNCHANGED <<swrite_msgs_, swrites>>
    /\ UNCHANGED <<sreads, delivered, swire, printed>>

\* Something holds the session.
SessionLives ==
    acceptor = "accepted" \/ sreads # <<>> \/ swrites # <<>> \/ shandlers # <<>>

\* Mutant: every message starts its own async_write.
DeliverAtOnce ==
    /\ delivered < MaxShown
    /\ SessionLives
    /\ delivered' = delivered + 1
    /\ swrite_msgs_' = Append(swrite_msgs_, delivered + 1)
    /\ swrites' = Append(swrites, delivered + 1)
    /\ UNCHANGED <<vars, backlog, acceptor, shandlers, sreads, swire, printed>>

Deliver ==
    /\ delivered < MaxShown
    /\ SessionLives
    /\ delivered' = delivered + 1
    /\ swrite_msgs_' = Append(swrite_msgs_, delivered + 1)
    /\ swrites' = IF swrite_msgs_ = <<>> THEN Append(swrites, delivered + 1)
                                         ELSE swrites
    /\ UNCHANGED <<vars, backlog, acceptor, shandlers, sreads, swire, printed>>

RunSession ==
    /\ shandlers # <<>>
    /\ shandlers' = Tail(shandlers)
    /\ LET h == Head(shandlers)
       IN  \/ h.op = "header" /\ SessionReadHeader(h.ok)
           \/ h.op = "body" /\ SessionReadBody(h.ok)
           \/ h.op = "handle_write" /\ SessionWrite(h.ok)
    /\ UNCHANGED <<vars, backlog, acceptor>>

-----------------------------------------------------------------------------
(* Completion of the server's operations.                                  *)

AcceptDone(ok) ==
    /\ acceptor = "accepting"
    /\ ok => backlog = "waiting"
    /\ acceptor' = IF ok THEN "accepted" ELSE "failed"
    /\ backlog' = IF ok THEN "accepted" ELSE backlog
    /\ UNCHANGED <<vars, shandlers, sessionVars>>

\* A header may arrive while its message is still being written; if that
\* write fails, the body never comes.
Arrived(what) ==
    \/ Len(wire) > Len(printed)
    \/ what = "header" /\ writes # <<>> /\ socket_ = "connected"

SessionReadDone(ok) ==
    /\ sreads # <<>>
    /\ ok => Arrived(Head(sreads))
    /\ sreads' = Tail(sreads)
    /\ shandlers' = Append(shandlers, Handler(Head(sreads), ok, 0))
    /\ UNCHANGED <<vars, backlog, acceptor, swrites, swrite_msgs_, delivered,
                   swire, printed>>

\* Two writes on one socket would mix: either may be the first to end.
SessionWriteDone(ok) ==
    \E k \in DOMAIN swrites :
        /\ swrites' = RemoveAt(swrites, k)
        /\ swire' = IF ok THEN Append(swire, swrites[k]) ELSE swire
        /\ shandlers' = Append(shandlers, Handler("handle_write", ok, 0))
        /\ UNCHANGED <<vars, backlog, acceptor, sreads, swrite_msgs_,
                       delivered, printed>>

-----------------------------------------------------------------------------
(* The client's network is this server: it reads what the session wrote.   *)

ClientConnect(ok) ==
    /\ ConnectDone(ok)
    /\ backlog' = IF ok THEN "waiting" ELSE backlog
    /\ UNCHANGED serverVars

ClientRead(ok) ==
    /\ ReadDone(ok)
    /\ ok => shown < Len(swire)
    /\ UNCHANGED <<backlog, serverVars>>

ChatNext ==
    \/ (Main \/ IoThread) /\ UNCHANGED <<backlog, serverVars>>
    \/ \E ok \in BOOLEAN :
           /\ running
           /\ \/ ClientConnect(ok)
              \/ WriteDone(ok) /\ UNCHANGED <<backlog, serverVars>>
              \/ ClientRead(ok)
    \/ HandleAccept
    \/ RunSession
    \/ Deliver
    \/ \E ok \in BOOLEAN : AcceptDone(ok) \/ SessionReadDone(ok) \/ SessionWriteDone(ok)

ChatSpec == ChatInit /\ [][ChatNext]_chatVars

(***************************************************************************)
(* The client's fairness is ChatClient's.  The server's thread runs its    *)
(* handlers, what it writes is taken or refused, and a read ends when the  *)
(* client's socket is no longer open.  Nothing has to be delivered.        *)
(***************************************************************************)
ChatFairSpec ==
    /\ ChatSpec
    /\ WF_chatVars(IoThread /\ UNCHANGED <<backlog, serverVars>>)
    /\ WF_chatVars(left > 0 /\ Main /\ UNCHANGED <<backlog, serverVars>>)
    /\ WF_chatVars(mainpc = "join" /\ Main /\ UNCHANGED <<backlog, serverVars>>)
    /\ WF_chatVars(running /\ \E ok \in BOOLEAN : ClientConnect(ok))
    /\ WF_chatVars(running /\ \E ok \in BOOLEAN :
                       WriteDone(ok) /\ UNCHANGED <<backlog, serverVars>>)
    /\ WF_chatVars(HandleAccept)
    /\ WF_chatVars(RunSession)
    /\ WF_chatVars(\E ok \in BOOLEAN : SessionWriteDone(ok))
    /\ WF_chatVars(socket_ # "connected" /\ \E ok \in BOOLEAN : SessionReadDone(ok))

-----------------------------------------------------------------------------
(* Properties.                                                             *)

\* In both directions what comes out is a prefix of what was put in, whatever
\* fails: the session prints the typed messages from the first on, each once,
\* and writes the delivered ones in their order (deliver's write_in_progress
\* and handle_write's pop_front); the client shows no more than was written.
EndToEnd ==
    /\ IsPrefix(printed, [k \in 1 .. posted |-> k])
    /\ IsPrefix(swire, [k \in 1 .. delivered |-> k])
    /\ shown <= Len(swire)

(***************************************************************************)
(* The invariant that it follows from, with the client's.                  *)
(***************************************************************************)

ServerTypes ==
    /\ acceptor \in {"accepting", "accepted", "failed"}
    /\ backlog \in {"none", "waiting", "accepted"}
    /\ shandlers \in Seq(HandlerType)
    /\ sreads \in Seq({"header", "body"})
    /\ swrites \in Seq(Nat)
    /\ swrite_msgs_ \in Seq(Nat)
    /\ delivered \in 0 .. MaxShown
    /\ swire \in Seq(Nat)
    /\ printed \in Seq(Nat)

\* The places of some handlers among the session's.
SQueued(ops) == {k \in 1 .. Len(shandlers) : shandlers[k].op \in ops}

\* At most one of the session's operations is outstanding or has its handler
\* queued.
SOneUnderWay(started, ops) ==
    /\ Len(started) <= 1
    /\ \A j, k \in SQueued(ops) : j = k
    /\ started # <<>> => SQueued(ops) = {}

\* The connection is accepted once; accepting it and the session's reads are
\* one chain.  A body that has been read is the next message on the wire.
SReadInv ==
    /\ SOneUnderWay(sreads, {"header", "body"})
    /\ connecting => backlog = "none"
    /\ acceptor = "accepted" => backlog = "accepted"
    /\ acceptor = "accepted" \/ backlog # "accepted" =>
           sreads = <<>> /\ SQueued({"header", "body"}) = {}
    /\ \A k \in SQueued({"body"}) : shandlers[k].ok => Len(printed) < Len(wire)

\* deliver and handle_write start a write only when none is under way.
SWriteInv ==
    /\ SOneUnderWay(swrites, {"handle_write"})
    /\ swrites # <<>> => swrite_msgs_ # <<>> /\ swrites[1] = swrite_msgs_[1]
    /\ SQueued({"handle_write"}) # {} => swrite_msgs_ # <<>>

\* The front of the session's write_msgs_ is on the wire, once its write has
\* succeeded, though handle_write has yet to pop it.
SPopping == \E k \in SQueued({"handle_write"}) : shandlers[k].ok
SBase == Len(swire) - (IF SPopping THEN 1 ELSE 0)

\* Messages are numbered on, and nothing comes out that was not put in.
SOrderInv ==
    /\ \A k \in 1 .. Len(swire) : swire[k] = k
    /\ \A k \in 1 .. Len(swrite_msgs_) : swrite_msgs_[k] = SBase + k
    /\ SBase + Len(swrite_msgs_) = delivered
    /\ \A k \in 1 .. Len(printed) : printed[k] = k
    /\ Len(printed) <= Len(wire)

ShownInv ==
    /\ shown <= Len(swire)
    /\ \A k \in Queued({"body"}) : handlers[k].ok => shown < Len(swire)

\* Client and session keep one chain of reads and one of writes each, and the
\* messages of either direction their order: accepting, start() and the two
\* handle_reads, deliver and handle_write, do_write and handle_write.
ChatInv ==
    ClientInv /\ ServerTypes /\ SReadInv /\ SWriteInv /\ SOrderInv /\ ShownInv

\* A session whose client has ended is destroyed, and its socket with it:
\* nothing closes it, so every chain of handlers that holds it has to end.
SessionFreed == backlog = "accepted" /\ mainpc = "done" ~> ~SessionLives

\* socket_server comes back to async_accept again and again, after failed
\* accepts too: its io_service never runs out of work.
AcceptsAgain == []<>(acceptor = "accepting")

(***************************************************************************)
(* To whoever calls deliver the session is a mailbox: writing a message    *)
(* whole handles it, and handle_write's pop_front is no step of it.        *)
(***************************************************************************)

\* The messages delivered and not yet on the wire.
Unwritten == IF SPopping THEN Tail(swrite_msgs_) ELSE swrite_msgs_
MB == INSTANCE Mailbox WITH Item <- 1 .. MaxShown, pending <- Unwritten, handled <- swire
=============================================================================
