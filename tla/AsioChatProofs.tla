--------------------------- MODULE AsioChatProofs ---------------------------
(***************************************************************************)
(* What chat_client and the asio server promise together, for any input    *)
(* and any number of messages delivered: ChatInv is inductive, and the     *)
(* session is a mailbox to the callers of deliver.                         *)
(***************************************************************************)
EXTENDS AsioChat, ChatClientProofs

\* The composition restricts the client's network and nothing else: what holds
\* for chat_client with any network holds here.
LEMMA ChatImplementsClient == ChatSpec => Spec
<1>1. ChatInit => Init
  BY DEF ChatInit
<1>2. [ChatNext]_chatVars => [Next]_vars
  <2> SUFFICES ASSUME [ChatNext]_chatVars PROVE Next \/ UNCHANGED vars
    OBVIOUS
  <2>1. CASE UNCHANGED chatVars
    BY <2>1 DEF chatVars
  <2>2. CASE HandleAccept \/ RunSession \/ Deliver
    BY <2>2 DEF HandleAccept, RunSession, Deliver
  <2>3. ASSUME NEW ok \in BOOLEAN, AcceptDone(ok) \/ SessionReadDone(ok) \/ SessionWriteDone(ok)
        PROVE  UNCHANGED vars
    BY <2>3 DEF AcceptDone, SessionReadDone, SessionWriteDone
  <2>4. CASE Main \/ IoThread
    BY <2>4 DEF Next
  <2>5. ASSUME NEW ok \in BOOLEAN, running,
               ClientConnect(ok) \/ WriteDone(ok) \/ ClientRead(ok)
        PROVE  Next
    BY <2>5 DEF Next, ClientConnect, ClientRead
  <2> QED BY <2>1, <2>2, <2>3, <2>4, <2>5 DEF ChatNext
<1> QED BY <1>1, <1>2, PTL DEF ChatSpec, Spec

\* With the session for its server, too, the client never has two writes or two
\* reads under way, and nothing that was typed is lost, repeated or overtaken.
THEOREM ClientIsSafeHere == ChatSpec => []OneOfEach /\ []Conservation
BY ChatImplementsClient, OneOfEachHolds, TypedIsConserved, PTL

-----------------------------------------------------------------------------
(* The session's part of the invariant, for queues as ChatClientProofs     *)
(* treats them.                                                            *)

ReadOps == {"header", "body"}

SReadPart ==
    /\ Under(sreads, shandlers, ReadOps)
    /\ connecting => backlog = "none"
    /\ acceptor = "accepted" => backlog = "accepted"
    /\ acceptor = "accepted" \/ backlog # "accepted" =>
           sreads = <<>> /\ ~Has(shandlers, ReadOps)
    /\ \A k \in 1 .. Len(shandlers) :
           shandlers[k].op = "body" /\ shandlers[k].ok => Len(printed) < Len(wire)

SWritePart ==
    /\ Under(swrites, shandlers, {"handle_write"})
    /\ swrites # <<>> => swrite_msgs_ # <<>> /\ swrites[1] = swrite_msgs_[1]
    /\ Has(shandlers, {"handle_write"}) => swrite_msgs_ # <<>>

SStart == Len(swire) - (IF Pops(shandlers) THEN 1 ELSE 0)

SOrderPart ==
    /\ \A k \in 1 .. Len(swire) : swire[k] = k
    /\ \A k \in 1 .. Len(swrite_msgs_) : swrite_msgs_[k] = SStart + k
    /\ SStart + Len(swrite_msgs_) = delivered

PrintedPart ==
    /\ \A k \in 1 .. Len(printed) : printed[k] = k
    /\ Len(printed) <= Len(wire)

LEMMA SParts ==
    ServerTypes => /\ SReadInv <=> SReadPart
                   /\ SWriteInv <=> SWritePart
                   /\ SOrderInv <=> SOrderPart /\ PrintedPart
<1> SUFFICES ASSUME ServerTypes
             PROVE  /\ SReadInv <=> SReadPart
                    /\ SWriteInv <=> SWritePart
                    /\ SOrderInv <=> SOrderPart /\ PrintedPart
  OBVIOUS
<1>1. \A k \in 1 .. Len(shandlers) : shandlers[k].ok \in BOOLEAN
  BY HandlerFields DEF ServerTypes
<1>2. SReadInv <=> SReadPart
  BY DEF SReadInv, SReadPart, SOneUnderWay, Under, SQueued, Has, ReadOps
<1>3. SWriteInv <=> SWritePart
  BY DEF SWriteInv, SWritePart, SOneUnderWay, Under, SQueued, Has
<1>4. SPopping <=> Pops(shandlers)
  BY <1>1 DEF SPopping, Pops, SQueued
<1>5. SBase = SStart
  BY <1>4 DEF SBase, SStart
<1>6. SOrderInv <=> SOrderPart /\ PrintedPart
  BY <1>5 DEF SOrderInv, SOrderPart, PrintedPart
<1> QED BY <1>2, <1>3, <1>6

LEMMA SPartsNext ==
    ServerTypes' => /\ (SReadInv <=> SReadPart)'
                    /\ (SWriteInv <=> SWritePart)'
                    /\ (SOrderInv <=> SOrderPart /\ PrintedPart)'
<1> SUFFICES ASSUME ServerTypes'
             PROVE  /\ (SReadInv <=> SReadPart)'
                    /\ (SWriteInv <=> SWritePart)'
                    /\ (SOrderInv <=> SOrderPart /\ PrintedPart)'
  OBVIOUS
<1>1. \A k \in 1 .. Len(shandlers') : shandlers'[k].ok \in BOOLEAN
  BY HandlerFields DEF ServerTypes
<1>2. (SReadInv <=> SReadPart)'
  BY DEF SReadInv, SReadPart, SOneUnderWay, Under, SQueued, Has, ReadOps
<1>3. (SWriteInv <=> SWritePart)'
  BY DEF SWriteInv, SWritePart, SOneUnderWay, Under, SQueued, Has
<1>4. (SPopping <=> Pops(shandlers))'
  BY <1>1 DEF SPopping, Pops, SQueued
<1>5. (SBase = SStart)'
  BY <1>4 DEF SBase, SStart
<1>6. (SOrderInv <=> SOrderPart /\ PrintedPart)'
  BY <1>5 DEF SOrderInv, SOrderPart, PrintedPart
<1> QED BY <1>2, <1>3, <1>6

\* The session's part of ChatInv.
SessionInv == ServerTypes /\ SReadPart /\ SWritePart /\ SOrderPart /\ PrintedPart

LEMMA ChatParts == ChatInv <=> ClientInv /\ SessionInv /\ ShownInv
BY SParts DEF ChatInv, SessionInv

LEMMA ChatPartsNext == ChatInv' <=> ClientInv' /\ SessionInv' /\ ShownInv'
BY SPartsNext DEF ChatInv, SessionInv

LEMMA RemoveOnly ==
    ASSUME NEW S, NEW s \in Seq(S), Len(s) <= 1, NEW k \in DOMAIN s
    PROVE  k = 1 /\ s # <<>> /\ RemoveAt(s, k) = <<>>
<1>1. k \in 1 .. Len(s) /\ Len(s) \in Nat
  OBVIOUS
<1>2. k = 1 /\ Len(s) = 1
  <2>1. PICK n \in Nat : n = Len(s)
    BY <1>1
  <2>2. k \in 1 .. n /\ n <= 1
    BY <1>1, <2>1
  <2>3. k = 1 /\ n = 1
    BY <2>2
  <2> QED BY <2>1, <2>3
<1>3. SubSeq(s, 1, 0) = <<>> /\ SubSeq(s, 2, 1) = <<>>
  OBVIOUS
<1>4. RemoveAt(s, k) = SubSeq(s, 1, 0) \o SubSeq(s, 2, 1)
  BY <1>2 DEF RemoveAt
<1>5. <<>> \o <<>> = <<>>
  OBVIOUS
<1> QED BY <1>2, <1>3, <1>4, <1>5

-----------------------------------------------------------------------------
(* The client's steps.                                                     *)

\* Behind the handler that has run, only failures join the client's queue.
LEMMA RunQueues ==
    ASSUME ClientInv, RunHandler
    PROVE  /\ handlers \in Seq(HandlerType) /\ handlers # <<>>
           /\ \E extra \in Seq(HandlerType) :
                  handlers' = Tail(handlers) \o extra /\ Failures(extra)
           /\ shown' = shown \/ (handlers[1].op = "body" /\ handlers[1].ok /\ shown' = shown + 1)
           /\ connecting' => connecting
           /\ UNCHANGED wire
<1> DEFINE rest == Tail(handlers)
<1>1. /\ TypeOK /\ ReadInv /\ WriteInv /\ handlers \in Seq(HandlerType) /\ handlers # <<>>
      /\ Head(handlers) = handlers[1] /\ rest \in Seq(HandlerType)
  BY DEF ClientInv, TypeOK, RunHandler
<1>2. \/ DoClose(rest)
      \/ NoFurther(rest)
      \/ \E msg : StartWrite(rest, msg)
      \/ \E what \in {"header", "body"} : StartRead(rest, what)
  BY DEF RunHandler, DoWrite, HandleConnect, HandleWrite, HandleReadHeader,
     HandleReadBody
<1>3. shown' = shown \/ (handlers[1].op = "body" /\ handlers[1].ok /\ shown' = shown + 1)
  BY <1>1 DEF RunHandler, DoWrite, HandleConnect, HandleWrite, HandleReadHeader,
     HandleReadBody
<1>4. connecting' => connecting
  BY <1>2 DEF DoClose, NoFurther, StartWrite, StartRead
<1>5. CASE DoClose(rest)
  BY <1>1, <1>3, <1>4, <1>5, CloseFails DEF RunHandler
<1>6. CASE handlers' = rest
  BY <1>1, <1>3, <1>4, <1>6, NoExtra DEF RunHandler
<1>7. ASSUME NEW op \in {"handle_write", "header", "body"},
             handlers' = rest \o Failed(op, 1) \/ handlers' = Append(rest, Failure(op))
      PROVE  \E extra \in Seq(HandlerType) :
                  handlers' = Tail(handlers) \o extra /\ Failures(extra)
  BY <1>1, <1>7, OneExtra
<1>8. CASE NoFurther(rest)
  BY <1>6, <1>8 DEF NoFurther
<1>9. ASSUME NEW msg, StartWrite(rest, msg)
      PROVE  handlers' = rest \/ handlers' = rest \o Failed("handle_write", 1)
  BY <1>9 DEF StartWrite
<1>10. ASSUME NEW what \in {"header", "body"}, StartRead(rest, what)
       PROVE  handlers' = rest \/ handlers' = Append(rest, Failure(what))
  BY <1>10 DEF StartRead, Failure
<1>11. \E extra \in Seq(HandlerType) : handlers' = Tail(handlers) \o extra /\ Failures(extra)
  BY <1>2, <1>5, <1>6, <1>7, <1>8, <1>9, <1>10
<1> QED BY <1>1, <1>3, <1>4, <1>11 DEF RunHandler

\* The steps of the client leave the session as it is; what the client has
\* read is what the session has written.
LEMMA ShownSame ==
    ASSUME ShownInv, UNCHANGED <<handlers, shown, swire>>
    PROVE  ShownInv'
BY DEF ShownInv, Queued

\* A handler that is no successful read of a body joins the client's queue.
LEMMA ShownGrows ==
    ASSUME ShownInv, TypeOK, NEW h \in HandlerType, handlers' = Append(handlers, h),
           h.op = "body" /\ h.ok => shown < Len(swire), UNCHANGED <<shown, swire>>
    PROVE  ShownInv'
<1>1. handlers \in Seq(HandlerType)
  BY DEF TypeOK
<1>2. \A k \in 1 .. Len(handlers') :
             (k \in 1 .. Len(handlers) /\ handlers'[k] = handlers[k]) \/ handlers'[k] = h
  BY <1>1, QueueGrows
<1> QED BY <1>2 DEF ShownInv, Queued

LEMMA ShownRun ==
    ASSUME ClientInv, ServerTypes, ShownInv, RunHandler, UNCHANGED swire
    PROVE  ShownInv'
<1>1. /\ handlers \in Seq(HandlerType) /\ handlers # <<>>
      /\ shown' = shown \/ (handlers[1].op = "body" /\ handlers[1].ok /\ shown' = shown + 1)
  BY RunQueues
<1>2. PICK extra \in Seq(HandlerType) : handlers' = Tail(handlers) \o extra /\ Failures(extra)
  BY RunQueues
<1>3. PICK l \in Nat : l = Len(handlers) - 1 /\ Len(handlers) = l + 1
  <2>1. Len(handlers) \in Nat \ {0}
    BY <1>1, EmptySeq
  <2>2. Len(handlers) - 1 \in Nat /\ Len(handlers) = (Len(handlers) - 1) + 1
    BY <2>1
  <2> QED BY <2>2
<1>4. ReadPart /\ shown \in Nat /\ Len(swire) \in Nat
  BY Parts, MaxShownAssumption DEF ClientInv, TypeOK, ServerTypes
<1>5. ASSUME NEW k \in 1 .. Len(handlers'), handlers'[k].op = "body", handlers'[k].ok
      PROVE  shown < Len(swire) /\ handlers[1].op # "body"
  <2>2. /\ k <= l => k \in 1 .. l /\ handlers'[k] = handlers[k + 1]
        /\ k > l => k - l \in 1 .. Len(extra) /\ handlers'[k] = extra[k - l]
    BY <1>1, <1>2, <1>3, QueueMoves
  <2>3. ~(k > l)
    BY <1>2, <1>5, <2>2 DEF Failures
  <2>4. /\ k \in 1 .. l /\ k + 1 \in 1 .. Len(handlers)
        /\ handlers[k + 1].op = "body" /\ handlers[k + 1].ok
    BY <1>3, <1>5, <2>2, <2>3
  <2>5. shown < Len(swire)
    BY <2>4 DEF ShownInv, Queued
  <2>6. handlers[1].op # "body"
    <3> SUFFICES ASSUME handlers[1].op = "body" PROVE FALSE
      OBVIOUS
    <3>1. 1 = k + 1
      BY <1>3, <1>4, <2>4 DEF ReadPart, Under, ReadChain
    <3> QED BY <2>4, <3>1
  <2> QED BY <2>5, <2>6
<1>6. handlers[1].op = "body" /\ handlers[1].ok => shown < Len(swire)
  BY <1>3 DEF ShownInv, Queued
<1>7. shown' <= Len(swire)
  BY <1>1, <1>4, <1>6 DEF ShownInv
<1> QED BY <1>1, <1>5, <1>7 DEF ShownInv, Queued

\* What a step of the client has to keep for the session.
LEMMA SessionSame ==
    ASSUME SessionInv, UNCHANGED serverVars, connecting' => connecting /\ backlog' = backlog,
           backlog' # backlog => backlog # "accepted" /\ backlog' = "waiting",
           Len(wire) \in Nat, Len(wire') \in Nat, Len(wire) <= Len(wire')
    PROVE  SessionInv'
<1>1. UNCHANGED <<acceptor, shandlers, sreads, swrites, swrite_msgs_, delivered, swire, printed>>
  BY DEF serverVars, sessionVars
<1>2. ServerTypes'
  BY <1>1 DEF SessionInv, ServerTypes
<1>3. printed \in Seq(Nat) /\ Len(printed) \in Nat
  BY DEF SessionInv, ServerTypes
<1>4. SReadPart'
  BY <1>1, <1>3 DEF SessionInv, SReadPart
<1>5. SWritePart'
  BY <1>1 DEF SessionInv, SWritePart
<1>6. SStart' = SStart
  BY <1>1 DEF SStart
<1>7. SOrderPart'
  BY <1>1, <1>6 DEF SessionInv, SOrderPart
<1>8. PrintedPart'
  BY <1>1, <1>3 DEF SessionInv, PrintedPart
<1> QED BY <1>2, <1>4, <1>5, <1>7, <1>8 DEF SessionInv

LEMMA ClientKeeps ==
    ASSUME ClientInv, SessionInv, ShownInv, ClientInv',
           \/ (Main \/ IoThread) /\ UNCHANGED <<backlog, serverVars>>
           \/ \E ok \in BOOLEAN :
                  \/ ClientConnect(ok)
                  \/ WriteDone(ok) /\ UNCHANGED <<backlog, serverVars>>
                  \/ ClientRead(ok)
    PROVE  SessionInv' /\ ShownInv'
<1>0. TypeOK /\ wire \in Seq(Nat) /\ wire' \in Seq(Nat) /\ ServerTypes
  BY DEF ClientInv, TypeOK, SessionInv
<1>1. Len(wire) \in Nat /\ Len(wire') \in Nat
  BY <1>0
<1>2. serverVars' = serverVars => swire' = swire
  BY DEF serverVars, sessionVars
<1>3. CASE Main /\ UNCHANGED <<backlog, serverVars>>
  <2>1. UNCHANGED <<connecting, wire, shown>>
    BY <1>3 DEF Main, ReadLine, Write, Close, Join, ioVars
  <2>2. SessionInv'
    <3>1. Len(wire) <= Len(wire')
      BY <1>1, <2>1
    <3> QED BY <1>1, <1>3, <2>1, <3>1, SessionSame
  <2>3. \/ handlers' = handlers
        \/ \E h \in HandlerType : h.op # "body" /\ handlers' = Append(handlers, h)
    <3>1. CASE ReadLine \/ Join
      BY <3>1 DEF ReadLine, Join, ioVars
    <3>2. CASE Write
      <4>1. PICK h : h = Handler("do_write", TRUE, posted + 1)
        OBVIOUS
      <4>2. h \in HandlerType /\ h.op = "do_write"
        BY <1>0, <4>1 DEF Handler, HandlerType, Ops, TypeOK
      <4>3. handlers' = Append(handlers, h)
        BY <3>2, <4>1 DEF Write
      <4> QED BY <4>2, <4>3
    <3>3. CASE Close
      <4>1. PICK h : h = Handler("do_close", TRUE, 0)
        OBVIOUS
      <4>2. h \in HandlerType /\ h.op = "do_close"
        BY <4>1 DEF Handler, HandlerType, Ops
      <4>3. handlers' = Append(handlers, h)
        BY <3>3, <4>1 DEF Close
      <4> QED BY <4>2, <4>3
    <3> QED BY <1>3, <3>1, <3>2, <3>3 DEF Main
  <2>4. ASSUME NEW h \in HandlerType, h.op # "body", handlers' = Append(handlers, h)
        PROVE  ShownInv'
    BY <1>0, <1>2, <1>3, <2>1, <2>4, ShownGrows
  <2>5. ShownInv'
    BY <1>2, <1>3, <2>1, <2>3, <2>4, ShownSame
  <2> QED BY <2>2, <2>5
<1>4. CASE RunHandler /\ UNCHANGED <<backlog, serverVars>>
  <2>1. (connecting' => connecting) /\ UNCHANGED wire
    BY <1>4, RunQueues
  <2>2. SessionInv'
    <3>1. Len(wire) <= Len(wire')
      BY <1>1, <2>1
    <3> QED BY <1>1, <1>4, <2>1, <3>1, SessionSame
  <2> QED BY <1>0, <1>2, <1>4, <2>2, ShownRun
<1>5. CASE RunReturns /\ UNCHANGED <<backlog, serverVars>>
  <2>1. UNCHANGED <<connecting, wire, shown, handlers>>
    BY <1>5 DEF RunReturns, ioVars
  <2>2. Len(wire) <= Len(wire')
    BY <1>1, <2>1
  <2> QED BY <1>1, <1>2, <1>5, <2>1, <2>2, SessionSame, ShownSame
<1>6. ASSUME NEW ok \in BOOLEAN, ClientConnect(ok) PROVE SessionInv' /\ ShownInv'
  <2>1. /\ connecting /\ connecting' = FALSE /\ UNCHANGED <<wire, shown, serverVars>>
        /\ handlers' = Append(handlers, Handler("handle_connect", ok, 0))
        /\ backlog' \in {backlog, "waiting"}
    BY <1>6 DEF ClientConnect, ConnectDone
  <2>2. backlog = "none"
    BY <2>1 DEF SessionInv, SReadPart
  <2>3. Len(wire) <= Len(wire')
    BY <1>1, <2>1
  <2>4. SessionInv'
    BY <1>1, <2>1, <2>2, <2>3, SessionSame
  <2>5. /\ Handler("handle_connect", ok, 0) \in HandlerType
        /\ Handler("handle_connect", ok, 0).op = "handle_connect"
    BY HandlerIsTyped DEF Ops
  <2>6. ShownInv'
    BY <1>0, <1>2, <2>1, <2>5, ShownGrows
  <2> QED BY <2>4, <2>6
<1>7. ASSUME NEW ok \in BOOLEAN, WriteDone(ok), UNCHANGED <<backlog, serverVars>>
      PROVE  SessionInv' /\ ShownInv'
  <2>1. /\ UNCHANGED <<connecting, shown>>
        /\ handlers' = Append(handlers, Handler("handle_write", ok, 0))
        /\ writes # <<>> /\ wire' = IF ok THEN Append(wire, Head(writes)) ELSE wire
    BY <1>7 DEF WriteDone
  <2>2. Len(wire) <= Len(wire')
    <3>1. Head(writes) \in Nat
      BY <1>0, <2>1 DEF TypeOK
    <3>2. Len(Append(wire, Head(writes))) = Len(wire) + 1
      BY <1>0, <3>1
    <3>3. Len(wire) <= Len(wire) + 1 /\ Len(wire) <= Len(wire)
      BY <1>1
    <3> QED BY <2>1, <3>2, <3>3
  <2>3. SessionInv'
    BY <1>1, <1>7, <2>1, <2>2, SessionSame
  <2>4. /\ Handler("handle_write", ok, 0) \in HandlerType
        /\ Handler("handle_write", ok, 0).op = "handle_write"
    BY HandlerIsTyped DEF Ops
  <2>5. ShownInv'
    BY <1>0, <1>2, <1>7, <2>1, <2>4, ShownGrows
  <2> QED BY <2>3, <2>5
<1>8. ASSUME NEW ok \in BOOLEAN, ClientRead(ok) PROVE SessionInv' /\ ShownInv'
  <2>1. /\ UNCHANGED <<connecting, shown, wire, backlog, serverVars>>
        /\ reads # <<>> /\ handlers' = Append(handlers, Handler(Head(reads), ok, 0))
        /\ ok => shown < Len(swire)
    BY <1>8 DEF ClientRead, ReadDone
  <2>2. Len(wire) <= Len(wire')
    BY <1>1, <2>1
  <2>3. SessionInv'
    BY <1>1, <2>1, <2>2, SessionSame
  <2>4. Head(reads) \in {"header", "body"}
    BY <1>0, <2>1 DEF TypeOK
  <2>5. PICK h \in HandlerType : h = Handler(Head(reads), ok, 0) /\ h.ok = ok
    BY <2>4, HandlerIsTyped DEF Ops
  <2>6. ShownInv'
    BY <1>0, <1>2, <2>1, <2>5, ShownGrows
  <2> QED BY <2>3, <2>6
<1> QED BY <1>3, <1>4, <1>5, <1>6, <1>7, <1>8 DEF IoThread

-----------------------------------------------------------------------------
(* The server's steps.                                                     *)

Writing == {"handle_write"}

\* A step of the server takes nothing back that the session has written.
LEMMA ShownMore ==
    ASSUME ClientInv, ServerTypes, ServerTypes', ShownInv, UNCHANGED vars,
           Len(swire) <= Len(swire')
    PROVE  ShownInv'
<1>1. UNCHANGED <<handlers, shown>>
  BY DEF vars, ioVars
<1>2. shown \in 0 .. MaxShown
  BY DEF ClientInv, TypeOK
<1>3. swire \in Seq(Nat) /\ swire' \in Seq(Nat)
  BY DEF ServerTypes
<1>4. shown \in Nat /\ Len(swire) \in Nat /\ Len(swire') \in Nat
  BY <1>2, <1>3, MaxShownAssumption
<1> QED BY <1>1, <1>4 DEF ShownInv, Queued

\* The session's reads go on, its writes stay as they are.
LEMMA WritesStay ==
    ASSUME SessionInv, UNCHANGED <<swrites, swrite_msgs_, delivered, swire>>,
           Under(swrites, shandlers', Writing),
           Has(shandlers', Writing) => Has(shandlers, Writing),
           Pops(shandlers') <=> Pops(shandlers)
    PROVE  SWritePart' /\ SOrderPart'
<1>1. SWritePart'
  BY DEF SessionInv, SWritePart, Writing
<1>2. SStart' = SStart
  BY DEF SStart
<1>3. SOrderPart'
  BY <1>2 DEF SessionInv, SOrderPart
<1> QED BY <1>1, <1>3

\* Its writes go on, its reads stay as they are.
LEMMA ReadsStay ==
    ASSUME SessionInv, UNCHANGED <<vars, acceptor, backlog, sreads, printed>>,
           Under(sreads, shandlers', ReadOps),
           \A k \in 1 .. Len(shandlers') : shandlers'[k].op \in ReadOps =>
               \E j \in 1 .. Len(shandlers) : shandlers[j] = shandlers'[k]
    PROVE  SReadPart' /\ PrintedPart'
<1>1. UNCHANGED <<connecting, wire>>
  BY DEF vars, ioVars
<1>2. Has(shandlers', ReadOps) => Has(shandlers, ReadOps)
  BY DEF Has
<1>3. \A k \in 1 .. Len(shandlers') :
          shandlers'[k].op = "body" /\ shandlers'[k].ok => Len(printed) < Len(wire)
  BY DEF ReadOps, SessionInv, SReadPart
<1>4. SReadPart'
  BY <1>1, <1>2, <1>3 DEF SessionInv, SReadPart
<1>5. PrintedPart'
  BY <1>1 DEF SessionInv, PrintedPart
<1> QED BY <1>4, <1>5

LEMMA AcceptKeeps ==
    ASSUME ClientInv, SessionInv,
           HandleAccept \/ \E ok \in BOOLEAN : AcceptDone(ok)
    PROVE  SessionInv' /\ swire' = swire
<1>1. /\ UNCHANGED <<vars, shandlers, swrites, swrite_msgs_, delivered, swire, printed>>
      /\ UNCHANGED <<connecting, wire>>
  BY DEF HandleAccept, AcceptDone, sessionVars, vars, ioVars
<1>2. /\ ServerTypes /\ SReadPart /\ SWritePart /\ SOrderPart /\ PrintedPart
      /\ sreads \in Seq({"header", "body"})
  BY DEF SessionInv, ServerTypes
<1>3. SWritePart' /\ PrintedPart'
  BY <1>1, <1>2 DEF SWritePart, PrintedPart
<1>4. SStart' = SStart
  BY <1>1 DEF SStart
<1>5. SOrderPart'
  BY <1>1, <1>2, <1>4 DEF SOrderPart
<1>6. CASE HandleAccept
  <2>1. /\ acceptor # "accepting" /\ acceptor' = "accepting" /\ backlog' = backlog
        /\ sreads' = IF acceptor = "accepted" THEN Append(sreads, "header") ELSE sreads
    BY <1>6 DEF HandleAccept
  <2>2. ServerTypes'
    <3>1. sreads' \in Seq({"header", "body"})
      BY <1>2, <2>1
    <3> QED BY <1>1, <1>2, <2>1, <3>1 DEF ServerTypes
  <2>3. CASE acceptor = "accepted"
    <3>1. backlog = "accepted" /\ sreads = <<>> /\ ~Has(shandlers, ReadOps)
      BY <1>2, <2>3 DEF SReadPart
    <3>2. Len(sreads') = 1
      BY <2>1, <2>3, <3>1
    <3>3. Under(sreads', shandlers, ReadOps)
      BY <1>2, <3>1, <3>2 DEF SReadPart, Under
    <3>4. SReadPart'
      BY <1>1, <1>2, <2>1, <3>1, <3>3 DEF SReadPart
    <3> QED BY <1>1, <1>3, <1>5, <2>2, <3>4 DEF SessionInv
  <2>4. CASE acceptor # "accepted"
    <3>1. SReadPart'
      BY <1>1, <1>2, <2>1, <2>4 DEF SReadPart
    <3> QED BY <1>1, <1>3, <1>5, <2>2, <3>1 DEF SessionInv
  <2> QED BY <2>3, <2>4
<1>7. ASSUME NEW ok \in BOOLEAN, AcceptDone(ok)
      PROVE  SessionInv' /\ swire' = swire
  <2>1. /\ acceptor = "accepting" /\ (ok => backlog = "waiting")
        /\ acceptor' = IF ok THEN "accepted" ELSE "failed"
        /\ backlog' = IF ok THEN "accepted" ELSE backlog
        /\ sreads' = sreads
    BY <1>7 DEF AcceptDone, sessionVars
  <2>2. ServerTypes'
    BY <1>1, <1>2, <2>1 DEF ServerTypes
  <2>3. SReadPart'
    BY <1>1, <1>2, <2>1 DEF SReadPart
  <2> QED BY <1>1, <1>3, <1>5, <2>2, <2>3 DEF SessionInv
<1> QED BY <1>6, <1>7

LEMMA SessionReadKeeps ==
    ASSUME ClientInv, SessionInv, NEW ok \in BOOLEAN, SessionReadDone(ok)
    PROVE  SessionInv' /\ swire' = swire
<1>1. /\ ServerTypes /\ SReadPart /\ SWritePart /\ SOrderPart /\ PrintedPart
      /\ sreads \in Seq({"header", "body"}) /\ shandlers \in Seq(HandlerType)
  BY DEF SessionInv, ServerTypes
<1>2. /\ sreads # <<>> /\ sreads' = Tail(sreads) /\ (ok => Arrived(Head(sreads)))
      /\ shandlers' = Append(shandlers, Handler(Head(sreads), ok, 0))
      /\ UNCHANGED <<vars, backlog, acceptor, swrites, swrite_msgs_, delivered, swire, printed>>
      /\ UNCHANGED <<connecting, wire>>
  BY DEF SessionReadDone, vars, ioVars
<1>3. sreads' = <<>>
  <2>1. Len(sreads) <= 1
    BY <1>1 DEF SReadPart, Under
  <2> QED BY <1>1, <1>2, <2>1, TailOfOne
<1>4. Head(sreads) \in {"header", "body"}
  BY <1>1, <1>2
<1>5. PICK h \in HandlerType : h = Handler(Head(sreads), ok, 0) /\ h.ok = ok /\ h.op = Head(sreads)
  BY <1>4, HandlerIsTyped DEF Ops
<1>6. h.op \in ReadOps /\ h.op \notin Writing /\ h.op # "handle_write"
  BY <1>4, <1>5 DEF ReadOps, Writing
<1>7. shandlers' = Append(shandlers, h)
  BY <1>2, <1>5
<1>8. ~Has(shandlers, ReadOps) /\ acceptor # "accepted" /\ backlog = "accepted"
  BY <1>1, <1>2 DEF SReadPart, Under
<1>9. /\ shandlers' \in Seq(HandlerType)
      /\ \A k \in 1 .. Len(shandlers') :
             (k \in 1 .. Len(shandlers) /\ shandlers'[k] = shandlers[k]) \/ shandlers'[k] = h
  BY <1>1, <1>7, QueueGrows
<1>10. ServerTypes'
  <2>1. <<>> \in Seq({"header", "body"})
    OBVIOUS
  <2> QED BY <1>1, <1>2, <1>3, <1>9, <2>1 DEF ServerTypes
<1>11. SReadPart'
  <2>1. Under(<<>>, shandlers', ReadOps)
    BY <1>1, <1>7, <1>8, UnderOwn
  <2>2. \A k \in 1 .. Len(shandlers) : shandlers[k].op # "body"
    BY <1>8 DEF Has, ReadOps
  <2>3. h.op = "body" /\ h.ok => Len(printed) < Len(wire)
    <3>1. Len(printed) \in Nat /\ Len(wire) \in Nat
      BY <1>1 DEF ServerTypes, ClientInv, TypeOK
    <3> QED BY <1>2, <1>5, <3>1 DEF Arrived
  <2>4. \A k \in 1 .. Len(shandlers') :
            shandlers'[k].op = "body" /\ shandlers'[k].ok => Len(printed) < Len(wire)
    BY <1>9, <2>2, <2>3
  <2> QED BY <1>1, <1>2, <1>3, <1>8, <2>1, <2>4 DEF SReadPart
<1>12. SWritePart' /\ SOrderPart'
  <2>1. Under(swrites, shandlers', Writing)
    BY <1>1, <1>6, <1>7, UnderOther DEF SWritePart, Writing
  <2>2. Has(shandlers', Writing) => Has(shandlers, Writing)
    BY <1>1, <1>6, <1>7, HasGrows
  <2>3. Pops(shandlers') <=> Pops(shandlers)
    BY <1>1, <1>6, <1>7, PopsAppend
  <2> QED BY <1>2, <2>1, <2>2, <2>3, WritesStay
<1>13. PrintedPart'
  BY <1>1, <1>2 DEF PrintedPart
<1> QED BY <1>2, <1>10, <1>11, <1>12, <1>13 DEF SessionInv

LEMMA SessionWriteKeeps ==
    ASSUME ClientInv, SessionInv, NEW ok \in BOOLEAN, SessionWriteDone(ok)
    PROVE  SessionInv' /\ Len(swire) <= Len(swire')
<1>1. /\ ServerTypes /\ SReadPart /\ SWritePart /\ SOrderPart /\ PrintedPart
      /\ swrites \in Seq(Nat) /\ swire \in Seq(Nat) /\ swrite_msgs_ \in Seq(Nat)
      /\ delivered \in Nat /\ shandlers \in Seq(HandlerType)
  BY MaxShownAssumption DEF SessionInv, ServerTypes
<1>2. PICK i \in DOMAIN swrites :
          /\ swrites' = RemoveAt(swrites, i)
          /\ swire' = IF ok THEN Append(swire, swrites[i]) ELSE swire
          /\ shandlers' = Append(shandlers, Handler("handle_write", ok, 0))
          /\ UNCHANGED <<vars, backlog, acceptor, sreads, swrite_msgs_, delivered, printed>>
  BY DEF SessionWriteDone
<1>3. i = 1 /\ swrites # <<>> /\ swrites' = <<>>
  <2>1. Len(swrites) <= 1
    BY <1>1 DEF SWritePart, Under
  <2> QED BY <1>1, <1>2, <2>1, RemoveOnly
<1>4. swrites[1] = swrite_msgs_[1] /\ swrite_msgs_ # <<>> /\ ~Has(shandlers, Writing)
  BY <1>1, <1>3 DEF SWritePart, Under, Writing
<1>5. PICK h \in HandlerType :
          h = Handler("handle_write", ok, 0) /\ h.ok = ok /\ h.op = "handle_write"
  BY HandlerIsTyped DEF Ops
<1>6. shandlers' = Append(shandlers, h) /\ h.op \notin ReadOps /\ h.op \in Writing
  BY <1>2, <1>5 DEF ReadOps, Writing
<1>7. /\ shandlers' \in Seq(HandlerType)
      /\ \A k \in 1 .. Len(shandlers') :
             (k \in 1 .. Len(shandlers) /\ shandlers'[k] = shandlers[k]) \/ shandlers'[k] = h
  BY <1>1, <1>6, QueueGrows
<1>8. ~Pops(shandlers) /\ SStart = Len(swire) /\ Len(swire) \in Nat
  <2>1. ~Pops(shandlers)
    BY <1>4 DEF Pops, Has, Writing
  <2> QED BY <1>1, <2>1 DEF SStart
<1>9. swrites[1] = Len(swire) + 1
  <2>1. 1 \in 1 .. Len(swrite_msgs_)
    <3>1. Len(swrite_msgs_) \in Nat \ {0}
      BY <1>1, <1>4, EmptySeq
    <3> QED BY <3>1
  <2>2. swrite_msgs_[1] = SStart + 1
    BY <1>1, <2>1 DEF SOrderPart
  <2> QED BY <1>4, <1>8, <2>2
<1>10. PICK m \in Nat : m = Len(swire) + 1 /\ m = swrites[1]
  BY <1>8, <1>9
<1>11. /\ Append(swire, m) \in Seq(Nat) /\ Len(Append(swire, m)) = m
       /\ \A k \in 1 .. m : k \in 1 .. Len(swire) \/ k = m
       /\ \A k \in 1 .. Len(swire) : Append(swire, m)[k] = swire[k]
       /\ Append(swire, m)[m] = m
  BY <1>1, <1>8, <1>10
<1>12. swire' = IF ok THEN Append(swire, m) ELSE swire
  BY <1>2, <1>3, <1>10
<1>13. swire' \in Seq(Nat) /\ Len(swire) <= Len(swire') /\ \A k \in 1 .. Len(swire') : swire'[k] = k
  <2>1. CASE ok
    <3>1. swire' = Append(swire, m)
      BY <1>12, <2>1
    <3>2. Len(swire) <= m
      BY <1>8, <1>10
    <3>3. \A k \in 1 .. m : Append(swire, m)[k] = k
      BY <1>1, <1>11 DEF SOrderPart
    <3> QED BY <1>11, <3>1, <3>2, <3>3
  <2>2. CASE ~ok
    <3>1. swire' = swire
      BY <1>12, <2>2
    <3> QED BY <1>1, <1>8, <3>1 DEF SOrderPart
  <2> QED BY <2>1, <2>2
<1>14. SStart' = SStart
  <2>1. Pops(shandlers') <=> ok = TRUE
    BY <1>1, <1>5, <1>6, <1>8, PopsAppend
  <2>2. CASE ok = TRUE
    <3>1. SStart' = Len(swire') - 1 /\ Len(swire') = m
      BY <1>11, <1>12, <2>1, <2>2 DEF SStart
    <3> QED BY <1>8, <1>10, <3>1
  <2>3. CASE ok = FALSE
    <3>1. SStart' = Len(swire') - 0 /\ swire' = swire
      BY <1>12, <2>1, <2>3 DEF SStart
    <3> QED BY <1>8, <3>1
  <2> QED BY <2>2, <2>3
<1>15. ServerTypes'
  <2>1. <<>> \in Seq(Nat)
    OBVIOUS
  <2> QED BY <1>1, <1>2, <1>3, <1>7, <1>13, <2>1 DEF ServerTypes
<1>16. SReadPart' /\ PrintedPart'
  <2>1. Under(sreads, shandlers', ReadOps)
    BY <1>1, <1>6, UnderOther DEF SReadPart
  <2>2. \A k \in 1 .. Len(shandlers') : shandlers'[k].op \in ReadOps =>
            \E j \in 1 .. Len(shandlers) : shandlers[j] = shandlers'[k]
    BY <1>6, <1>7
  <2> QED BY <1>2, <2>1, <2>2, ReadsStay
<1>17. SWritePart'
  <2>1. Under(<<>>, shandlers', Writing)
    BY <1>1, <1>4, <1>6, UnderOwn
  <2> QED BY <1>2, <1>3, <1>4, <2>1 DEF SWritePart, Writing
<1>18. SOrderPart'
  BY <1>1, <1>2, <1>13, <1>14 DEF SOrderPart
<1> QED BY <1>13, <1>15, <1>16, <1>17, <1>18 DEF SessionInv

LEMMA DeliverKeeps ==
    ASSUME ClientInv, SessionInv, Deliver
    PROVE  SessionInv' /\ swire' = swire
<1>1. /\ ServerTypes /\ SReadPart /\ SWritePart /\ SOrderPart /\ PrintedPart
      /\ swrites \in Seq(Nat) /\ swire \in Seq(Nat) /\ swrite_msgs_ \in Seq(Nat)
      /\ delivered \in Nat /\ shandlers \in Seq(HandlerType)
  BY MaxShownAssumption DEF SessionInv, ServerTypes
<1>2. /\ delivered < MaxShown /\ delivered' = delivered + 1
      /\ swrite_msgs_' = Append(swrite_msgs_, delivered + 1)
      /\ swrites' = IF swrite_msgs_ = <<>> THEN Append(swrites, delivered + 1) ELSE swrites
      /\ UNCHANGED <<vars, backlog, acceptor, shandlers, sreads, swire, printed>>
  BY DEF Deliver
<1>3. PICK m \in Nat : m = delivered + 1
  BY <1>1
<1>4. PICK n \in Nat : n = Len(swrite_msgs_)
  BY <1>1
<1>5. /\ swrite_msgs_' \in Seq(Nat) /\ Len(swrite_msgs_') = n + 1
      /\ \A k \in 1 .. n : swrite_msgs_'[k] = swrite_msgs_[k]
      /\ swrite_msgs_'[n + 1] = m
  BY <1>1, <1>2, <1>3, <1>4
<1>6. swrite_msgs_' # <<>>
  <2>1. Len(swrite_msgs_') # 0 /\ Len(<<>>) = 0
    BY <1>4, <1>5
  <2> QED BY <2>1, Zenon
<1>7. Pops(shandlers) => swrite_msgs_ # <<>>
  BY <1>1 DEF Pops, SWritePart, Has
<1>8. SStart \in Int /\ SStart' = SStart
  BY <1>1, <1>2 DEF SStart
<1>9. SOrderPart'
  <2>1. SStart + n = delivered /\ \A k \in 1 .. n : swrite_msgs_[k] = SStart + k
    BY <1>1, <1>4 DEF SOrderPart
  <2>2. SStart + (n + 1) = delivered + 1
    BY <1>1, <1>4, <1>8, <2>1
  <2>3. \A k \in 1 .. n + 1 : k \in 1 .. n \/ k = n + 1
    BY <1>4
  <2>4. \A k \in 1 .. n + 1 : swrite_msgs_'[k] = SStart + k
    BY <1>3, <1>5, <2>1, <2>2, <2>3
  <2> QED BY <1>1, <1>2, <1>5, <1>8, <2>2, <2>4 DEF SOrderPart
<1>10. SReadPart' /\ PrintedPart'
  BY <1>1, <1>2, ReadsStay DEF SReadPart
<1>11. SWritePart' /\ swrites' \in Seq(Nat)
  <2>1. CASE swrite_msgs_ = <<>>
    <3>1. swrites = <<>> /\ ~Has(shandlers, Writing)
      BY <1>1, <2>1 DEF SWritePart, Writing
    <3>2. swrites' = Append(<<>>, m) /\ swrites' \in Seq(Nat) /\ Len(swrites') = 1 /\ swrites'[1] = m
      BY <1>2, <1>3, <2>1, <3>1
    <3>3. swrite_msgs_'[1] = m
      <4>1. n = 0
        BY <1>4, <2>1
      <4> QED BY <1>5, <4>1
    <3>4. Under(swrites', shandlers, Writing)
      BY <1>1, <3>1, <3>2 DEF SWritePart, Under, Writing
    <3> QED BY <1>2, <1>6, <3>2, <3>3, <3>4 DEF SWritePart, Writing
  <2>2. CASE swrite_msgs_ # <<>>
    <3>1. 1 \in 1 .. n
      <4>1. Len(swrite_msgs_) \in Nat \ {0}
        BY <1>1, <2>2, EmptySeq
      <4> QED BY <1>4, <4>1
    <3>2. swrite_msgs_'[1] = swrite_msgs_[1] /\ swrites' = swrites
      BY <1>2, <1>5, <2>2, <3>1
    <3> QED BY <1>1, <1>2, <1>6, <3>2 DEF SWritePart
  <2> QED BY <2>1, <2>2
<1>12. ServerTypes'
  <2>1. delivered' \in 0 .. MaxShown
    BY <1>1, <1>2, MaxShownAssumption
  <2> QED BY <1>1, <1>2, <1>5, <1>11, <2>1 DEF ServerTypes
<1> QED BY <1>2, <1>9, <1>10, <1>11, <1>12 DEF SessionInv

\* A handler of the session's reads has run.
LEMMA RunReadKeeps ==
    ASSUME ClientInv, SessionInv, shandlers # <<>>, shandlers' = Tail(shandlers),
           shandlers[1].op \in ReadOps,
           \/ sreads' = sreads
           \/ \E what \in {"header", "body"} : sreads' = Append(sreads, what),
           \/ printed' = printed
           \/ /\ shandlers[1].op = "body" /\ shandlers[1].ok
              /\ printed' = Append(printed, wire[Len(printed) + 1]),
           UNCHANGED <<vars, backlog, acceptor, swrites, swrite_msgs_, delivered, swire>>
    PROVE  SessionInv'
<1>1. /\ ServerTypes /\ SReadPart /\ SWritePart /\ SOrderPart /\ PrintedPart
      /\ shandlers \in Seq(HandlerType) /\ Tail(shandlers) \in Seq(HandlerType)
      /\ printed \in Seq(Nat) /\ wire \in Seq(Nat) /\ sreads \in Seq({"header", "body"})
  BY DEF SessionInv, ServerTypes, ClientInv, TypeOK
<1>2. UNCHANGED <<connecting, wire>>
  BY DEF vars, ioVars
<1>3. PICK extra \in Seq(HandlerType) :
          /\ shandlers' = Tail(shandlers) \o extra /\ Failures(extra)
          /\ \A ops : ~Has(extra, ops)
  BY <1>1, NoExtra
<1>4. \A ops : \A j, k \in 1 .. Len(extra) :
          extra[j].op \in ops /\ extra[k].op \in ops => j = k
  BY <1>3 DEF Has
<1>5. ~Has(shandlers', ReadOps) /\ sreads = <<>>
  BY <1>1, HasTail DEF SReadPart
<1>6. 1 \in 1 .. Len(shandlers)
  <2>1. Len(shandlers) \in Nat \ {0}
    BY <1>1, EmptySeq
  <2> QED BY <2>1
<1>7. acceptor # "accepted" /\ backlog = "accepted"
  <2>1. Has(shandlers, ReadOps)
    BY <1>6 DEF Has
  <2> QED BY <1>1, <2>1 DEF SReadPart
<1>8. Len(sreads') <= 1 /\ sreads' \in Seq({"header", "body"})
  <2>1. CASE sreads' = sreads
    BY <1>1, <1>5, <2>1
  <2>2. ASSUME NEW what \in {"header", "body"}, sreads' = Append(sreads, what)
        PROVE  Len(sreads') = 1 /\ sreads' \in Seq({"header", "body"})
    BY <1>1, <1>5, <2>2
  <2>3. Len(sreads) = 0 /\ 0 <= 1 /\ 1 <= 1
    BY <1>5
  <2> QED BY <1>1, <2>1, <2>2, <2>3
<1>9. SReadPart'
  <2>1. Under(sreads', shandlers', ReadOps)
    BY <1>5, <1>8 DEF Under, Has
  <2>2. \A k \in 1 .. Len(shandlers') : shandlers'[k].op # "body"
    BY <1>5 DEF Has, ReadOps
  <2> QED BY <1>1, <1>2, <1>7, <2>1, <2>2 DEF SReadPart
<1>10. SWritePart' /\ SOrderPart'
  <2>1. Under(swrites, shandlers, Writing) /\ Len(swrites) <= 1
        /\ (swrites # <<>> => ~Has(shandlers, Writing))
    BY <1>1 DEF SWritePart, Writing, Under
  <2>2. Has(Tail(shandlers), Writing) => Has(shandlers, Writing)
    BY <1>1, HasTail
  <2>3. Under(swrites, shandlers', Writing)
    <3>1. Under(swrites, Tail(shandlers) \o extra, Writing)
      BY <1>1, <1>3, <1>4, <2>1, <2>2, UnderMoves
    <3> QED BY <1>3, <3>1, Zenon
  <2>4. Under(swrites, shandlers, {"handle_write"}) /\ shandlers[1].op # "handle_write"
    BY <2>1 DEF Writing, ReadOps
  <2>5. Pops(shandlers') <=> Pops(shandlers)
    <3>1. Pops(Tail(shandlers) \o extra) <=> Pops(shandlers)
      BY <1>1, <1>3, <2>4, PopsMoves
    <3> QED BY <1>3, <3>1, Zenon
  <2> QED BY <2>2, <2>3, <2>5, WritesStay
<1>11. PrintedPart' /\ printed' \in Seq(Nat)
  <2>1. CASE printed' = printed
    BY <1>1, <1>2, <2>1 DEF PrintedPart
  <2>2. CASE shandlers[1].op = "body" /\ shandlers[1].ok
             /\ printed' = Append(printed, wire[Len(printed) + 1])
    <3>1. Len(printed) < Len(wire)
      BY <1>1, <1>6, <2>2 DEF SReadPart
    <3>2. PICK m \in Nat : m = Len(printed) + 1
      BY <1>1
    <3>3. m \in 1 .. Len(wire) /\ m <= Len(wire) /\ Len(printed) \in Nat
      BY <1>1, <3>1, <3>2
    <3>4. wire[m] = m
      BY <3>3 DEF ClientInv, OrderInv
    <3>5. printed' = Append(printed, m)
      BY <2>2, <3>2, <3>4
    <3>6. /\ printed' \in Seq(Nat) /\ Len(printed') = m /\ printed'[m] = m
          /\ \A k \in 1 .. Len(printed) : printed'[k] = printed[k]
          /\ \A k \in 1 .. m : k \in 1 .. Len(printed) \/ k = m
      BY <1>1, <3>2, <3>3, <3>5
    <3> QED BY <1>1, <1>2, <3>3, <3>6 DEF PrintedPart
  <2> QED BY <2>1, <2>2
<1>12. ServerTypes'
  BY <1>1, <1>8, <1>11 DEF ServerTypes
<1> QED BY <1>9, <1>10, <1>11, <1>12 DEF SessionInv

\* handle_write has run.
LEMMA RunWriteKeeps ==
    ASSUME ClientInv, SessionInv, shandlers # <<>>, shandlers' = Tail(shandlers),
           shandlers[1].op = "handle_write", SessionWrite(shandlers[1].ok),
           UNCHANGED <<vars, backlog, acceptor>>
    PROVE  SessionInv'
<1>1. /\ ServerTypes /\ SReadPart /\ SWritePart /\ SOrderPart /\ PrintedPart
      /\ shandlers \in Seq(HandlerType) /\ Tail(shandlers) \in Seq(HandlerType)
      /\ swrites \in Seq(Nat) /\ swire \in Seq(Nat) /\ swrite_msgs_ \in Seq(Nat)
      /\ delivered \in Nat
  BY MaxShownAssumption DEF SessionInv, ServerTypes
<1>2. UNCHANGED <<sreads, delivered, swire, printed>>
  BY DEF SessionWrite
<1>3. PICK extra \in Seq(HandlerType) :
          /\ shandlers' = Tail(shandlers) \o extra /\ Failures(extra)
          /\ \A ops : ~Has(extra, ops)
  BY <1>1, NoExtra
<1>4. \A ops : \A j, k \in 1 .. Len(extra) :
          extra[j].op \in ops /\ extra[k].op \in ops => j = k
  BY <1>3 DEF Has
<1>5. shandlers[1].op \in Writing /\ Under(swrites, shandlers, Writing)
  BY <1>1 DEF SWritePart, Writing
<1>6. ~Has(shandlers', Writing) /\ swrites = <<>>
  BY <1>1, <1>5, HasTail
<1>7. ~Pops(shandlers') /\ (Pops(shandlers) <=> shandlers[1].ok = TRUE)
  <2>1. Under(swrites, shandlers, {"handle_write"})
    BY <1>5 DEF Writing
  <2>2. ~Pops(Tail(shandlers) \o extra) /\ (Pops(shandlers) <=> shandlers[1].ok = TRUE)
    BY <1>1, <1>3, <2>1, PopsMoves
  <2> QED BY <1>3, <2>2, Zenon
<1>8. PICK l \in Nat : l + 1 = Len(shandlers)
  <2>1. Len(shandlers) \in Nat \ {0}
    BY <1>1, EmptySeq
  <2>2. Len(shandlers) - 1 \in Nat /\ (Len(shandlers) - 1) + 1 = Len(shandlers)
    BY <2>1
  <2> QED BY <2>2
<1>9. Len(shandlers') = l /\ \A k \in 1 .. l : shandlers'[k] = shandlers[k + 1]
  BY <1>1, <1>8
<1>10. \A k \in 1 .. l : k + 1 \in 1 .. Len(shandlers)
  BY <1>8
<1>11. swrite_msgs_ # <<>>
  <2>1. 1 \in 1 .. Len(shandlers)
    BY <1>8
  <2> QED BY <1>1, <2>1 DEF SWritePart, Has
<1>12. SReadPart' /\ PrintedPart'
  <2>1. Has(Tail(shandlers), ReadOps) => Has(shandlers, ReadOps)
    BY <1>1, HasTail
  <2>2. Under(sreads, shandlers, ReadOps) /\ Len(sreads) <= 1
        /\ (sreads # <<>> => ~Has(shandlers, ReadOps))
    BY <1>1 DEF SReadPart, Under
  <2>3. Under(sreads, shandlers', ReadOps)
    <3>1. Under(sreads, Tail(shandlers) \o extra, ReadOps)
      BY <1>1, <1>3, <1>4, <2>1, <2>2, UnderMoves
    <3> QED BY <1>3, <3>1, Zenon
  <2>4. \A k \in 1 .. Len(shandlers') : shandlers'[k].op \in ReadOps =>
            \E j \in 1 .. Len(shandlers) : shandlers[j] = shandlers'[k]
    BY <1>9, <1>10
  <2> QED BY <1>2, <2>3, <2>4, ReadsStay
<1>13. PICK n \in Nat : n + 1 = Len(swrite_msgs_)
  <2>1. Len(swrite_msgs_) \in Nat \ {0}
    BY <1>1, <1>11, EmptySeq
  <2>2. Len(swrite_msgs_) - 1 \in Nat /\ (Len(swrite_msgs_) - 1) + 1 = Len(swrite_msgs_)
    BY <2>1
  <2> QED BY <2>2
<1>14. CASE shandlers[1].ok = TRUE
  <2>1. /\ swrite_msgs_' = Tail(swrite_msgs_)
        /\ swrites' = IF Len(swrite_msgs_) > 1 THEN Append(swrites, swrite_msgs_[2]) ELSE swrites
    BY <1>14 DEF SessionWrite
  <2>2. /\ swrite_msgs_' \in Seq(Nat) /\ Len(swrite_msgs_') = n
        /\ \A k \in 1 .. n : swrite_msgs_'[k] = swrite_msgs_[k + 1]
    BY <1>1, <1>11, <1>13, <2>1
  <2>3. SWritePart' /\ swrites' \in Seq(Nat)
    <3>1. CASE Len(swrite_msgs_) > 1
      <4>1. n # 0 /\ 1 \in 1 .. n /\ 1 + 1 = 2 /\ 2 \in 1 .. Len(swrite_msgs_)
        BY <1>13, <3>1
      <4>2. PICK m \in Nat : m = swrite_msgs_[2]
        BY <1>1, <4>1
      <4>3. swrites' = Append(<<>>, m) /\ Len(swrites') = 1 /\ swrites'[1] = m /\ swrites' \in Seq(Nat)
        BY <1>6, <2>1, <3>1, <4>2
      <4>4. swrite_msgs_'[1] = m
        BY <2>2, <4>1, <4>2
      <4>5. swrite_msgs_' # <<>>
        <5>1. Len(swrite_msgs_') # 0 /\ Len(<<>>) = 0
          BY <2>2, <4>1
        <5> QED BY <5>1, Zenon
      <4>6. Under(swrites', shandlers', Writing)
        BY <1>6, <4>3 DEF Under, Has
      <4> QED BY <4>3, <4>4, <4>5, <4>6 DEF SWritePart, Writing
    <3>2. CASE ~(Len(swrite_msgs_) > 1)
      <4>1. swrites' = <<>> /\ Len(<<>>) <= 1 /\ <<>> \in Seq(Nat)
        BY <1>6, <2>1, <3>2
      <4>2. Under(<<>>, shandlers', Writing)
        BY <1>6, <4>1 DEF Under, Has
      <4> QED BY <1>6, <4>1, <4>2 DEF SWritePart, Writing
    <3> QED BY <3>1, <3>2
  <2>4. SStart = Len(swire) - 1 /\ SStart' = Len(swire) /\ Len(swire) \in Nat
    BY <1>1, <1>2, <1>7, <1>14 DEF SStart
  <2>5. SOrderPart'
    <3>1. SStart + (n + 1) = delivered
      BY <1>1, <1>13 DEF SOrderPart
    <3>2. SStart' + n = delivered
      BY <1>1, <1>13, <2>4, <3>1
    <3>3. ASSUME NEW k \in 1 .. n PROVE swrite_msgs_'[k] = SStart' + k
      <4>1. k + 1 \in 1 .. Len(swrite_msgs_)
        BY <1>13
      <4>2. swrite_msgs_[k + 1] = SStart + (k + 1)
        BY <1>1, <4>1 DEF SOrderPart
      <4>3. SStart + (k + 1) = SStart' + k
        BY <2>4
      <4> QED BY <2>2, <4>2, <4>3
    <3> QED BY <1>1, <1>2, <2>2, <3>2, <3>3 DEF SOrderPart
  <2>6. ServerTypes'
    BY <1>1, <1>2, <2>2, <2>3 DEF ServerTypes
  <2> QED BY <1>12, <2>3, <2>5, <2>6 DEF SessionInv
<1>15. CASE shandlers[1].ok = FALSE
  <2>1. UNCHANGED <<swrite_msgs_, swrites>>
    BY <1>15 DEF SessionWrite
  <2>2. ~Pops(shandlers)
    BY <1>7, <1>15
  <2>3. Under(swrites, shandlers', Writing)
    BY <1>5, <1>6 DEF Under, Has
  <2>4. SWritePart' /\ SOrderPart'
    BY <1>2, <1>6, <1>7, <2>1, <2>2, <2>3, WritesStay
  <2>5. ServerTypes'
    BY <1>1, <1>2, <2>1 DEF ServerTypes
  <2> QED BY <1>12, <2>4, <2>5 DEF SessionInv
<1>16. shandlers[1].ok \in BOOLEAN
  BY <1>1, <1>8, HandlerFields
<1> QED BY <1>14, <1>15, <1>16

LEMMA RunSessionKeeps ==
    ASSUME ClientInv, SessionInv, RunSession
    PROVE  SessionInv' /\ swire' = swire
<1>1. shandlers \in Seq(HandlerType) /\ shandlers # <<>> /\ shandlers' = Tail(shandlers)
      /\ Head(shandlers) = shandlers[1] /\ UNCHANGED <<vars, backlog, acceptor>>
  BY DEF SessionInv, ServerTypes, RunSession
<1>2. CASE shandlers[1].op = "header" /\ SessionReadHeader(shandlers[1].ok)
  BY <1>1, <1>2, RunReadKeeps DEF SessionReadHeader, ReadOps
<1>3. CASE shandlers[1].op = "body" /\ SessionReadBody(shandlers[1].ok)
  BY <1>1, <1>3, RunReadKeeps DEF SessionReadBody, ReadOps
<1>4. CASE shandlers[1].op = "handle_write" /\ SessionWrite(shandlers[1].ok)
  BY <1>1, <1>4, RunWriteKeeps DEF SessionWrite
<1> QED BY <1>1, <1>2, <1>3, <1>4 DEF RunSession

-----------------------------------------------------------------------------
LEMMA ChatInvInit == ChatInit => ChatInv
<1> SUFFICES ASSUME ChatInit PROVE ChatInv
  OBVIOUS
<1>1. /\ <<>> \in Seq(HandlerType) /\ <<>> \in Seq(Nat) /\ <<>> \in Seq({"header", "body"})
      /\ Len(<<>>) = 0
  OBVIOUS
<1>2. ClientInv
  BY ClientInvInit DEF ChatInit
<1>3. ServerTypes
  BY <1>1, MaxShownAssumption DEF ChatInit, ServerTypes
<1>4. SReadInv /\ SWriteInv
  BY <1>1 DEF ChatInit, SReadInv, SWriteInv, SOneUnderWay, SQueued
<1>5. SOrderInv
  BY <1>1 DEF ChatInit, Init, SOrderInv, SBase, SPopping, SQueued
<1>6. ShownInv
  BY <1>1 DEF ChatInit, Init, ShownInv, Queued
<1> QED BY <1>2, <1>3, <1>4, <1>5, <1>6 DEF ChatInv

LEMMA ChatInvStep == ChatInv /\ [ChatNext]_chatVars => ChatInv'
<1> SUFFICES ASSUME ChatInv, [ChatNext]_chatVars PROVE ChatInv'
  OBVIOUS
<1>1. ClientInv /\ SessionInv /\ ShownInv /\ ServerTypes
  BY ChatParts DEF SessionInv
<1>2. Len(swire) \in Nat
  BY <1>1 DEF ServerTypes
<1>3. ASSUME UNCHANGED vars, SessionInv', Len(swire) <= Len(swire') PROVE ChatInv'
  <2>1. ClientInv'
    BY <1>1, <1>3, ClientInvStep
  <2>2. ShownInv'
    BY <1>1, <1>3, ShownMore DEF SessionInv
  <2> QED BY <1>3, <2>1, <2>2, ChatPartsNext
<1>4. ASSUME UNCHANGED vars, SessionInv', swire' = swire PROVE ChatInv'
  <2>1. Len(swire) <= Len(swire')
    BY <1>2, <1>4
  <2> QED BY <1>3, <1>4, <2>1
<1>5. CASE HandleAccept
  BY <1>1, <1>4, <1>5, AcceptKeeps DEF HandleAccept
<1>6. CASE RunSession
  BY <1>1, <1>4, <1>6, RunSessionKeeps DEF RunSession
<1>7. CASE Deliver
  BY <1>1, <1>4, <1>7, DeliverKeeps DEF Deliver
<1>8. ASSUME NEW ok \in BOOLEAN, AcceptDone(ok) PROVE ChatInv'
  BY <1>1, <1>4, <1>8, AcceptKeeps DEF AcceptDone
<1>9. ASSUME NEW ok \in BOOLEAN, SessionReadDone(ok) PROVE ChatInv'
  BY <1>1, <1>4, <1>9, SessionReadKeeps DEF SessionReadDone
<1>10. ASSUME NEW ok \in BOOLEAN, SessionWriteDone(ok) PROVE ChatInv'
  BY <1>1, <1>3, <1>10, SessionWriteKeeps DEF SessionWriteDone
<1>11. CASE (Main \/ IoThread) /\ UNCHANGED <<backlog, serverVars>>
  <2>1. ClientInv'
    BY <1>1, <1>11, ClientInvStep DEF Next
  <2> QED BY <1>1, <1>11, <2>1, ClientKeeps, ChatPartsNext
<1>12. ASSUME NEW ok \in BOOLEAN, running,
              \/ ClientConnect(ok)
              \/ WriteDone(ok) /\ UNCHANGED <<backlog, serverVars>>
              \/ ClientRead(ok)
       PROVE  ChatInv'
  <2>1. ConnectDone(ok) \/ WriteDone(ok) \/ ReadDone(ok)
    BY <1>12 DEF ClientConnect, ClientRead
  <2>2. ClientInv'
    BY <1>1, <1>12, <2>1, ClientInvStep DEF Next
  <2> QED BY <1>1, <1>12, <2>2, ClientKeeps, ChatPartsNext
<1>13. CASE UNCHANGED chatVars
  <2>1. UNCHANGED <<vars, backlog, serverVars, connecting, wire, swire>>
    BY <1>13 DEF chatVars, vars, ioVars, serverVars, sessionVars
  <2>2. Len(wire) \in Nat /\ Len(wire') \in Nat /\ Len(wire) <= Len(wire')
    BY <1>1, <2>1 DEF ClientInv, TypeOK
  <2>3. SessionInv'
    BY <1>1, <2>1, <2>2, SessionSame
  <2> QED BY <1>4, <2>1, <2>3
<1> QED BY <1>5, <1>6, <1>7, <1>8, <1>9, <1>10, <1>11, <1>12, <1>13 DEF ChatNext

\* For any input, any messages delivered and whatever fails: client and session
\* keep one chain of reads and one of writes each, and the messages of either
\* direction their order.
THEOREM ChatInvariant == ChatSpec => []ChatInv
BY ChatInvInit, ChatInvStep, PTL DEF ChatSpec

\* Messages that are numbered from the first one on are a prefix of all that
\* were put in.
LEMMA NumberedPrefix ==
    ASSUME NEW s \in Seq(Nat), NEW n \in Nat, Len(s) <= n, \A k \in 1 .. Len(s) : s[k] = k
    PROVE  IsPrefix(s, [k \in 1 .. n |-> k])
<1> DEFINE t == [k \in 1 .. n |-> k]
<1>1. t \in Seq(Nat) /\ Len(t) = n /\ \A k \in 1 .. n : t[k] = k
  OBVIOUS
<1> HIDE DEF t
<1>2. PICK l \in Nat : l = Len(s)
  OBVIOUS
<1>3. /\ SubSeq(s, 1, l) \in Seq(Nat) /\ Len(SubSeq(s, 1, l)) = l
      /\ \A k \in 1 .. l : SubSeq(s, 1, l)[k] = s[k]
  BY <1>2
<1>4. /\ SubSeq(t, 1, l) \in Seq(Nat) /\ Len(SubSeq(t, 1, l)) = l
      /\ \A k \in 1 .. l : SubSeq(t, 1, l)[k] = t[k]
  BY <1>1, <1>2
<1>5. \A k \in 1 .. l : s[k] = k /\ t[k] = k
  BY <1>1, <1>2
<1>6. SubSeq(s, 1, l) = SubSeq(t, 1, l)
  BY <1>3, <1>4, <1>5, SeqEqual
<1>7. IsPrefix(s, t)
  BY <1>1, <1>2, <1>6 DEF IsPrefix
<1> QED BY <1>7 DEF t

\* For any number of messages either way, and whatever fails: what is printed
\* at the other end is a prefix of what was typed or delivered.
THEOREM BothWaysInOrder == ChatSpec => []EndToEnd
<1>1. ChatInv => EndToEnd
  <2> SUFFICES ASSUME ChatInv PROVE EndToEnd
    OBVIOUS
  <2>1. ClientInv /\ SessionInv /\ ShownInv
    BY ChatParts
  <2>2. /\ wire \in Seq(Nat) /\ write_msgs_ \in Seq(Nat) /\ posted \in Nat
        /\ swire \in Seq(Nat) /\ swrite_msgs_ \in Seq(Nat) /\ delivered \in Nat
        /\ printed \in Seq(Nat)
    BY <2>1, MaxShownAssumption DEF ClientInv, TypeOK, SessionInv, ServerTypes
  <2>3. Len(wire) <= posted
    <3>1. WritePart /\ OrderPart
      BY <2>1, Parts DEF ClientInv
    <3>2. Pops(handlers) => write_msgs_ # <<>>
      BY <3>1 DEF Pops, WritePart, Has
    <3>3. Pops(handlers) => Len(write_msgs_) >= 1
      BY <2>2, <3>2
    <3>4. Start + Len(write_msgs_) <= posted
      BY <3>1 DEF OrderPart
    <3> QED BY <2>2, <3>3, <3>4 DEF Start
  <2>4. Len(swire) <= delivered
    <3>1. Pops(shandlers) => swrite_msgs_ # <<>>
      BY <2>1 DEF Pops, SessionInv, SWritePart, Has
    <3>2. Pops(shandlers) => Len(swrite_msgs_) >= 1
      BY <2>2, <3>1
    <3>3. SStart + Len(swrite_msgs_) = delivered
      BY <2>1 DEF SessionInv, SOrderPart
    <3> QED BY <2>2, <3>2, <3>3 DEF SStart
  <2>5. Len(printed) <= posted /\ \A k \in 1 .. Len(printed) : printed[k] = k
    <3>1. Len(printed) <= Len(wire)
      BY <2>1 DEF SessionInv, PrintedPart
    <3>2. Len(printed) <= posted
      BY <2>2, <2>3, <3>1
    <3> QED BY <2>1, <3>2 DEF SessionInv, PrintedPart
  <2>6. IsPrefix(printed, [k \in 1 .. posted |-> k])
    BY <2>2, <2>5, NumberedPrefix
  <2>7. IsPrefix(swire, [k \in 1 .. delivered |-> k])
    BY <2>1, <2>2, <2>4, NumberedPrefix DEF SessionInv, SOrderPart
  <2> QED BY <2>1, <2>6, <2>7 DEF EndToEnd, ShownInv
<1> QED BY <1>1, ChatInvariant, PTL
-----------------------------------------------------------------------------
(* The session as a mailbox.                                               *)

LEMMA UnwrittenParts == ServerTypes => (SPopping <=> Pops(shandlers))
<1> SUFFICES ASSUME ServerTypes PROVE SPopping <=> Pops(shandlers)
  OBVIOUS
<1>1. \A k \in 1 .. Len(shandlers) : shandlers[k].ok \in BOOLEAN
  BY HandlerFields DEF ServerTypes
<1> QED BY <1>1 DEF SPopping, Pops, SQueued

LEMMA UnwrittenPartsNext == ServerTypes' => (SPopping' <=> Pops(shandlers'))
<1> SUFFICES ASSUME ServerTypes' PROVE SPopping' <=> Pops(shandlers')
  OBVIOUS
<1>1. \A k \in 1 .. Len(shandlers') : shandlers'[k].ok \in BOOLEAN
  BY HandlerFields DEF ServerTypes
<1> QED BY <1>1 DEF SPopping, Pops, SQueued

\* deliver posts: while the front message waits for its pop_front, the new one
\* comes behind what is left.
LEMMA DeliverPosts ==
    ASSUME ChatInv, ChatInv', Deliver
    PROVE  MB!Next
<1>1. /\ ServerTypes /\ ServerTypes' /\ SWritePart
      /\ swrite_msgs_ \in Seq(Nat) /\ delivered \in Nat
  BY ChatParts, MaxShownAssumption DEF ChatInv, SessionInv, ServerTypes
<1>2. PICK m \in 1 .. MaxShown : m = delivered + 1
  BY <1>1, MaxShownAssumption DEF Deliver
<1>3. swrite_msgs_' = Append(swrite_msgs_, m) /\ UNCHANGED <<shandlers, swire>>
  BY <1>2 DEF Deliver
<1>4. SPopping' <=> SPopping
  BY <1>3 DEF SPopping, SQueued
<1>5. SPopping => swrite_msgs_ # <<>>
  BY <1>1, UnwrittenParts DEF Pops, SWritePart, Has
<1>6. swrite_msgs_ # <<>> => Tail(Append(swrite_msgs_, m)) = Append(Tail(swrite_msgs_), m)
  BY <1>1, <1>2
<1>7. Unwritten' = Append(Unwritten, m)
  BY <1>3, <1>4, <1>5, <1>6 DEF Unwritten
<1> QED BY <1>2, <1>3, <1>7 DEF MB!Next, MB!Post

\* A write that succeeds handles the front message; one that fails is no step.
LEMMA SessionWriteHandles ==
    ASSUME ChatInv, ChatInv', NEW ok \in BOOLEAN, SessionWriteDone(ok)
    PROVE  MB!Next \/ UNCHANGED MB!vars
<1>1. /\ ServerTypes /\ ServerTypes' /\ SWritePart
      /\ swrites \in Seq(Nat) /\ swrite_msgs_ \in Seq(Nat) /\ shandlers \in Seq(HandlerType)
  BY ChatParts DEF ChatInv, SessionInv, ServerTypes
<1>2. PICK i \in DOMAIN swrites :
          /\ swire' = IF ok THEN Append(swire, swrites[i]) ELSE swire
          /\ shandlers' = Append(shandlers, Handler("handle_write", ok, 0))
          /\ swrites' = RemoveAt(swrites, i) /\ UNCHANGED swrite_msgs_
  BY DEF SessionWriteDone
<1>3. i = 1 /\ swrites # <<>>
  <2>1. Len(swrites) <= 1
    BY <1>1 DEF SWritePart, Under
  <2> QED BY <1>1, <1>2, <2>1, RemoveOnly
<1>4. swrite_msgs_ # <<>> /\ swrites[i] = Head(swrite_msgs_) /\ ~Has(shandlers, Writing)
  BY <1>1, <1>3 DEF SWritePart, Under, Writing
<1>5. ~Pops(shandlers)
  BY <1>4 DEF Pops, Has, Writing
<1>6. PICK h \in HandlerType :
          h = Handler("handle_write", ok, 0) /\ h.ok = ok /\ h.op = "handle_write"
  BY HandlerIsTyped DEF Ops
<1>7. Pops(shandlers') <=> ok = TRUE
  BY <1>1, <1>2, <1>5, <1>6, PopsAppend
<1>8. ~SPopping /\ (SPopping' <=> ok = TRUE)
  BY <1>1, <1>5, <1>7, UnwrittenParts, UnwrittenPartsNext
<1>9. CASE ok = TRUE
  <2>1. Unwritten = swrite_msgs_ /\ Unwritten' = Tail(swrite_msgs_)
    BY <1>2, <1>8, <1>9 DEF Unwritten
  <2>2. swire' = Append(swire, Head(swrite_msgs_))
    BY <1>2, <1>4, <1>9
  <2> QED BY <1>4, <2>1, <2>2 DEF MB!Next, MB!Handle
<1>10. CASE ok = FALSE
  BY <1>2, <1>8, <1>10 DEF Unwritten, MB!vars
<1> QED BY <1>9, <1>10

\* What handle_write pops has been handled; the other handlers change nothing
\* that the callers of deliver could see.
LEMMA RunIsInvisible ==
    ASSUME ChatInv, ChatInv', RunSession
    PROVE  UNCHANGED MB!vars
<1>1. /\ ServerTypes /\ ServerTypes' /\ SWritePart /\ shandlers \in Seq(HandlerType)
  BY ChatParts DEF ChatInv, SessionInv, ServerTypes
<1>2. /\ shandlers # <<>> /\ shandlers' = Tail(shandlers) /\ Head(shandlers) = shandlers[1]
      /\ swire' = swire
  BY <1>1 DEF RunSession, SessionReadHeader, SessionReadBody, SessionWrite
<1>3. PICK extra \in Seq(HandlerType) :
          /\ shandlers' = Tail(shandlers) \o extra /\ Failures(extra)
          /\ \A ops : ~Has(extra, ops)
  BY <1>1, <1>2, NoExtra
<1>4. Under(swrites, shandlers, {"handle_write"})
  BY <1>1 DEF SWritePart
<1>5. /\ shandlers[1].op = "handle_write" =>
             ~Pops(shandlers') /\ (Pops(shandlers) <=> shandlers[1].ok = TRUE)
      /\ shandlers[1].op # "handle_write" => (Pops(shandlers') <=> Pops(shandlers))
  <2>1. /\ shandlers[1].op = "handle_write" =>
               ~Pops(Tail(shandlers) \o extra) /\ (Pops(shandlers) <=> shandlers[1].ok = TRUE)
        /\ shandlers[1].op # "handle_write" =>
               (Pops(Tail(shandlers) \o extra) <=> Pops(shandlers))
    BY <1>1, <1>2, <1>3, <1>4, PopsMoves
  <2> QED BY <1>3, <2>1, Zenon
<1>6. CASE shandlers[1].op = "handle_write" /\ shandlers[1].ok = TRUE
  <2>1. SPopping /\ ~SPopping'
    BY <1>1, <1>5, <1>6, UnwrittenParts, UnwrittenPartsNext
  <2>2. swrite_msgs_' = Tail(swrite_msgs_)
    BY <1>2, <1>6 DEF RunSession, SessionWrite
  <2> QED BY <1>2, <2>1, <2>2 DEF Unwritten, MB!vars
<1>7. CASE ~(shandlers[1].op = "handle_write" /\ shandlers[1].ok = TRUE)
  <2>1. SPopping' <=> SPopping
    BY <1>1, <1>5, <1>7, UnwrittenParts, UnwrittenPartsNext
  <2>2. swrite_msgs_' = swrite_msgs_
    <3>1. 1 \in 1 .. Len(shandlers)
      <4>1. Len(shandlers) \in Nat \ {0}
        BY <1>1, <1>2, EmptySeq
      <4> QED BY <4>1
    <3>2. shandlers[1].ok \in BOOLEAN
      BY <1>1, <3>1, HandlerFields
    <3> QED BY <1>2, <1>7, <3>2 DEF RunSession, SessionReadHeader, SessionReadBody, SessionWrite
  <2> QED BY <1>2, <2>1, <2>2 DEF Unwritten, MB!vars
<1> QED BY <1>6, <1>7

\* A read that completes queues no handle_write.
LEMMA ReadIsInvisible ==
    ASSUME ChatInv, ChatInv', NEW ok \in BOOLEAN, SessionReadDone(ok)
    PROVE  UNCHANGED MB!vars
<1>1. /\ ServerTypes /\ ServerTypes'
      /\ sreads \in Seq({"header", "body"}) /\ shandlers \in Seq(HandlerType)
  BY DEF ChatInv, ServerTypes
<1>2. /\ sreads # <<>> /\ shandlers' = Append(shandlers, Handler(Head(sreads), ok, 0))
      /\ UNCHANGED <<swrite_msgs_, swire>>
  BY DEF SessionReadDone
<1>3. Head(sreads) \in {"header", "body"}
  BY <1>1, <1>2
<1>4. PICK h \in HandlerType : h = Handler(Head(sreads), ok, 0) /\ h.op = Head(sreads)
  BY <1>3, HandlerIsTyped DEF Ops
<1>5. Pops(shandlers') <=> Pops(shandlers)
  BY <1>1, <1>2, <1>3, <1>4, PopsAppend
<1> QED BY <1>1, <1>2, <1>5, UnwrittenParts, UnwrittenPartsNext DEF Unwritten, MB!vars

LEMMA MailboxSame ==
    ASSUME UNCHANGED <<shandlers, swrite_msgs_, swire>>
    PROVE  UNCHANGED MB!vars
BY DEF Unwritten, SPopping, SQueued, MB!vars

\* A session is a mailbox to the callers of deliver, whatever fails on either
\* side: each message is written once, in its turn, or not at all.
THEOREM SessionImplementsMailbox == ChatSpec => MB!SafeSpec
<1>1. ChatInit => MB!Init
  <2> SUFFICES ASSUME ChatInit PROVE MB!Init
    OBVIOUS
  <2>1. ~SPopping
    BY DEF ChatInit, SPopping, SQueued
  <2> QED BY <2>1 DEF ChatInit, Unwritten, MB!Init
<1>2. ChatInv /\ ChatInv' /\ [ChatNext]_chatVars => [MB!Next]_(MB!vars)
  <2> SUFFICES ASSUME ChatInv, ChatInv', [ChatNext]_chatVars PROVE [MB!Next]_(MB!vars)
    OBVIOUS
  <2>1. CASE Deliver
    BY <2>1, DeliverPosts
  <2>2. ASSUME NEW ok \in BOOLEAN, SessionWriteDone(ok) PROVE [MB!Next]_(MB!vars)
    BY <2>2, SessionWriteHandles
  <2>3. CASE RunSession
    BY <2>3, RunIsInvisible
  <2>4. CASE HandleAccept
    BY <2>4, MailboxSame DEF HandleAccept
  <2>5. ASSUME NEW ok \in BOOLEAN, AcceptDone(ok) PROVE UNCHANGED MB!vars
    BY <2>5, MailboxSame DEF AcceptDone, sessionVars
  <2>6. ASSUME NEW ok \in BOOLEAN, SessionReadDone(ok) PROVE UNCHANGED MB!vars
    BY <2>6, ReadIsInvisible
  <2>7. CASE UNCHANGED serverVars
    BY <2>7, MailboxSame DEF serverVars, sessionVars
  <2>8. CASE UNCHANGED chatVars
    BY <2>7, <2>8 DEF chatVars
  <2> QED BY <2>1, <2>2, <2>3, <2>4, <2>5, <2>6, <2>7, <2>8
          DEF ChatNext, ClientConnect, ClientRead
<1> QED BY <1>1, <1>2, ChatInvariant, PTL DEF ChatSpec, MB!SafeSpec
=============================================================================
