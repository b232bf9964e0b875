-------------------------------- MODULE Game --------------------------------
(***************************************************************************)
(* The running server as a whole: clients, the thread of init_epool, the   *)
(* queue of ScriptEngine, and the main thread that runs script.gafq on     *)
(* what is queued.  A message may ask the script to send it on to some     *)
(* descriptor (send_data of game.cpp) or to load script.gafq again         *)
(* (update_self).  The components are as coarse here as their own modules  *)
(* justify: a frame is read and posted whole, and LoopExecute takes the    *)
(* queue in one step (ScriptEngine implements Mailbox).  Only when a frame *)
(* is read while the next one is there already, its first byte goes with   *)
(* it (EpollServer): what is read from that connection next begins inside  *)
(* of a frame, and may be anything.                                        *)
(*                                                                         *)
(* A message is known by its number in posted, the order of ExecGafq.      *)
(***************************************************************************)
EXTENDS SequencesExt

CONSTANTS
    Conns,      \* connections; each is used once
    NoConn,     \* no connection
    MaxFds,     \* descriptors for clients
    Opers,      \* what messages ask for, see OperKinds
    Targets,    \* the descriptors that messages for send_data name in "to"
    MaxMsgs,    \* bound: messages that all clients send together
    SendRoom,   \* frames that fit the buffers between send() and a client
    MaxEdits    \* bound: changes of script.gafq on disk

Fds == 1 .. MaxFds

\* Descriptors that are no client's: the listening socket, and one that is no
\* socket (a message without "to" names 0).
Listener == MaxFds + 1
NoSocket == 0

\* oper of the decoded message, "ignored" for none or an unknown one; or the
\* message does not decode, or to a value that has no fields.
OperKinds == {"send_data", "update_self", "ignored", "undecodable"}

ASSUME NoConnAssumption == NoConn \notin Conns
ASSUME BoundsAssumption ==
    {MaxFds, SendRoom} \subseteq Nat \ {0} /\ {MaxMsgs, MaxEdits} \subseteq Nat
ASSUME OpersAssumption == Opers \subseteq OperKinds
ASSUME TargetsAssumption == Targets \subseteq Fds \cup {Listener, NoSocket}

Message ==
    {msg \in [oper : Opers, to : Targets \cup {NoSocket}] :
         msg.to \in IF msg.oper = "send_data" THEN Targets ELSE {NoSocket}}

\* What loading the script does: it runs to its end, does not begin to run, or
\* raises an error before or after the definition of start_action.
Shapes == {"whole", "unloadable", "raises_before", "raises_after"}

VARIABLES
    cli,       \* cli[c]: "off", "up" or "gone"
    inbox,     \* inbox[c]: messages that c has sent and the server has not read
    astray,    \* astray[c]: the first bytes of that have been read
    out,       \* out[c]: messages on their way to c
    got,       \* got[c]: messages that c has received
    rst,       \* rst[c]: a reset from c: "no", "coming" or "here"
    backlog,   \* connections to be accepted
    files,     \* files[fd]: the connection open as fd, or NoConn
    posted,    \* all items passed to ExecGafq
    queue,     \* wait_execute_list
    batch,     \* the rest of LoopExecute's temp_execute_list
    mpc,       \* the main thread: "sleep", "exec", "send" or "require"
    peer,      \* the connection it is sending to
    done,      \* how many items LoopExecute has gone through
    disk,      \* script.gafq on disk: its version and its shape
    bound,     \* the version that the global start_action is of
    loaded,    \* package.loaded["script"]
    wanted,    \* history: the last version with a start_action to be bound
               \* that was on disk when update_self came to require
    alive      \* the process runs

netVars == <<cli, inbox, astray, out, got, rst>>
scriptVars == <<disk, bound, loaded, wanted>>
engineVars == <<posted, queue, batch, mpc, peer, done>>
vars == <<netVars, backlog, files, engineVars, scriptVars, alive>>

\* The main thread has initialised the engine and is in its loop.
Init ==
    /\ cli = [c \in Conns |-> "off"]
    /\ inbox = [c \in Conns |-> <<>>]
    /\ astray = [c \in Conns |-> FALSE]
    /\ out = [c \in Conns |-> <<>>]
    /\ got = [c \in Conns |-> <<>>]
    /\ rst = [c \in Conns |-> "no"]
    /\ backlog = <<>>
    /\ files = [fd \in Fds |-> NoConn]
    /\ posted = <<>>
    /\ queue = <<>>
    /\ batch = <<>>
    /\ mpc = "sleep"
    /\ peer = NoConn
    /\ done = 0
    /\ disk = [version |-> 1, shape |-> "whole"]
    /\ bound = 1
    /\ loaded = "nil"
    /\ wanted = 1
    /\ alive = TRUE

-----------------------------------------------------------------------------
(* The clients and their connections.                                      *)

Connect(c) ==
    /\ cli[c] = "off"
    /\ cli' = [cli EXCEPT ![c] = "up"]
    /\ backlog' = Append(backlog, c)
    /\ UNCHANGED <<inbox, astray, out, got, rst>>

\* The connections that the server has closed.
Closed ==
    {c \in Conns : /\ cli[c] # "off"
                   /\ \A fd \in Fds : files[fd] # c
                   /\ \A k \in 1 .. Len(backlog) : backlog[k] # c}

Sent == Len(posted) + FoldSet(LAMBDA c, n : n + Len(inbox[c]), 0, Conns)

\* What is sent on a connection that the server has closed comes to nobody.
Send(c, msg) ==
    /\ cli[c] = "up"
    /\ c \notin Closed
    /\ Sent < MaxMsgs
    /\ inbox' = [inbox EXCEPT ![c] = Append(@, msg)]
    /\ UNCHANGED <<cli, astray, out, got, rst, backlog>>

Receive(c) ==
    /\ cli[c] = "up"
    /\ out[c] # <<>>
    /\ got' = [got EXCEPT ![c] = Append(@, Head(out[c]))]
    /\ out' = [out EXCEPT ![c] = Tail(@)]
    /\ UNCHANGED <<cli, inbox, astray, rst, backlog>>

\* A socket that is closed before everything was read answers with a reset.
Leave(c) ==
    /\ cli[c] = "up"
    /\ cli' = [cli EXCEPT ![c] = "gone"]
    /\ rst' = [rst EXCEPT ![c] = IF out[c] # <<>> THEN "coming" ELSE "no"]
    /\ UNCHANGED <<inbox, astray, out, got, backlog>>

ResetArrives(c) ==
    /\ rst[c] = "coming"
    /\ rst' = [rst EXCEPT ![c] = "here"]
    /\ out' = [out EXCEPT ![c] = <<>>]
    /\ UNCHANGED <<cli, inbox, astray, got, backlog>>

\* The server has closed with something unread, or c has sent since, and the
\* kernel resets the connection; not while the main thread is in send() on it.
LoseRest(c) ==
    /\ c \in Closed
    /\ cli[c] = "up"
    /\ peer # c
    /\ out[c] # <<>>
    /\ out' = [out EXCEPT ![c] = <<>>]
    /\ UNCHANGED <<cli, inbox, astray, got, rst, backlog>>

Client(c) ==
    /\ \/ Connect(c) \/ Leave(c) \/ Receive(c) \/ ResetArrives(c) \/ LoseRest(c)
       \/ \E msg \in Message : Send(c, msg)
    /\ UNCHANGED <<files, engineVars, scriptVars, alive>>

-----------------------------------------------------------------------------
(* The server thread.                                                      *)

Accept ==
    /\ backlog # <<>>
    /\ \E fd \in Fds :
           /\ files[fd] = NoConn
           /\ \A f \in 1 .. fd - 1 : files[f] # NoConn
           /\ files' = [files EXCEPT ![fd] = Head(backlog)]
    /\ backlog' = Tail(backlog)
    /\ UNCHANGED <<netVars, engineVars>>

\* addr is whom the message names at this moment: for the properties only.
Post(msg) ==
    LET addr == IF msg.to \in Fds THEN files[msg.to] ELSE NoConn
    IN  /\ posted' = Append(posted, [oper |-> msg.oper, to |-> msg.to, addr |-> addr])
        /\ queue' = Append(queue, Len(posted) + 1)

\* The read of the body asks for a byte too many, and gets it if it is there.
PostMessage(fd) ==
    LET c == files[fd] IN
    /\ c # NoConn
    /\ inbox[c] # <<>>
    /\ ~astray[c]
    /\ Post(Head(inbox[c]))
    /\ inbox' = [inbox EXCEPT ![c] = Tail(@)]
    /\ \E taken \in IF Len(inbox[c]) > 1 THEN BOOLEAN ELSE {FALSE} :
           astray' = [astray EXCEPT ![c] = taken]
    /\ UNCHANGED <<cli, out, got, rst, backlog, files, batch, mpc, peer, done>>

\* A header that begins inside of a frame decodes to some length: any message is
\* posted, and the read ends inside of a frame again or, by chance, behind one.
ReadAstray(fd) ==
    LET c == files[fd] IN
    /\ c # NoConn
    /\ inbox[c] # <<>>
    /\ astray[c]
    /\ \E msg \in Message : Post(msg)
    /\ \E n \in 0 .. Len(inbox[c]), still \in BOOLEAN :
           /\ n = 0 => still /\ Sent < MaxMsgs
           /\ n = Len(inbox[c]) => ~still
           /\ inbox' = [inbox EXCEPT ![c] = SubSeq(@, n + 1, Len(@))]
           /\ astray' = [astray EXCEPT ![c] = still]
    /\ UNCHANGED <<cli, out, got, rst, backlog, files, batch, mpc, peer, done>>

\* read() returns 0, or -1 after a reset; or such a header does not decode.
CloseFd(fd) ==
    LET c == files[fd] IN
    /\ c # NoConn
    /\ \/ cli[c] = "gone" /\ inbox[c] = <<>>
       \/ astray[c] /\ inbox[c] # <<>>
    /\ files' = [files EXCEPT ![fd] = NoConn]
    /\ inbox' = [inbox EXCEPT ![c] = <<>>]
    /\ astray' = [astray EXCEPT ![c] = FALSE]
    /\ UNCHANGED <<cli, out, got, rst, backlog, engineVars>>

Server ==
    /\ Accept \/ \E fd \in Fds : PostMessage(fd) \/ ReadAstray(fd) \/ CloseFd(fd)
    /\ UNCHANGED <<scriptVars, alive>>

-----------------------------------------------------------------------------
(* The script.                                                             *)

\* Somebody changes the file, for better or worse.
Edit ==
    /\ disk.version <= MaxEdits
    /\ \E shape \in Shapes :
           disk' = [version |-> disk.version + 1, shape |-> shape]
    /\ UNCHANGED <<netVars, backlog, files, engineVars, bound, loaded, wanted, alive>>

-----------------------------------------------------------------------------
(* The main thread.                                                        *)

\* Mutant: the queue is not cleared.
WakeUpKeeping ==
    /\ mpc = "sleep"
    /\ batch' = queue
    /\ mpc' = "exec"
    /\ UNCHANGED <<queue, peer, done, out, rst, scriptVars, alive>>

\* sleep_for returns, and LoopExecute takes what is queued.
WakeUp ==
    /\ mpc = "sleep"
    /\ batch' = queue
    /\ queue' = <<>>
    /\ mpc' = "exec"
    /\ UNCHANGED <<peer, done, out, rst, scriptVars, alive>>

Msg == posted[Head(batch)]

ItemDone ==
    /\ batch' = Tail(batch)
    /\ done' = done + 1
    /\ mpc' = "exec"
    /\ peer' = NoConn

\* Mutant: an error that the script raises ends the batch.
RunIgnoredBreaking ==
    /\ Msg.oper \in {"ignored", "undecodable"}
    /\ batch' = IF Msg.oper = "undecodable" THEN <<>> ELSE Tail(batch)
    /\ done' = done + 1
    /\ UNCHANGED <<mpc, peer, out, rst, scriptVars, alive>>

\* Nothing comes of the message but what is printed.
RunIgnored ==
    /\ Msg.oper \in {"ignored", "undecodable"}
    /\ ItemDone
    /\ UNCHANGED <<out, rst, scriptVars, alive>>

\* Mutant: package.loaded is not reset.
RunUpdateSelfCached ==
    /\ Msg.oper = "update_self"
    /\ mpc' = "require"
    /\ UNCHANGED <<batch, done, peer, out, rst, scriptVars, alive>>

\* update_self: package.loaded["script"] = false.
RunUpdateSelf ==
    /\ Msg.oper = "update_self"
    /\ loaded' = "false"
    /\ mpc' = "require"
    /\ UNCHANGED <<batch, done, peer, out, rst, disk, bound, wanted, alive>>

(***************************************************************************)
(* And then require("script").  It returns at once, or raises an error,    *)
(* when package.loaded has something true for the script.  If the file     *)
(* does not load, that stays as it is.  Otherwise a sentinel marks the     *)
(* script while it runs, and stays if it raises an error.  What the script *)
(* has bound until then stays bound.                                       *)
(***************************************************************************)
Require ==
    LET runs == loaded \in {"nil", "false"} /\ disk.shape # "unloadable"
        defines == disk.shape \in {"whole", "raises_after"}
    IN  /\ loaded' = IF ~runs THEN loaded
                     ELSE IF disk.shape = "whole" THEN "true" ELSE "sentinel"
        /\ bound' = IF runs /\ defines THEN disk.version ELSE bound
        /\ wanted' = IF defines THEN disk.version ELSE wanted
        /\ ItemDone
        /\ UNCHANGED <<out, rst, disk, alive>>

\* Mutant: the answer goes to the next descriptor.
BeginSendNext ==
    /\ Msg.oper = "send_data"
    /\ Msg.to + 1 \in Fds /\ files[Msg.to + 1] # NoConn
    /\ mpc' = "send"
    /\ peer' = files[Msg.to + 1]
    /\ UNCHANGED <<batch, done, out, rst, scriptVars, alive>>

\* send_data calls send() with the number that the message gives.  It finds a
\* connection, or fails at once; on a listening socket it raises SIGPIPE.
BeginSend ==
    /\ Msg.oper = "send_data"
    /\ \/ /\ Msg.to \in Fds /\ files[Msg.to] # NoConn
          /\ mpc' = "send"
          /\ peer' = files[Msg.to]
          /\ UNCHANGED <<batch, done, alive>>
       \/ /\ Msg.to = NoSocket \/ (Msg.to \in Fds /\ files[Msg.to] = NoConn)
          /\ ItemDone
          /\ UNCHANGED alive
       \/ /\ Msg.to = Listener
          /\ alive' = FALSE
          /\ UNCHANGED <<batch, done, mpc, peer>>
    /\ UNCHANGED <<out, rst, scriptVars>>

\* Mutant: send() does not wait, and what finds no room is dropped.
FinishSendDropping ==
    /\ IF rst[peer] # "here" /\ Len(out[peer]) < SendRoom
       THEN /\ out' = [out EXCEPT ![peer] = Append(@, Head(batch))]
            /\ rst' = [rst EXCEPT ![peer] = IF cli[peer] = "gone" THEN "coming" ELSE @]
       ELSE UNCHANGED <<out, rst>>
    /\ ItemDone
    /\ UNCHANGED <<scriptVars, alive>>

\* send() waits for room.  What reaches a client that has gone is answered
\* with a reset, and after that a send fails, with SIGPIPE or without.
FinishSend ==
    /\ \/ /\ rst[peer] # "here"
          /\ Len(out[peer]) < SendRoom
          /\ out' = [out EXCEPT ![peer] = Append(@, Head(batch))]
          /\ rst' = [rst EXCEPT ![peer] = IF cli[peer] = "gone" THEN "coming" ELSE @]
          /\ ItemDone
          /\ UNCHANGED alive
       \/ /\ rst[peer] = "here"
          /\ ItemDone
          /\ UNCHANGED <<out, rst, alive>>
       \/ /\ rst[peer] = "here"
          /\ alive' = FALSE
          /\ UNCHANGED <<out, rst, batch, done, mpc, peer>>
    /\ UNCHANGED scriptVars

EndLoop ==
    /\ batch = <<>>
    /\ mpc' = "sleep"
    /\ UNCHANGED <<batch, peer, done, out, rst, scriptVars, alive>>

LoopExecute ==
    /\ \/ mpc = "exec" /\ batch # <<>> /\ (RunIgnored \/ RunUpdateSelf \/ BeginSend)
       \/ mpc = "require" /\ Require
       \/ mpc = "send" /\ FinishSend
       \/ mpc = "exec" /\ EndLoop
    /\ UNCHANGED queue

Main ==
    /\ WakeUp \/ LoopExecute
    /\ UNCHANGED <<cli, inbox, astray, got, backlog, files, posted>>

-----------------------------------------------------------------------------
Next ==
    /\ alive
    /\ \/ \E c \in Conns : Client(c)
       \/ Edit
       \/ Server
       \/ Main

Spec == Init /\ [][Next]_vars

(***************************************************************************)
(* The main thread runs, resets arrive, and a client that is connected     *)
(* reads what it is sent, as chat_client does.  Nobody has to connect, to  *)
(* send or to leave, and the server thread may hang in a read().           *)
(***************************************************************************)
FairSpec ==
    /\ Spec
    /\ WF_vars(alive /\ Main)
    /\ \A c \in Conns :
           WF_vars(alive /\ (Receive(c) \/ ResetArrives(c))
                   /\ UNCHANGED <<files, engineVars, scriptVars, alive>>)

-----------------------------------------------------------------------------
(* Properties.                                                             *)

Item == [oper : Opers, to : Targets \cup {NoSocket}, addr : Conns \cup {NoConn}]
Versions == 1 .. MaxEdits + 1

TypeOK ==
    /\ cli \in [Conns -> {"off", "up", "gone"}]
    /\ inbox \in [Conns -> Seq(Message)]
    /\ astray \in [Conns -> BOOLEAN]
    /\ out \in [Conns -> Seq(Nat)]
    /\ got \in [Conns -> Seq(Nat)]
    /\ rst \in [Conns -> {"no", "coming", "here"}]
    /\ backlog \in Seq(Conns)
    /\ files \in [Fds -> Conns \cup {NoConn}]
    /\ posted \in Seq(Item)
    /\ queue \in Seq(Nat)
    /\ batch \in Seq(Nat)
    /\ mpc \in {"sleep", "exec", "send", "require"}
    /\ peer \in Conns \cup {NoConn}
    /\ mpc = "send" <=> peer # NoConn
    /\ done \in Nat
    /\ disk \in [version : Versions, shape : Shapes]
    /\ bound \in Versions
    /\ loaded \in {"nil", "false", "sentinel", "true"}
    /\ wanted \in Versions
    /\ alive \in BOOLEAN

\* An item that was to be sent on, and whom it may come to.
MayReach(item, c) ==
    /\ item.oper = "send_data"
    /\ item.addr \in {c, NoConn} \cup Closed

\* What was sent to a client, as far as no reset has taken it away.
Given(c) == got[c] \o out[c]

\* A message that was to be sent on comes only to the client whose descriptor
\* it named when it was posted, or, if the server has closed that one since,
\* to whoever has the descriptor now; each in the order of posting and once.
ReachesAddressee ==
    \A c \in Conns :
        /\ \A j, k \in 1 .. Len(Given(c)) : j < k => Given(c)[j] < Given(c)[k]
        /\ \A k \in 1 .. Len(Given(c)) : MayReach(posted[Given(c)[k]], c)

(***************************************************************************)
(* The invariant that it follows from.                                     *)
(***************************************************************************)

\* A connection is open as one descriptor or waits once to be accepted.
ConnInv ==
    /\ \A f, g \in Fds : files[f] = files[g] /\ files[f] # NoConn => f = g
    /\ \A j, k \in 1 .. Len(backlog) : backlog[j] = backlog[k] => j = k
    /\ \A f \in Fds, k \in 1 .. Len(backlog) : files[f] # backlog[k]
    /\ \A f \in Fds : files[f] # NoConn => cli[files[f]] # "off"
    /\ \A k \in 1 .. Len(backlog) : cli[backlog[k]] # "off"

\* What was posted is done, in the batch or in the queue, in this order.
QueueInv ==
    /\ done + Len(batch) + Len(queue) = Len(posted)
    /\ \A k \in 1 .. Len(batch) : batch[k] = done + k
    /\ \A k \in 1 .. Len(queue) : queue[k] = done + Len(batch) + k
    /\ mpc = "sleep" => batch = <<>>
    /\ mpc \in {"send", "require"} => batch # <<>>

\* A descriptor that an item names keeps its connection until that is closed.
AddressInv ==
    /\ \A n \in done + 1 .. Len(posted) :
           \/ posted[n].addr \in {NoConn} \cup Closed
           \/ posted[n].to \in Fds /\ files[posted[n].to] = posted[n].addr
    /\ mpc = "send" => MayReach(posted[done + 1], peer)

GivenInv ==
    \A c \in Conns :
        /\ Len(out[c]) <= SendRoom
        /\ \A k \in 1 .. Len(Given(c)) : Given(c)[k] \in 1 .. done

\* Nothing keeps require from running the file.
ReloadInv == mpc = "require" => loaded = "false"

\* Items are run in the order of posting, and what they name is either still
\* what they named or closed.
GameInv ==
    TypeOK /\ ConnInv /\ QueueInv /\ AddressInv /\ GivenInv /\ ReachesAddressee
    /\ ReloadInv

\* However often the script on disk was broken and mended, and whatever a
\* failed attempt has left in package.loaded: start_action is the one of the
\* last script that an update_self message met with one to be bound, be it of
\* a script that raised an error behind it.
ReloadTakes == bound = wanted

\* What script_engine.cpp:68 says of ExecGafq: what is put in the queue is
\* taken out and executed in a later loop.
QueuedIsExecuted == \A k \in 1 .. MaxMsgs : Len(posted) >= k ~> done >= k

\* It holds as long as the process lives: no message, no error of the script
\* and no client that leaves in the middle keeps the others from running.
AliveExecutes == []alive => QueuedIsExecuted

\* And then a message for a client that stays is received by it, unless the
\* server closes its connection.
Forwarded ==
    []alive => \A c \in Conns, k \in 1 .. MaxMsgs :
        (Len(posted) >= k /\ posted[k].oper = "send_data" /\ posted[k].addr = c)
            ~> (k \in Range(got[c]) \/ cli[c] = "gone" \/ c \in Closed)

\* The messages that LoopExecute has gone through, and what the server is to
\* somebody who sees neither batches nor sleeps.
Handled == [k \in 1 .. done |-> k]
MB == INSTANCE Mailbox WITH Item <- Nat, pending <- batch \o queue, handled <- Handled
=============================================================================
