----------------------------- MODULE GameProofs -----------------------------
(***************************************************************************)
(* What the running server promises for any number of clients, messages    *)
(* and changes of the script: GameInv is inductive.                        *)
(***************************************************************************)
EXTENDS Game, SequenceTheorems, TLAPS

-----------------------------------------------------------------------------
(* Types.                                                                  *)

LEMMA ItemFields ==
    \A item \in Item : /\ item.oper \in Opers /\ item.to \in Targets \cup {NoSocket}
                       /\ item.addr \in Conns \cup {NoConn}
BY DEF Item

LEMMA MessageFields ==
    \A msg \in Message : msg.oper \in Opers /\ msg.to \in Targets \cup {NoSocket}
BY DEF Message

LEMMA HeadTail ==
    ASSUME NEW S, NEW s \in Seq(S), s # <<>>
    PROVE  /\ Head(s) = s[1] /\ Head(s) \in S /\ Tail(s) \in Seq(S)
           /\ Len(s) \in Nat \ {0} /\ Len(Tail(s)) = Len(s) - 1
           /\ \A k \in 1 .. Len(s) - 1 : Tail(s)[k] = s[k + 1]
OBVIOUS

LEMMA Appended ==
    ASSUME NEW S, NEW s \in Seq(S), NEW x \in S
    PROVE  /\ Append(s, x) \in Seq(S) /\ Len(s) \in Nat /\ Len(Append(s, x)) = Len(s) + 1
           /\ \A k \in 1 .. Len(s) : Append(s, x)[k] = s[k]
           /\ Append(s, x)[Len(s) + 1] = x
OBVIOUS

LEMMA Joined ==
    ASSUME NEW S, NEW s \in Seq(S), NEW t \in Seq(S)
    PROVE  /\ s \o t \in Seq(S) /\ Len(s) \in Nat /\ Len(t) \in Nat
           /\ Len(s \o t) = Len(s) + Len(t)
           /\ \A k \in 1 .. Len(s) : (s \o t)[k] = s[k]
           /\ s \o <<>> = s
<1>1. s \o t \in Seq(S) /\ Len(s) \in Nat /\ Len(t) \in Nat /\ s \o <<>> = s
  OBVIOUS
<1>2. /\ Len(s \o t) = Len(s) + Len(t)
      /\ \A k \in 1 .. Len(s) : (s \o t)[k] = s[k]
  BY <1>1
<1> QED BY <1>1, <1>2

LEMMA JoinAppend ==
    ASSUME NEW S, NEW s \in Seq(S), NEW t \in Seq(S), NEW x \in S
    PROVE  s \o Append(t, x) = Append(s \o t, x)
OBVIOUS

LEMMA NumbersJoinAppend ==
    \A s, t \in Seq(Nat), x \in Nat : s \o Append(t, x) = Append(s \o t, x)
OBVIOUS

LEMMA JoinShift ==
    ASSUME NEW S, NEW s \in Seq(S), NEW t \in Seq(S), t # <<>>
    PROVE  Append(s, Head(t)) \o Tail(t) = s \o t
<1>1. Head(t) \in S /\ Tail(t) \in Seq(S) /\ Len(Tail(t)) = Len(t) - 1
      /\ Len(t) \in Nat \ {0}
  BY HeadTailProperties, EmptySeq
<1> QED BY <1>1

LEMMA TypeInit == Init => TypeOK
<1> SUFFICES ASSUME Init PROVE TypeOK
  OBVIOUS
<1>1. /\ <<>> \in Seq(Message) /\ <<>> \in Seq(Nat) /\ <<>> \in Seq(Conns)
      /\ <<>> \in Seq(Item)
  OBVIOUS
<1>2. 1 \in Versions
  BY BoundsAssumption DEF Versions
<1>3. disk \in [version : Versions, shape : Shapes]
  BY <1>2 DEF Init, Shapes
<1> QED BY <1>1, <1>2, <1>3 DEF Init, TypeOK

LEMMA ClientTypes ==
    ASSUME TypeOK, NEW c \in Conns, Client(c) PROVE TypeOK'
<1> USE DEF TypeOK
<1>0. UNCHANGED <<files, engineVars, scriptVars, alive>>
  BY DEF Client
<1>1. CASE Connect(c)
  <2>1. cli' \in [Conns -> {"off", "up", "gone"}]
    BY <1>1 DEF Connect
  <2>2. backlog' \in Seq(Conns)
    BY <1>1, Appended DEF Connect
  <2> QED BY <1>0, <1>1, <2>1, <2>2 DEF Connect, engineVars, scriptVars
<1>2. ASSUME NEW msg \in Message, Send(c, msg) PROVE TypeOK'
  <2>1. Append(inbox[c], msg) \in Seq(Message)
    BY Appended
  <2>2. inbox' \in [Conns -> Seq(Message)]
    BY <1>2, <2>1 DEF Send
  <2> QED BY <1>0, <1>2, <2>2 DEF Send, engineVars, scriptVars
<1>3. CASE Receive(c)
  <2>1. Append(got[c], Head(out[c])) \in Seq(Nat) /\ Tail(out[c]) \in Seq(Nat)
    <3>1. got[c] \in Seq(Nat) /\ out[c] \in Seq(Nat) /\ out[c] # <<>>
      BY <1>3 DEF Receive
    <3>2. Head(out[c]) \in Nat /\ Tail(out[c]) \in Seq(Nat)
      BY <3>1, HeadTail
    <3> QED BY <3>1, <3>2, Appended
  <2>2. got' \in [Conns -> Seq(Nat)] /\ out' \in [Conns -> Seq(Nat)]
    BY <1>3, <2>1 DEF Receive
  <2> QED BY <1>0, <1>3, <2>2 DEF Receive, engineVars, scriptVars
<1>4. CASE Leave(c)
  BY <1>0, <1>4 DEF Leave, engineVars, scriptVars
<1>5. CASE ResetArrives(c)
  BY <1>0, <1>5 DEF ResetArrives, engineVars, scriptVars
<1>6. CASE LoseRest(c)
  BY <1>0, <1>6 DEF LoseRest, engineVars, scriptVars
<1> HIDE DEF TypeOK
<1>7. Connect(c) \/ Leave(c) \/ Receive(c) \/ ResetArrives(c) \/ LoseRest(c)
          \/ \E msg \in Message : Send(c, msg)
  BY DEF Client
<1> QED BY <1>1, <1>2, <1>3, <1>4, <1>5, <1>6, <1>7

\* What the server thread does when it passes a message to ExecGafq.
Posts ==
    /\ \E msg \in Message : Post(msg)
    /\ UNCHANGED <<cli, out, got, rst, backlog, files, batch, mpc, peer, done>>

LEMMA ReadPosts ==
    ASSUME TypeOK, NEW fd \in Fds, PostMessage(fd) \/ ReadAstray(fd)
    PROVE  Posts
<1> DEFINE c == files[fd]
<1>1. c \in Conns /\ inbox[c] \in Seq(Message) /\ inbox[c] # <<>>
  BY DEF PostMessage, ReadAstray, TypeOK
<1>2. Head(inbox[c]) \in Message
  BY <1>1, HeadTail
<1>3. CASE PostMessage(fd)
  <2>1. Post(Head(inbox[c]))
    BY <1>3 DEF PostMessage
  <2>2. UNCHANGED <<cli, out, got, rst, backlog, files, batch, mpc, peer, done>>
    BY <1>3 DEF PostMessage
  <2> QED BY <1>2, <2>1, <2>2 DEF Posts
<1>4. CASE ReadAstray(fd)
  BY <1>4 DEF ReadAstray, Posts
<1> QED BY <1>3, <1>4

\* The item that is added, with the connection that it names.
LEMMA PostFacts ==
    ASSUME TypeOK, Posts
    PROVE  /\ \E item \in Item :
                  /\ posted' = Append(posted, item)
                  /\ \/ item.addr = NoConn
                     \/ item.to \in Fds /\ files[item.to] = item.addr
           /\ queue' = Append(queue, Len(posted) + 1)
<1> PICK msg \in Message : Post(msg)
  BY DEF Posts
<1> DEFINE addr == IF msg.to \in Fds THEN files[msg.to] ELSE NoConn
           item == [oper |-> msg.oper, to |-> msg.to, addr |-> addr]
<1>1. item \in Item
  <2>1. msg.oper \in Opers /\ msg.to \in Targets \cup {NoSocket}
    BY MessageFields
  <2>2. addr \in Conns \cup {NoConn}
    BY DEF TypeOK
  <2> HIDE DEF addr
  <2> QED BY <2>1, <2>2 DEF Item
<1>2. posted' = Append(posted, item) /\ queue' = Append(queue, Len(posted) + 1)
  BY DEF Post
<1>3. item.addr = addr /\ item.to = msg.to
  OBVIOUS
<1>4. item.addr = NoConn \/ (item.to \in Fds /\ files[item.to] = item.addr)
  BY <1>3
<1> HIDE DEF item
<1> QED BY <1>1, <1>2, <1>4

\* And what it has read is gone from the connection.
LEMMA ReadTypes ==
    ASSUME TypeOK, NEW fd \in Fds, PostMessage(fd) \/ ReadAstray(fd)
    PROVE  inbox' \in [Conns -> Seq(Message)] /\ astray' \in [Conns -> BOOLEAN]
<1> DEFINE c == files[fd]
<1>1. /\ c \in Conns /\ inbox[c] \in Seq(Message) /\ inbox[c] # <<>>
      /\ inbox \in [Conns -> Seq(Message)] /\ astray \in [Conns -> BOOLEAN]
  BY DEF PostMessage, ReadAstray, TypeOK
<1>2. CASE PostMessage(fd)
  <2>1. Tail(inbox[c]) \in Seq(Message)
    BY <1>1, HeadTail
  <2>2. inbox' = [inbox EXCEPT ![c] = Tail(@)]
    BY <1>2 DEF PostMessage
  <2>3. PICK taken \in BOOLEAN : astray' = [astray EXCEPT ![c] = taken]
    BY <1>2 DEF PostMessage
  <2> QED BY <1>1, <2>1, <2>2, <2>3
<1>3. CASE ReadAstray(fd)
  <2>1. PICK n \in 0 .. Len(inbox[c]), still \in BOOLEAN :
            /\ inbox' = [inbox EXCEPT ![c] = SubSeq(@, n + 1, Len(@))]
            /\ astray' = [astray EXCEPT ![c] = still]
    BY <1>3 DEF ReadAstray
  <2>2. SubSeq(inbox[c], n + 1, Len(inbox[c])) \in Seq(Message)
    BY <1>1
  <2> QED BY <1>1, <2>1, <2>2
<1> QED BY <1>2, <1>3

LEMMA ServerTypes == TypeOK /\ Server => TypeOK'
<1> SUFFICES ASSUME TypeOK, Server PROVE TypeOK'
  OBVIOUS
<1> USE DEF TypeOK
<1>0. UNCHANGED <<scriptVars, alive>>
  BY DEF Server
<1>1. CASE Accept
  <2>1. Head(backlog) \in Conns /\ Tail(backlog) \in Seq(Conns)
    BY <1>1, HeadTail DEF Accept
  <2>2. files' \in [Fds -> Conns \cup {NoConn}]
    BY <1>1, <2>1 DEF Accept
  <2> QED BY <1>0, <1>1, <2>1, <2>2 DEF Accept, netVars, engineVars, scriptVars
<1>2. ASSUME NEW fd \in Fds, PostMessage(fd) \/ ReadAstray(fd) PROVE TypeOK'
  <2>1. Posts /\ inbox' \in [Conns -> Seq(Message)] /\ astray' \in [Conns -> BOOLEAN]
    BY <1>2, ReadPosts, ReadTypes
  <2>2. posted' \in Seq(Item) /\ queue' \in Seq(Nat)
    <3>1. PICK item \in Item : posted' = Append(posted, item)
      BY <2>1, PostFacts
    <3>2. queue' = Append(queue, Len(posted) + 1)
      BY <2>1, PostFacts
    <3> QED BY <3>1, <3>2, Appended
  <2> QED BY <1>0, <2>1, <2>2 DEF Posts, scriptVars
<1>3. ASSUME NEW fd \in Fds, CloseFd(fd) PROVE TypeOK'
  <2>1. files' \in [Fds -> Conns \cup {NoConn}] /\ files[fd] \in Conns
    BY <1>3 DEF CloseFd
  <2>2. inbox' \in [Conns -> Seq(Message)] /\ astray' \in [Conns -> BOOLEAN]
    <3>1. <<>> \in Seq(Message)
      OBVIOUS
    <3> QED BY <1>3, <2>1, <3>1 DEF CloseFd
  <2> QED BY <1>0, <1>3, <2>1, <2>2 DEF CloseFd, engineVars, scriptVars
<1> QED BY <1>1, <1>2, <1>3 DEF Server

\* What an item does to its batch.
LEMMA ItemDoneTypes ==
    ASSUME TypeOK, batch # <<>>, ItemDone
    PROVE  /\ batch' \in Seq(Nat) /\ done' \in Nat /\ mpc' \in {"sleep", "exec", "send", "require"}
           /\ peer' \in Conns \cup {NoConn} /\ (mpc' = "send" <=> peer' # NoConn)
<1>1. Tail(batch) \in Seq(Nat)
  BY HeadTail DEF TypeOK
<1> QED BY <1>1 DEF ItemDone, TypeOK

LEMMA RequireTypes ==
    ASSUME TypeOK, Require
    PROVE  /\ disk' = disk /\ bound' \in Versions /\ wanted' \in Versions
           /\ loaded' \in {"nil", "false", "sentinel", "true"}
<1>1. disk.version \in Versions
  BY DEF TypeOK
<1> QED BY <1>1 DEF Require, TypeOK

LEMMA MainTypes ==
    ASSUME TypeOK, mpc \in {"send", "require"} => batch # <<>>, Main PROVE TypeOK'
<1>0. UNCHANGED <<cli, inbox, astray, got, backlog, files, posted>>
  BY DEF Main
<1>1. CASE WakeUp
  BY <1>0, <1>1 DEF WakeUp, scriptVars, TypeOK
<1>2. CASE batch # <<>> /\ RunIgnored /\ UNCHANGED queue
  BY <1>0, <1>2, ItemDoneTypes DEF RunIgnored, scriptVars, TypeOK
<1>3. CASE mpc = "exec" /\ RunUpdateSelf /\ UNCHANGED queue
  BY <1>0, <1>3 DEF RunUpdateSelf, TypeOK
<1>4. CASE batch # <<>> /\ BeginSend /\ UNCHANGED queue
  <2>1. /\ batch' \in Seq(Nat) /\ done' \in Nat /\ mpc' \in {"sleep", "exec", "send", "require"}
        /\ peer' \in Conns \cup {NoConn} /\ (mpc' = "send" <=> peer' # NoConn)
    BY <1>4, ItemDoneTypes DEF BeginSend, TypeOK
  <2>2. alive' \in BOOLEAN
    BY <1>4 DEF BeginSend, TypeOK
  <2> QED BY <1>0, <1>4, <2>1, <2>2 DEF BeginSend, scriptVars, TypeOK
<1>5. CASE mpc = "send" /\ FinishSend /\ UNCHANGED queue
  <2>1. /\ batch' \in Seq(Nat) /\ done' \in Nat /\ mpc' \in {"sleep", "exec", "send", "require"}
        /\ peer' \in Conns \cup {NoConn} /\ (mpc' = "send" <=> peer' # NoConn)
    BY <1>5, ItemDoneTypes DEF FinishSend, TypeOK
  <2>2. alive' \in BOOLEAN
    BY <1>5 DEF FinishSend, TypeOK
  <2>3. peer \in Conns /\ batch # <<>>
    BY <1>5 DEF TypeOK
  <2>4. Append(out[peer], Head(batch)) \in Seq(Nat)
    <3>1. Head(batch) \in Nat /\ out[peer] \in Seq(Nat)
      BY <2>3, HeadTail DEF TypeOK
    <3> QED BY <3>1, Appended
  <2>5. out' \in [Conns -> Seq(Nat)]
    BY <1>5, <2>3, <2>4 DEF FinishSend, TypeOK
  <2>6. rst' \in [Conns -> {"no", "coming", "here"}]
    BY <1>5, <2>3 DEF FinishSend, TypeOK
  <2> QED BY <1>0, <1>5, <2>1, <2>2, <2>5, <2>6 DEF FinishSend, scriptVars, TypeOK
<1>6. CASE mpc = "exec" /\ EndLoop /\ UNCHANGED queue
  BY <1>0, <1>6 DEF EndLoop, scriptVars, TypeOK
<1>7. CASE mpc = "require" /\ Require /\ UNCHANGED queue
  <2>1. ItemDone /\ UNCHANGED <<out, rst, alive>> /\ batch # <<>>
    BY <1>7 DEF Require
  <2> QED BY <1>0, <1>7, <2>1, ItemDoneTypes, RequireTypes DEF TypeOK
<1> QED BY <1>1, <1>2, <1>3, <1>4, <1>5, <1>6, <1>7 DEF Main, LoopExecute

LEMMA TypeStep ==
    ASSUME TypeOK, mpc \in {"send", "require"} => batch # <<>>, [Next]_vars PROVE TypeOK'
<1>1. CASE Edit
  <2>1. disk' \in [version : Versions, shape : Shapes]
    <3>1. disk.version \in Versions /\ disk.version <= MaxEdits
      BY <1>1 DEF Edit, TypeOK
    <3>2. disk.version + 1 \in Versions
      BY <3>1, BoundsAssumption DEF Versions
    <3> QED BY <1>1, <3>2 DEF Edit
  <2> QED BY <1>1, <2>1 DEF Edit, TypeOK, netVars, engineVars
<1>2. CASE UNCHANGED vars
  BY <1>2 DEF vars, netVars, engineVars, scriptVars, TypeOK
<1> QED BY <1>1, <1>2, ClientTypes, ServerTypes, MainTypes DEF Next

-----------------------------------------------------------------------------
(* Connections and descriptors.                                            *)

\* Nobody comes back.
GoesOn ==
    \A c \in Conns : /\ cli[c] # "off" => cli'[c] # "off"
                     /\ cli[c] = "gone" => cli'[c] = "gone"

LEMMA ConnectionCases ==
    ASSUME TypeOK, [Next]_vars
    PROVE  \/ UNCHANGED <<files, backlog>> /\ GoesOn
           \/ \E c \in Conns : Connect(c) /\ UNCHANGED files /\ GoesOn
           \/ Accept /\ UNCHANGED cli
           \/ \E fd \in Fds : CloseFd(fd) /\ UNCHANGED cli
<1>1. CASE UNCHANGED <<cli, files, backlog>>
  BY <1>1 DEF GoesOn
<1>2. ASSUME NEW c \in Conns, Client(c)
      PROVE  \/ UNCHANGED <<files, backlog>> /\ GoesOn
             \/ Connect(c) /\ UNCHANGED files /\ GoesOn
  <2>1. CASE Connect(c)
    BY <1>2, <2>1 DEF Client, Connect, GoesOn, TypeOK
  <2>2. CASE Leave(c)
    BY <1>2, <2>2 DEF Client, Leave, GoesOn, TypeOK
  <2>3. CASE UNCHANGED <<cli, backlog>>
    BY <1>2, <2>3 DEF Client, GoesOn
  <2> QED BY <1>2, <2>1, <2>2, <2>3 DEF Client, Receive, ResetArrives, LoseRest, Send
<1>3. CASE Server
  BY <1>1, <1>3 DEF Server, Accept, PostMessage, ReadAstray, CloseFd, netVars
<1>4. CASE Edit
  BY <1>1, <1>4 DEF Edit, netVars
<1>5. CASE Main
  BY <1>1, <1>5 DEF Main
<1>6. CASE UNCHANGED vars
  BY <1>1, <1>6 DEF vars, netVars
<1> QED BY <1>2, <1>3, <1>4, <1>5, <1>6 DEF Next

\* Descriptors and connections after accept().
LEMMA AcceptFacts ==
    ASSUME TypeOK, ConnInv, Accept
    PROVE  \E fd \in Fds :
               /\ files[fd] = NoConn /\ backlog # <<>> /\ backlog[1] \in Conns
               /\ files'[fd] = backlog[1]
               /\ \A f \in Fds \ {fd} : files'[f] = files[f]
               /\ Len(backlog) \in Nat \ {0} /\ Len(backlog') = Len(backlog) - 1
               /\ \A k \in 1 .. Len(backlog) - 1 : backlog'[k] = backlog[k + 1]
<1>1. PICK fd \in Fds : files[fd] = NoConn /\ files' = [files EXCEPT ![fd] = Head(backlog)]
  BY DEF Accept
<1>2. backlog \in Seq(Conns) /\ backlog # <<>> /\ backlog' = Tail(backlog)
  BY DEF Accept, TypeOK
<1>3. /\ Head(backlog) = backlog[1] /\ backlog[1] \in Conns
      /\ Len(backlog) \in Nat \ {0} /\ Len(backlog') = Len(backlog) - 1
      /\ \A k \in 1 .. Len(backlog) - 1 : backlog'[k] = backlog[k + 1]
  BY <1>2, HeadTail
<1>4. files'[fd] = backlog[1] /\ \A f \in Fds \ {fd} : files'[f] = files[f]
  BY <1>1, <1>3 DEF TypeOK
<1> QED BY <1>1, <1>2, <1>3, <1>4

LEMMA ConnStep == ASSUME TypeOK, ConnInv, [Next]_vars PROVE ConnInv'
<1>0. files \in [Fds -> Conns \cup {NoConn}] /\ backlog \in Seq(Conns) /\ Len(backlog) \in Nat
  BY DEF TypeOK
<1>1. CASE UNCHANGED <<files, backlog>> /\ GoesOn
  <2>1. \A k \in 1 .. Len(backlog) : backlog[k] \in Conns
    BY <1>0
  <2> QED BY <1>0, <1>1, <2>1 DEF ConnInv, GoesOn
<1>2. ASSUME NEW c \in Conns, Connect(c), UNCHANGED files, GoesOn PROVE ConnInv'
  <2>1. /\ Len(backlog') = Len(backlog) + 1 /\ backlog'[Len(backlog) + 1] = c
        /\ \A k \in 1 .. Len(backlog) : backlog'[k] = backlog[k] /\ backlog[k] \in Conns
    BY <1>0, <1>2, Appended DEF Connect
  <2>2. /\ \A f \in Fds : files[f] # c
        /\ \A k \in 1 .. Len(backlog) : backlog[k] # c
        /\ cli'[c] # "off"
    BY <1>2, NoConnAssumption DEF Connect, ConnInv, TypeOK
  <2>3. ASSUME NEW k \in 1 .. Len(backlog')
        PROVE  \/ k \in 1 .. Len(backlog) /\ backlog'[k] = backlog[k] /\ backlog[k] # c
               \/ k = Len(backlog) + 1 /\ backlog'[k] = c
    BY <1>0, <2>1, <2>2
  <2>4. \A j, k \in 1 .. Len(backlog') : backlog'[j] = backlog'[k] => j = k
    BY <2>3 DEF ConnInv
  <2>5. \A f \in Fds, k \in 1 .. Len(backlog') : files'[f] # backlog'[k]
    BY <1>2, <2>2, <2>3 DEF ConnInv
  <2>6. \A k \in 1 .. Len(backlog') : cli'[backlog'[k]] # "off"
    BY <1>2, <2>1, <2>2, <2>3 DEF ConnInv, GoesOn
  <2>7. \A f \in Fds : files'[f] # NoConn => cli'[files'[f]] # "off"
    BY <1>0, <1>2 DEF ConnInv, GoesOn
  <2> QED BY <1>2, <2>4, <2>5, <2>6, <2>7 DEF ConnInv
<1>3. CASE Accept /\ UNCHANGED cli
  <2>1. PICK fd \in Fds :
               /\ files[fd] = NoConn /\ backlog # <<>> /\ backlog[1] \in Conns
               /\ files'[fd] = backlog[1]
               /\ \A f \in Fds \ {fd} : files'[f] = files[f]
               /\ Len(backlog) \in Nat \ {0} /\ Len(backlog') = Len(backlog) - 1
               /\ \A k \in 1 .. Len(backlog) - 1 : backlog'[k] = backlog[k + 1]
    BY <1>3, AcceptFacts
  <2>2. 1 \in 1 .. Len(backlog)
    BY <2>1
  <2>3. ASSUME NEW k \in 1 .. Len(backlog')
        PROVE  k + 1 \in 1 .. Len(backlog) /\ k + 1 # 1 /\ backlog'[k] = backlog[k + 1]
    BY <2>1
  <2>4. \A f, g \in Fds : files'[f] = files'[g] /\ files'[f] # NoConn => f = g
    BY <2>1, <2>2 DEF ConnInv
  <2>5. \A j, k \in 1 .. Len(backlog') : backlog'[j] = backlog'[k] => j = k
    <3> SUFFICES ASSUME NEW j \in 1 .. Len(backlog'), NEW k \in 1 .. Len(backlog'),
                        backlog'[j] = backlog'[k]
                 PROVE  j = k
      OBVIOUS
    <3>1. j + 1 = k + 1
      BY <2>3 DEF ConnInv
    <3> QED BY <2>1, <3>1
  <2>6. ASSUME NEW f \in Fds, NEW k \in 1 .. Len(backlog') PROVE files'[f] # backlog'[k]
    BY <2>1, <2>2, <2>3 DEF ConnInv
  <2>7. \A f \in Fds : files'[f] # NoConn => cli'[files'[f]] # "off"
    BY <1>3, <2>1, <2>2 DEF ConnInv
  <2>8. \A k \in 1 .. Len(backlog') : cli'[backlog'[k]] # "off"
    BY <1>3, <2>3 DEF ConnInv
  <2> QED BY <2>4, <2>5, <2>6, <2>7, <2>8 DEF ConnInv
<1>4. ASSUME NEW fd \in Fds, CloseFd(fd), UNCHANGED cli PROVE ConnInv'
  <2>1. UNCHANGED backlog /\ files' = [files EXCEPT ![fd] = NoConn]
    BY <1>4 DEF CloseFd
  <2>2. \A k \in 1 .. Len(backlog) : backlog[k] # NoConn
    BY <1>0, NoConnAssumption
  <2> QED BY <1>0, <1>4, <2>1, <2>2 DEF ConnInv
<1> QED BY <1>1, <1>2, <1>3, <1>4, ConnectionCases

\* A connection that the server has closed stays closed: nobody can come to
\* its descriptor under its name again.
LEMMA ClosedStays ==
    ASSUME TypeOK, ConnInv, [Next]_vars, NEW c \in Closed
    PROVE  c \in Closed'
<1>0. files \in [Fds -> Conns \cup {NoConn}] /\ backlog \in Seq(Conns) /\ Len(backlog) \in Nat
  BY DEF TypeOK
<1>1. CASE UNCHANGED <<files, backlog>> /\ GoesOn
  BY <1>1 DEF Closed, GoesOn
<1>2. ASSUME NEW d \in Conns, Connect(d), UNCHANGED files, GoesOn PROVE c \in Closed'
  <2>1. /\ Len(backlog') = Len(backlog) + 1 /\ backlog'[Len(backlog) + 1] = d
        /\ \A k \in 1 .. Len(backlog) : backlog'[k] = backlog[k]
    BY <1>0, <1>2, Appended DEF Connect
  <2>2. d # c
    BY <1>2 DEF Connect, Closed
  <2>3. \A k \in 1 .. Len(backlog') : backlog'[k] # c
    BY <1>0, <2>1, <2>2 DEF Closed
  <2> QED BY <1>2, <2>3 DEF Closed, GoesOn
<1>3. CASE Accept /\ UNCHANGED cli
  <2>1. PICK fd \in Fds :
               /\ files[fd] = NoConn /\ backlog # <<>> /\ backlog[1] \in Conns
               /\ files'[fd] = backlog[1]
               /\ \A f \in Fds \ {fd} : files'[f] = files[f]
               /\ Len(backlog) \in Nat \ {0} /\ Len(backlog') = Len(backlog) - 1
               /\ \A k \in 1 .. Len(backlog) - 1 : backlog'[k] = backlog[k + 1]
    BY <1>3, AcceptFacts
  <2>2. 1 \in 1 .. Len(backlog)
    BY <2>1
  <2>3. ASSUME NEW k \in 1 .. Len(backlog') PROVE backlog'[k] # c
    <3>1. k + 1 \in 1 .. Len(backlog) /\ backlog'[k] = backlog[k + 1]
      BY <2>1
    <3> QED BY <3>1 DEF Closed
  <2>4. \A f \in Fds : files'[f] # c
    BY <2>1, <2>2 DEF Closed
  <2> QED BY <1>3, <2>3, <2>4 DEF Closed
<1>4. ASSUME NEW fd \in Fds, CloseFd(fd), UNCHANGED cli PROVE c \in Closed'
  <2>1. UNCHANGED backlog /\ files' = [files EXCEPT ![fd] = NoConn]
    BY <1>4 DEF CloseFd
  <2> QED BY <1>0, <1>4, <2>1, NoConnAssumption DEF Closed
<1> QED BY <1>1, <1>2, <1>3, <1>4, ConnectionCases

\* A descriptor keeps its connection until that one is closed.
LEMMA FilesKept ==
    ASSUME TypeOK, ConnInv, [Next]_vars, NEW f \in Fds,
           NEW c \in Conns, files[f] = c
    PROVE  files'[f] = c \/ c \in Closed'
<1>0. files \in [Fds -> Conns \cup {NoConn}] /\ backlog \in Seq(Conns) /\ Len(backlog) \in Nat
  BY DEF TypeOK
<1>1. CASE UNCHANGED files
  BY <1>1
<1>2. CASE Accept
  BY <1>2, AcceptFacts, NoConnAssumption
<1>3. ASSUME NEW fd \in Fds, CloseFd(fd), UNCHANGED cli
      PROVE  files'[f] = c \/ c \in Closed'
  <2>1. UNCHANGED backlog /\ files' = [files EXCEPT ![fd] = NoConn]
    BY <1>3 DEF CloseFd
  <2>2. CASE f = fd
    <3>1. \A g \in Fds : files'[g] # c
      BY <1>0, NoConnAssumption, <2>1, <2>2 DEF ConnInv
    <3>2. \A k \in 1 .. Len(backlog) : backlog[k] # c
      BY DEF ConnInv
    <3>3. cli'[c] # "off"
      BY <1>3, NoConnAssumption DEF ConnInv
    <3> QED BY <2>1, <3>1, <3>2, <3>3 DEF Closed
  <2>3. CASE f # fd
    BY <1>0, <2>1, <2>3
  <2> QED BY <2>2, <2>3
<1> QED BY <1>1, <1>2, <1>3, ConnectionCases

-----------------------------------------------------------------------------
(* The queue, the batch and the item that is being run.                    *)

\* send_data has found a connection and sends the item in front to it.
Sends ==
    /\ mpc = "exec" /\ batch # <<>>
    /\ Msg.oper = "send_data" /\ Msg.to \in Fds /\ files[Msg.to] # NoConn
    /\ mpc' = "send" /\ peer' = files[Msg.to]
    /\ UNCHANGED <<posted, queue, batch, done, files>>

\* update_self has reset package.loaded.
Reloads ==
    /\ batch # <<>>
    /\ mpc' = "require" /\ loaded' = "false"
    /\ UNCHANGED <<posted, queue, batch, done, peer>>

LEMMA EngineCases ==
    ASSUME TypeOK, [Next]_vars, mpc \in {"send", "require"} => batch # <<>>
    PROVE  \/ UNCHANGED engineVars
           \/ Posts
           \/ WakeUp /\ UNCHANGED posted
           \/ batch # <<>> /\ ItemDone /\ UNCHANGED <<posted, queue>>
           \/ Sends
           \/ Reloads
           \/ mpc = "exec" /\ EndLoop /\ UNCHANGED <<posted, queue>>
<1>1. CASE \E c \in Conns : Client(c)
  BY <1>1 DEF Client
<1>2. CASE Edit
  BY <1>2 DEF Edit
<1>3. CASE Server
  BY <1>3, ReadPosts DEF Server, Accept, CloseFd
<1>4. CASE WakeUp /\ Main
  BY <1>4 DEF Main
<1>5. CASE mpc = "exec" /\ batch # <<>> /\ (RunIgnored \/ RunUpdateSelf \/ BeginSend)
           /\ UNCHANGED queue /\ Main
  <2>1. UNCHANGED <<posted, files>>
    BY <1>5 DEF Main
  <2>2. CASE RunIgnored
    BY <1>5, <2>1, <2>2 DEF RunIgnored
  <2>4. CASE RunUpdateSelf
    BY <1>5, <2>1, <2>4 DEF RunUpdateSelf, Reloads
  <2>3. CASE BeginSend
    BY <1>5, <2>1, <2>3 DEF BeginSend, Sends, engineVars
  <2> QED BY <1>5, <2>2, <2>3, <2>4
<1>6. CASE mpc = "send" /\ FinishSend /\ UNCHANGED queue /\ Main
  BY <1>6 DEF FinishSend, Main, engineVars
<1>7. CASE mpc = "exec" /\ EndLoop /\ UNCHANGED queue /\ Main
  BY <1>7 DEF Main
<1>r. CASE mpc = "require" /\ Require /\ UNCHANGED queue /\ Main
  BY <1>r DEF Require, Main
<1>8. CASE Main
  BY <1>4, <1>5, <1>6, <1>7, <1>8, <1>r DEF Main, LoopExecute
<1>9. CASE UNCHANGED vars
  BY <1>9 DEF vars
<1> QED BY <1>1, <1>2, <1>3, <1>8, <1>9 DEF Next

LEMMA QueueStep == ASSUME TypeOK, QueueInv, [Next]_vars PROVE QueueInv'
<1>0. /\ posted \in Seq(Item) /\ queue \in Seq(Nat) /\ batch \in Seq(Nat) /\ done \in Nat
      /\ Len(posted) \in Nat /\ Len(queue) \in Nat /\ Len(batch) \in Nat
  BY DEF TypeOK
<1>a. Len(posted) \in Nat /\ Len(queue) \in Nat /\ Len(batch) \in Nat /\ done \in Nat
  BY <1>0
<1>1. CASE UNCHANGED engineVars
  BY <1>1 DEF QueueInv, engineVars
<1>2. ASSUME Posts PROVE QueueInv'
  <2>1. Len(posted') = Len(posted) + 1
    BY <1>0, <1>2, PostFacts, Appended
  <2>2. /\ Len(queue') = Len(queue) + 1 /\ queue'[Len(queue) + 1] = Len(posted) + 1
        /\ \A k \in 1 .. Len(queue) : queue'[k] = queue[k]
    <3>1. queue' = Append(queue, Len(posted) + 1)
      BY <1>2, PostFacts
    <3> QED BY <1>0, <3>1, Appended
  <2>3. UNCHANGED <<batch, mpc, done>> /\ Len(batch') = Len(batch)
    BY <1>2 DEF Posts
  <2>4. done + Len(batch) + Len(queue) = Len(posted)
    BY DEF QueueInv
  <2>5. done' + Len(batch') + Len(queue') = Len(posted')
    BY <1>0, <2>1, <2>2, <2>3, <2>4
  <2>6. ASSUME NEW k \in 1 .. Len(queue') PROVE queue'[k] = done' + Len(batch') + k
    <3>1. CASE k \in 1 .. Len(queue)
      BY <2>2, <2>3, <3>1 DEF QueueInv
    <3>2. CASE k = Len(queue) + 1
      <4>1. queue'[k] = Len(posted) + 1
        BY <2>2, <3>2
      <4>2. Len(posted) + 1 = done + Len(batch) + (Len(queue) + 1)
        BY <1>a, <2>4
      <4> QED BY <2>3, <3>2, <4>1, <4>2
    <3> QED BY <1>0, <2>2, <3>1, <3>2
  <2> QED BY <2>3, <2>5, <2>6 DEF QueueInv
<1>3. CASE WakeUp /\ UNCHANGED posted
  <2>1. batch = <<>> /\ Len(batch) = 0 /\ batch' = queue /\ queue' = <<>> /\ Len(queue') = 0
    BY <1>3 DEF WakeUp, QueueInv
  <2>2. done' = done /\ mpc' = "exec"
    BY <1>3 DEF WakeUp
  <2> QED BY <1>0, <1>3, <2>1, <2>2 DEF QueueInv
<1>4. CASE batch # <<>> /\ ItemDone /\ UNCHANGED <<posted, queue>>
  <2>1. /\ Len(batch') = Len(batch) - 1 /\ Len(batch) >= 1
        /\ \A k \in 1 .. Len(batch) - 1 : batch'[k] = batch[k + 1]
    BY <1>0, <1>4, HeadTail DEF ItemDone
  <2>2. done' = done + 1 /\ mpc' = "exec"
    BY <1>4 DEF ItemDone
  <2>3. ASSUME NEW k \in 1 .. Len(batch') PROVE batch'[k] = done' + k
    <3>1. k + 1 \in 1 .. Len(batch) /\ k \in 1 .. Len(batch) - 1
      BY <1>0, <2>1
    <3>2. batch'[k] = done + (k + 1)
      BY <2>1, <3>1 DEF QueueInv
    <3> QED BY <1>0, <2>2, <3>2
  <2>4. \A k \in 1 .. Len(queue') : queue'[k] = done' + Len(batch') + k
    BY <1>0, <1>4, <2>1, <2>2 DEF QueueInv
  <2>5. done' + Len(batch') + Len(queue') = Len(posted')
    <3>1. done + Len(batch) + Len(queue) = Len(posted)
      BY DEF QueueInv
    <3>2. Len(queue') = Len(queue) /\ Len(posted') = Len(posted)
      BY <1>4
    <3>3. (done + 1) + (Len(batch) - 1) + Len(queue) = Len(posted)
      BY <1>a, <3>1
    <3> QED BY <2>1, <2>2, <3>2, <3>3
  <2> QED BY <2>2, <2>3, <2>4, <2>5 DEF QueueInv
<1>5. CASE Sends
  BY <1>5 DEF Sends, QueueInv
<1>6. CASE EndLoop /\ UNCHANGED <<posted, queue>>
  BY <1>6 DEF EndLoop, QueueInv
<1>7. CASE Reloads
  BY <1>7 DEF Reloads, QueueInv
<1> QED BY <1>1, <1>2, <1>3, <1>4, <1>5, <1>6, <1>7, EngineCases DEF QueueInv

\* Items that were posted stay as they are.
LEMMA PostedStays ==
    ASSUME TypeOK, QueueInv, [Next]_vars
    PROVE  /\ Len(posted) \in Nat /\ Len(posted') \in Nat /\ Len(posted') >= Len(posted)
           /\ \A n \in 1 .. Len(posted) : posted'[n] = posted[n] /\ posted[n] \in Item
           /\ done \in Nat /\ done' \in Nat /\ done' >= done
<1>0. posted \in Seq(Item) /\ Len(posted) \in Nat /\ done \in Nat
  BY DEF TypeOK
<1>1. CASE UNCHANGED posted
  <2>1. done' \in Nat /\ done' >= done
    <3>1. done' = done \/ done' = done + 1
      BY EngineCases DEF engineVars, QueueInv, Posts, WakeUp, ItemDone, Sends, Reloads,
         EndLoop
    <3> QED BY <1>0, <3>1
  <2> QED BY <1>0, <1>1, <2>1
<1>2. ASSUME Posts
      PROVE  /\ Len(posted') = Len(posted) + 1 /\ done' = done
             /\ \A n \in 1 .. Len(posted) : posted'[n] = posted[n]
  <2>1. PICK item \in Item : posted' = Append(posted, item)
    BY <1>2, PostFacts
  <2>2. done' = done
    BY <1>2 DEF Posts
  <2> QED BY <1>0, <2>1, <2>2, Appended
<1>3. UNCHANGED posted \/ Posts
  BY EngineCases DEF engineVars, QueueInv, Sends, Reloads
<1> QED BY <1>0, <1>1, <1>2, <1>3

LEMMA AddressStep ==
    ASSUME TypeOK, ConnInv, QueueInv, AddressInv, [Next]_vars PROVE AddressInv'
<1>0. /\ Len(posted) \in Nat /\ Len(posted') \in Nat /\ Len(posted') >= Len(posted)
      /\ \A n \in 1 .. Len(posted) : posted'[n] = posted[n] /\ posted[n] \in Item
      /\ done \in Nat /\ done' \in Nat /\ done' >= done
  BY PostedStays
<1> DEFINE Fits(n) == \/ posted[n].addr \in {NoConn} \cup Closed
                      \/ posted[n].to \in Fds /\ files[posted[n].to] = posted[n].addr
<1>1. ASSUME NEW n \in 1 .. Len(posted), Fits(n) PROVE Fits(n)'
  <2> PICK item \in Item : item = posted[n]
    BY <1>0
  <2>1. posted'[n] = item
    BY <1>0
  <2>2. item.addr \in Conns \cup {NoConn}
    BY ItemFields
  <2>3. CASE item.addr \in Closed
    BY <2>1, <2>3, ClosedStays
  <2>4. CASE item.addr = NoConn
    BY <2>1, <2>4
  <2>5. CASE item.addr \in Conns /\ item.to \in Fds /\ files[item.to] = item.addr
    <3>1. files'[item.to] = item.addr \/ item.addr \in Closed'
      BY <2>5, FilesKept
    <3> QED BY <2>1, <2>5, <3>1
  <2> QED BY <1>1, <2>2, <2>3, <2>4, <2>5
<1>2. ASSUME NEW n \in done' + 1 .. Len(posted') PROVE Fits(n)'
  <2>1. CASE n <= Len(posted)
    <3>1. n \in done + 1 .. Len(posted) /\ n \in 1 .. Len(posted)
      BY <1>0, <2>1
    <3>2. Fits(n)
      BY <3>1 DEF AddressInv
    <3> QED BY <1>1, <3>1, <3>2
  <2>2. CASE ~(n <= Len(posted))
    <3>1. Posts
      <4>1. ~ UNCHANGED posted
        BY <1>0, <2>2
      <4> QED BY <4>1, EngineCases DEF engineVars, QueueInv, Sends, Reloads
    <3>2. PICK item \in Item :
               /\ posted' = Append(posted, item)
               /\ \/ item.addr = NoConn
                  \/ item.to \in Fds /\ files[item.to] = item.addr
      BY <3>1, PostFacts
    <3>3. n = Len(posted) + 1 /\ posted'[n] = item
      BY <1>0, <2>2, <3>2, Appended DEF TypeOK
    <3>4. files' = files
      BY <3>1 DEF Posts
    <3> QED BY <3>2, <3>3, <3>4
  <2> QED BY <2>1, <2>2
<1>3. mpc' = "send" => MayReach(posted[done + 1], peer)'
  <2> SUFFICES ASSUME mpc' = "send" PROVE MayReach(posted[done + 1], peer)'
    OBVIOUS
  <2>1. CASE Sends
    <3>1. done' = done /\ done + 1 \in 1 .. Len(posted) /\ batch[1] = done + 1
      BY <1>0, <2>1 DEF Sends, QueueInv, TypeOK
    <3>2. Head(batch) = done + 1
      BY <2>1, <3>1, HeadTail DEF Sends, TypeOK
    <3> PICK item \in Item : item = posted[done + 1]
      BY <1>0, <3>1
    <3>3. /\ item.oper = "send_data" /\ item.to \in Fds
          /\ peer' = files[item.to] /\ files' = files
      BY <2>1, <3>2 DEF Sends, Msg
    <3>4. posted'[done' + 1] = item /\ done + 1 \in done' + 1 .. Len(posted')
      BY <1>0, <3>1
    <3> PICK n \in Nat : n = done + 1
      BY <1>0
    <3>5. Fits(n)' /\ posted'[n] = item
      BY <1>2, <3>1, <3>4
    <3>6. item.addr \in {NoConn} \cup Closed' \/ files'[item.to] = item.addr
      BY <3>5
    <3> QED BY <3>3, <3>4, <3>6 DEF MayReach
  <2>2. CASE mpc = "send" /\ UNCHANGED <<mpc, peer, done>> /\ batch # <<>>
    <3>1. done + 1 \in 1 .. Len(posted)
      BY <1>0, <2>2 DEF QueueInv, TypeOK
    <3> PICK item \in Item : item = posted[done + 1]
      BY <1>0, <3>1
    <3>2. posted'[done' + 1] = item
      BY <1>0, <2>2, <3>1
    <3>3. MayReach(item, peer)
      BY <2>2 DEF AddressInv
    <3>4. item.addr \in Closed => item.addr \in Closed'
      BY ClosedStays
    <3> QED BY <2>2, <3>2, <3>3, <3>4 DEF MayReach
  <2> QED
    BY <2>1, <2>2, EngineCases
       DEF engineVars, QueueInv, Posts, WakeUp, ItemDone, Reloads, EndLoop
<1> QED BY <1>2, <1>3 DEF AddressInv

-----------------------------------------------------------------------------
(* What reaches the clients.                                               *)

\* Numbers of items that were run and may have been sent to c, in order.
RightFor(s, c) ==
    /\ \A k \in 1 .. Len(s) : s[k] \in 1 .. done /\ MayReach(posted[s[k]], c)
    /\ \A j, k \in 1 .. Len(s) : j < k => s[j] < s[k]

LEMMA RightStays ==
    ASSUME TypeOK, ConnInv, QueueInv, [Next]_vars,
           NEW c \in Conns, NEW s \in Seq(Nat), RightFor(s, c)
    PROVE  RightFor(s, c)'
<1>0. /\ Len(posted) \in Nat
      /\ \A n \in 1 .. Len(posted) : posted'[n] = posted[n] /\ posted[n] \in Item
      /\ done \in Nat /\ done' \in Nat /\ done' >= done
  BY PostedStays
<1>1. done <= Len(posted)
  <2>1. Len(batch) \in Nat /\ Len(queue) \in Nat
    BY DEF TypeOK
  <2>2. done + Len(batch) + Len(queue) = Len(posted)
    BY DEF QueueInv
  <2> QED BY <1>0, <2>1, <2>2
<1>2. ASSUME NEW k \in 1 .. Len(s) PROVE s[k] \in 1 .. done' /\ MayReach(posted[s[k]], c)'
  <2>1. s[k] \in 1 .. done /\ MayReach(posted[s[k]], c)
    BY DEF RightFor
  <2>2. s[k] \in 1 .. Len(posted) /\ s[k] \in 1 .. done'
    BY <1>0, <1>1, <2>1
  <2> PICK item \in Item : item = posted[s[k]]
    BY <1>0, <2>2
  <2>3. posted'[s[k]] = item
    BY <1>0, <2>2
  <2>4. item.addr \in Closed => item.addr \in Closed'
    BY ClosedStays
  <2> QED BY <2>1, <2>2, <2>3, <2>4 DEF MayReach
<1> QED BY <1>2 DEF RightFor

\* A reset takes away what is on its way.
Lost(c) == out' = [out EXCEPT ![c] = <<>>] /\ UNCHANGED got

LEMMA GivenCases ==
    ASSUME TypeOK, QueueInv, [Next]_vars
    PROVE  \/ UNCHANGED <<got, out>>
           \/ \E c \in Conns : Receive(c)
           \/ \E c \in Conns : Lost(c) /\ UNCHANGED <<done, posted>>
           \/ /\ mpc = "send" /\ Len(out[peer]) < SendRoom
              /\ out' = [out EXCEPT ![peer] = Append(@, Head(batch))]
              /\ UNCHANGED <<got, posted>> /\ ItemDone
<1>1. ASSUME NEW c \in Conns, Client(c)
      PROVE  \/ UNCHANGED <<got, out>> \/ Receive(c)
             \/ Lost(c) /\ UNCHANGED <<done, posted>>
  BY <1>1 DEF Client, Connect, Send, Leave, ResetArrives, LoseRest, Lost, engineVars
<1>2. CASE Edit \/ Server
  BY <1>2 DEF Edit, Server, Accept, PostMessage, ReadAstray, CloseFd, netVars
<1>3. CASE Main
  BY <1>3 DEF Main, WakeUp, LoopExecute, RunIgnored, RunUpdateSelf, Require, BeginSend,
     FinishSend,
     EndLoop
<1>4. CASE UNCHANGED vars
  BY <1>4 DEF vars, netVars
<1> QED BY <1>1, <1>2, <1>3, <1>4 DEF Next

LEMMA GivenStep ==
    ASSUME TypeOK, ConnInv, QueueInv, AddressInv, [Next]_vars,
           \A c \in Conns : RightFor(Given(c), c) /\ Len(out[c]) <= SendRoom
    PROVE  \A c \in Conns : RightFor(Given(c), c)' /\ Len(out'[c]) <= SendRoom
<1> SUFFICES ASSUME NEW c \in Conns
             PROVE  RightFor(Given(c), c)' /\ Len(out'[c]) <= SendRoom
  OBVIOUS
<1>0. got[c] \in Seq(Nat) /\ out[c] \in Seq(Nat) /\ SendRoom \in Nat \ {0}
  BY BoundsAssumption DEF TypeOK
<1>g. PICK g \in Seq(Nat) : g = got[c]
  BY <1>0
<1>o. PICK o \in Seq(Nat) : o = out[c]
  BY <1>0
<1>s. PICK s \in Seq(Nat) : s = Given(c)
  BY <1>g, <1>o, Joined DEF Given
<1>j. s = g \o o
  BY <1>g, <1>o, <1>s DEF Given
<1>1. RightFor(s, c)'
  BY <1>s, RightStays
<1>2. CASE got'[c] = got[c] /\ out'[c] = out[c]
  <2>1. Given(c)' = s
    BY <1>2, <1>s DEF Given
  <2> QED BY <1>1, <1>2, <2>1
<1>3. CASE Receive(c)
  <2>1. out[c] # <<>> /\ got'[c] = Append(got[c], Head(out[c])) /\ out'[c] = Tail(out[c])
    BY <1>3 DEF Receive, TypeOK
  <2>2. /\ Len(Tail(out[c])) = Len(out[c]) - 1 /\ Len(out[c]) \in Nat
        /\ Append(got[c], Head(out[c])) \o Tail(out[c]) = got[c] \o out[c]
    <3>1. o # <<>>
      BY <2>1, <1>o
    <3>2. Len(Tail(o)) = Len(o) - 1 /\ Len(o) \in Nat
      BY <3>1, HeadTail
    <3>3. Append(g, Head(o)) \o Tail(o) = g \o o
      BY <3>1, JoinShift
    <3> QED BY <1>g, <1>o, <3>2, <3>3
  <2>3. Given(c)' = s
    BY <1>s, <2>1, <2>2 DEF Given
  <2> QED BY <1>0, <1>1, <2>1, <2>2, <2>3
<1>4. CASE Lost(c)
  <2>1. got'[c] = got[c] /\ out'[c] = <<>>
    BY <1>4 DEF Lost, TypeOK
  <2>2. /\ Given(c)' = g /\ Len(g) \in Nat /\ Len(s) \in Nat /\ Len(g) <= Len(s)
        /\ \A k \in 1 .. Len(g) : g[k] = s[k]
    <3>1. Len(g) \in Nat /\ Len(o) \in Nat /\ Len(s) = Len(g) + Len(o)
      BY <1>j, Joined
    <3>2. \A k \in 1 .. Len(g) : g[k] = s[k]
      BY <1>j, Joined
    <3>3. Given(c)' = g
      BY <1>g, <2>1, Joined DEF Given
    <3> QED BY <3>1, <3>2, <3>3
  <2>3. \A k \in 1 .. Len(g) : k \in 1 .. Len(s) /\ g[k] = s[k]
    BY <2>2
  <2>4. RightFor(g, c)'
    BY <1>1, <2>3 DEF RightFor
  <2> QED BY <1>0, <2>1, <2>2, <2>4
<1>5. CASE /\ mpc = "send" /\ Len(out[peer]) < SendRoom
           /\ out' = [out EXCEPT ![peer] = Append(@, Head(batch))]
           /\ UNCHANGED <<got, posted>> /\ ItemDone /\ peer = c
  <2>1. batch # <<>> /\ batch[1] = done + 1 /\ Head(batch) = done + 1 /\ done \in Nat
    <3>1. batch # <<>> /\ batch \in Seq(Nat) /\ done \in Nat
      BY <1>5 DEF QueueInv, TypeOK
    <3>2. Head(batch) = batch[1] /\ 1 \in 1 .. Len(batch)
      BY <3>1, HeadTail
    <3> QED BY <3>1, <3>2 DEF QueueInv
  <2> PICK d \in Nat : d = done + 1
    BY <2>1
  <2>2. out'[c] = Append(out[c], d) /\ got'[c] = got[c]
    BY <1>5, <2>1 DEF TypeOK
  <2>3. Len(out[c]) \in Nat /\ Len(out'[c]) = Len(out[c]) + 1
    BY <1>0, <2>2
  <2>4. Given(c)' = Append(s, d)
    <3>1. got[c] \o Append(out[c], d) = Append(got[c] \o out[c], d)
      <4>1. g \o Append(o, d) = Append(g \o o, d)
        BY NumbersJoinAppend, ZenonT(20)
      <4> QED BY <1>g, <1>o, <4>1
    <3> QED BY <1>s, <2>2, <3>1 DEF Given
  <2>5. done' = d /\ d \in 1 .. done' /\ posted' = posted
    BY <1>5, <2>1 DEF ItemDone
  <2>6. MayReach(posted[d], c)'
    <3>1. MayReach(posted[d], c)
      BY <1>5, <2>1 DEF AddressInv
    <3>2. d \in 1 .. Len(posted)
      <4>1. Len(batch) \in Nat \ {0} /\ Len(queue) \in Nat /\ Len(posted) \in Nat
        BY <2>1, HeadTail, SMTT(30) DEF TypeOK
      <4>2. done + Len(batch) + Len(queue) = Len(posted)
        BY DEF QueueInv
      <4> QED BY <2>1, <4>1, <4>2
    <3> PICK item \in Item : item = posted[d]
      BY <3>2, PostedStays
    <3>3. item.addr \in Closed => item.addr \in Closed'
      BY ClosedStays
    <3> QED BY <2>5, <3>1, <3>3 DEF MayReach
  <2>7. RightFor(Append(s, d), c)'
    <3> PICK t \in Seq(Nat) : t = Append(s, d)
      BY Appended
    <3>1. /\ Len(s) \in Nat /\ Len(t) = Len(s) + 1 /\ t[Len(s) + 1] = d
          /\ \A k \in 1 .. Len(s) : t[k] = s[k]
      BY Appended
    <3>2. \A k \in 1 .. Len(s) : s[k] \in 1 .. done
      BY <1>s DEF RightFor
    <3>3. \A k \in 1 .. Len(s) : s[k] < d
      BY <2>1, <3>2
    <3>4. ASSUME NEW k \in 1 .. Len(t) PROVE k \in 1 .. Len(s) \/ k = Len(s) + 1
      BY <3>1
    <3>5. \A k \in 1 .. Len(t) : t[k] \in 1 .. done' /\ MayReach(posted[t[k]], c)'
      BY <1>1, <2>5, <2>6, <3>1, <3>4 DEF RightFor
    <3>6. ASSUME NEW j \in 1 .. Len(t), NEW k \in 1 .. Len(t), j < k PROVE t[j] < t[k]
      <4>1. j \in 1 .. Len(s)
        BY <3>1, <3>6
      <4>2. CASE k \in 1 .. Len(s)
        BY <1>s, <3>1, <3>6, <4>1, <4>2 DEF RightFor
      <4>3. CASE k = Len(s) + 1
        BY <3>1, <3>3, <4>1, <4>3
      <4> QED BY <3>4, <4>2, <4>3
    <3>7. RightFor(t, c)'
      BY <3>5, <3>6 DEF RightFor
    <3> QED BY <3>7
  <2> QED BY <1>0, <1>5, <2>3, <2>4, <2>7
<1>6. CASE UNCHANGED <<got, out>>
  BY <1>2, <1>6
<1>7. ASSUME NEW d \in Conns, d # c, Receive(d) PROVE got'[c] = got[c] /\ out'[c] = out[c]
  BY <1>7 DEF Receive, TypeOK
<1>8. ASSUME NEW d \in Conns, d # c, Lost(d) PROVE got'[c] = got[c] /\ out'[c] = out[c]
  BY <1>8 DEF Lost, TypeOK
<1>9. CASE out' = [out EXCEPT ![peer] = Append(@, Head(batch))] /\ UNCHANGED got /\ peer # c
  BY <1>2, <1>9 DEF TypeOK
<1> QED BY <1>2, <1>3, <1>4, <1>5, <1>6, <1>7, <1>8, <1>9, GivenCases

-----------------------------------------------------------------------------
\* Only update_self comes to require, and it has reset package.loaded.
LEMMA ReloadStep == ASSUME ReloadInv, [Next]_vars PROVE ReloadInv'
<1>1. CASE UNCHANGED <<mpc, loaded>>
  BY <1>1 DEF ReloadInv
<1>2. CASE mpc' # "require"
  BY <1>2 DEF ReloadInv
<1>3. CASE Main
  BY <1>1, <1>2, <1>3 DEF Main, WakeUp, LoopExecute, RunIgnored, RunUpdateSelf, Require,
     BeginSend, FinishSend, EndLoop, ItemDone, scriptVars, ReloadInv
<1> QED
  BY <1>1, <1>3 DEF Next, vars, Client, Edit, Server, Accept, PostMessage, ReadAstray,
     CloseFd, engineVars, scriptVars

LEMMA GameInvInit == Init => GameInv
<1> SUFFICES ASSUME Init PROVE GameInv
  OBVIOUS
<1>1. Len(<<>>) = 0 /\ <<>> \o <<>> = <<>>
  OBVIOUS
<1>2. ConnInv /\ QueueInv /\ ReloadInv
  BY <1>1 DEF Init, ConnInv, QueueInv, ReloadInv
<1>3. AddressInv
  BY <1>1 DEF Init, AddressInv
<1>4. \A c \in Conns : Given(c) = <<>> /\ Len(out[c]) = 0
  BY <1>1 DEF Init, Given
<1>5. GivenInv /\ ReachesAddressee
  BY <1>1, <1>4, BoundsAssumption DEF GivenInv, ReachesAddressee
<1> QED BY <1>2, <1>3, <1>5, TypeInit DEF GameInv

LEMMA GameInvStep == GameInv /\ [Next]_vars => GameInv'
<1> SUFFICES ASSUME GameInv, [Next]_vars PROVE GameInv'
  OBVIOUS
<1>1. /\ TypeOK /\ ConnInv /\ QueueInv /\ AddressInv /\ ReloadInv
      /\ (mpc \in {"send", "require"} => batch # <<>>)
  BY DEF GameInv, QueueInv
<1>2. \A c \in Conns : RightFor(Given(c), c) /\ Len(out[c]) <= SendRoom
  BY DEF GameInv, GivenInv, ReachesAddressee, RightFor
<1>3. \A c \in Conns : RightFor(Given(c), c)' /\ Len(out'[c]) <= SendRoom
  BY <1>1, <1>2, GivenStep
<1>4. GivenInv' /\ ReachesAddressee'
  BY <1>3 DEF GivenInv, ReachesAddressee, RightFor
<1> QED BY <1>1, <1>4, TypeStep, ConnStep, QueueStep, AddressStep, ReloadStep
    DEF GameInv

\* For any number of clients and messages: a connection is open as one
\* descriptor at most, items are run in the order in which they were posted,
\* each once, and a descriptor that an item names changes hands only after
\* the connection that it meant was closed.
THEOREM GameInvariant == Spec => []GameInv
BY GameInvInit, GameInvStep, PTL DEF Spec

\* send_data brings no message to a client that it did not name, other than
\* to the next owner of a descriptor that was closed, and none twice.
THEOREM SendReachesAddressee == Spec => []ReachesAddressee
<1>1. GameInv => ReachesAddressee
  BY DEF GameInv
<1> QED BY <1>1, GameInvariant, PTL

\* require always runs a script that loads, whatever an earlier one has left in
\* package.loaded, for update_self has reset that: what it defines is bound.
THEOREM ReloadAlwaysTakes == Spec => []ReloadTakes
<1>1. Init => ReloadTakes
  BY DEF Init, ReloadTakes
<1>2. GameInv /\ ReloadTakes /\ [Next]_vars => ReloadTakes'
  <2> SUFFICES ASSUME GameInv, ReloadTakes, [Next]_vars PROVE ReloadTakes'
    OBVIOUS
  <2>1. CASE UNCHANGED <<bound, wanted>>
    BY <2>1 DEF ReloadTakes
  <2>2. CASE mpc = "require" /\ Require
    <3>1. loaded = "false"
      BY <2>2 DEF GameInv, ReloadInv
    <3> QED BY <2>2, <3>1 DEF Require, ReloadTakes
  <2>3. UNCHANGED <<bound, wanted>> \/ (mpc = "require" /\ Require)
    BY DEF Next, vars, Client, Edit, Server, Main, WakeUp, LoopExecute, RunIgnored,
       RunUpdateSelf, BeginSend, FinishSend, EndLoop, scriptVars
  <2> QED BY <2>1, <2>2, <2>3
<1> QED BY <1>1, <1>2, GameInvariant, PTL DEF Spec

-----------------------------------------------------------------------------
(* Refinement: the queue and the batch together are a mailbox.             *)

LEMMA JoinTail ==
    ASSUME NEW S, NEW s \in Seq(S), NEW t \in Seq(S), s # <<>>
    PROVE  Head(s \o t) = Head(s) /\ Tail(s \o t) = Tail(s) \o t /\ s \o t # <<>>
<1>1. Head(s) \in S /\ Tail(s) \in Seq(S) /\ Len(Tail(s)) = Len(s) - 1
      /\ Len(s) \in Nat \ {0}
  BY HeadTailProperties, EmptySeq
<1> QED BY <1>1

\* The items that have been gone through, after one more.
LEMMA HandledMore ==
    ASSUME NEW n \in Nat
    PROVE  Append([k \in 1 .. n |-> k], n + 1) = [k \in 1 .. n + 1 |-> k]
OBVIOUS

\* Whoever posts, sends and leaves, and whatever the script does: the server
\* goes through the messages that it has read as the mailbox of Mailbox.tla
\* says, one after the other in the order of ExecGafq, each once (WakeUp,
\* which moves the queue to the batch, cannot be seen from outside).
THEOREM GameImplementsMailbox == Spec => MB!SafeSpec
<1>1. Init => MB!Init
  <2> SUFFICES ASSUME Init PROVE MB!Init
    OBVIOUS
  <2>1. batch = <<>> /\ queue = <<>> /\ done = 0
    BY DEF Init
  <2>2. batch \o queue = <<>>
    BY <2>1
  <2>3. Handled = <<>>
    BY <2>1 DEF Handled
  <2> QED BY <2>2, <2>3 DEF MB!Init
<1>2. GameInv /\ [Next]_vars => [MB!Next]_(MB!vars)
  <2> SUFFICES ASSUME GameInv, [Next]_vars PROVE [MB!Next]_(MB!vars)
    OBVIOUS
  <2>0. /\ TypeOK /\ QueueInv /\ (mpc \in {"send", "require"} => batch # <<>>)
        /\ batch \in Seq(Nat) /\ queue \in Seq(Nat) /\ done \in Nat
    BY DEF GameInv, QueueInv, TypeOK
  <2>1. CASE UNCHANGED <<batch, queue, done>>
    BY <2>1 DEF MB!vars, Handled
  <2>2. ASSUME Posts PROVE MB!Next
    <3>1. Len(posted) + 1 \in Nat
      BY <2>0 DEF TypeOK
    <3>2. batch' \o queue' = Append(batch \o queue, Len(posted) + 1)
      <4>1. queue' = Append(queue, Len(posted) + 1) /\ batch' = batch
        BY <2>0, <2>2, PostFacts DEF Posts
      <4> QED BY <2>0, <3>1, <4>1, JoinAppend, SMTT(30)
    <3>3. Handled' = Handled
      BY <2>2 DEF Posts, Handled
    <3> QED BY <3>1, <3>2, <3>3 DEF MB!Next, MB!Post
  <2>3. CASE WakeUp
    <3>1. batch = <<>> /\ batch' = queue /\ queue' = <<>> /\ done' = done
      BY <2>0, <2>3 DEF WakeUp, QueueInv
    <3>2. batch' \o queue' = batch \o queue
      BY <2>0, <3>1
    <3>3. Handled' = Handled
      BY <3>1 DEF Handled
    <3> QED BY <3>2, <3>3 DEF MB!vars
  <2>4. CASE batch # <<>> /\ ItemDone /\ UNCHANGED <<posted, queue>>
    <3>1. /\ batch' = Tail(batch) /\ queue' = queue /\ done' = done + 1
      BY <2>4 DEF ItemDone
    <3>2. /\ batch \o queue # <<>> /\ Head(batch \o queue) = Head(batch)
          /\ batch' \o queue' = Tail(batch \o queue)
      <4>1. \A s, t \in Seq(Nat) : s # <<>> =>
                Head(s \o t) = Head(s) /\ Tail(s \o t) = Tail(s) \o t /\ s \o t # <<>>
        BY JoinTail, ZenonT(20)
      <4> QED BY <2>0, <2>4, <3>1, <4>1, ZenonT(20)
    <3>3. Head(batch) = done + 1
      <4>1. Head(batch) = batch[1] /\ 1 \in 1 .. Len(batch)
        BY <2>0, <2>4, HeadTail
      <4> QED BY <2>0, <4>1 DEF QueueInv
    <3>4. Handled' = Append(Handled, Head(batch))
      BY <2>0, <3>1, <3>3, HandledMore DEF Handled
    <3> QED BY <3>2, <3>4 DEF MB!Next, MB!Handle
  <2> QED BY <2>0, <2>1, <2>2, <2>3, <2>4, EngineCases
      DEF Sends, Reloads, EndLoop, engineVars
<1> QED BY <1>1, <1>2, GameInvariant, PTL DEF Spec, MB!SafeSpec
=============================================================================
