------------------------- MODULE EpollServerProofs -------------------------
(***************************************************************************)
(* What the server thread of game.cpp promises for any number of clients,  *)
(* descriptors and frames: EpollInv and StreamInv are inductive,           *)
(* and so is PacedInv for clients that wait between frames.                *)
(***************************************************************************)
EXTENDS EpollServer, SocketMsgProofs, SequenceTheorems, FiniteSetTheorems,
        WellFoundedInduction, TLAPS

-----------------------------------------------------------------------------
(* Sequences.                                                              *)

LEMMA HeadTail ==
    ASSUME NEW S, NEW s \in Seq(S), s # <<>>
    PROVE  /\ Head(s) = s[1] /\ Head(s) \in S /\ Tail(s) \in Seq(S)
           /\ Len(s) \in Nat \ {0} /\ Len(Tail(s)) = Len(s) - 1
           /\ \A k \in 1 .. Len(s) - 1 : Tail(s)[k] = s[k + 1]
OBVIOUS

LEMMA Appended ==
    ASSUME NEW S, NEW s \in Seq(S), NEW x \in S
    PROVE  /\ Append(s, x) \in Seq(S) /\ Len(s) \in Nat /\ Len(Append(s, x)) = Len(s) + 1
           /\ \A k \in 1 .. Len(s) : Append(s, x)[k] = s[k]
           /\ Append(s, x)[Len(s) + 1] = x
OBVIOUS

LEMMA Joined ==
    ASSUME NEW S, NEW s \in Seq(S), NEW t \in Seq(S)
    PROVE  /\ s \o t \in Seq(S) /\ Len(s) \in Nat /\ Len(t) \in Nat
           /\ Len(s \o t) = Len(s) + Len(t)
           /\ \A k \in 1 .. Len(s) : (s \o t)[k] = s[k]
           /\ \A k \in 1 .. Len(t) : (s \o t)[Len(s) + k] = t[k]
<1>1. s \o t \in Seq(S) /\ Len(s) \in Nat /\ Len(t) \in Nat
  OBVIOUS
<1>2. /\ Len(s \o t) = Len(s) + Len(t)
      /\ \A k \in 1 .. Len(s) + Len(t) : (s \o t)[k] = IF k <= Len(s) THEN s[k] ELSE t[k - Len(s)]
  BY <1>1
<1>3. \A k \in 1 .. Len(s) : (s \o t)[k] = s[k]
  BY <1>1, <1>2
<1>4. ASSUME NEW k \in 1 .. Len(t) PROVE (s \o t)[Len(s) + k] = t[k]
  <2>1. Len(s) + k \in 1 .. Len(s) + Len(t) /\ ~(Len(s) + k <= Len(s)) /\ (Len(s) + k) - Len(s) = k
    BY <1>1
  <2> QED BY <1>2, <2>1
<1> QED BY <1>1, <1>2, <1>3, <1>4

\* The first n of some things, and the rest of them.
LEMMA CutAt ==
    ASSUME NEW S, NEW s \in Seq(S), NEW n \in 0 .. Len(s)
    PROVE  /\ SubSeq(s, 1, n) \in Seq(S) /\ Len(SubSeq(s, 1, n)) = n
           /\ \A k \in 1 .. n : SubSeq(s, 1, n)[k] = s[k]
           /\ SubSeq(s, n + 1, Len(s)) \in Seq(S)
           /\ Len(SubSeq(s, n + 1, Len(s))) = Len(s) - n
           /\ \A k \in 1 .. Len(s) - n : SubSeq(s, n + 1, Len(s))[k] = s[n + k]
<1>0. Len(s) \in Nat /\ n \in Nat /\ n <= Len(s)
  OBVIOUS
<1>1. ASSUME NEW a \in Nat, NEW b \in Nat, a >= 1, b <= Len(s), a <= b + 1
      PROVE  /\ SubSeq(s, a, b) \in Seq(S) /\ Len(SubSeq(s, a, b)) = b - a + 1
             /\ \A k \in 1 .. b - a + 1 : SubSeq(s, a, b)[k] = s[a + k - 1]
  BY <1>0, <1>1
<1>2. /\ SubSeq(s, 1, n) \in Seq(S) /\ Len(SubSeq(s, 1, n)) = n - 1 + 1
      /\ \A k \in 1 .. n - 1 + 1 : SubSeq(s, 1, n)[k] = s[1 + k - 1]
  BY <1>0, <1>1
<1>3. /\ SubSeq(s, n + 1, Len(s)) \in Seq(S)
      /\ Len(SubSeq(s, n + 1, Len(s))) = Len(s) - (n + 1) + 1
      /\ \A k \in 1 .. Len(s) - (n + 1) + 1 : SubSeq(s, n + 1, Len(s))[k] = s[n + 1 + k - 1]
  BY <1>0, <1>1
<1>4. n - 1 + 1 = n /\ Len(s) - (n + 1) + 1 = Len(s) - n
  BY <1>0
<1>5. ASSUME NEW k \in 1 .. n PROVE SubSeq(s, 1, n)[k] = s[k]
  <2>1. k \in 1 .. n - 1 + 1 /\ 1 + k - 1 = k
    BY <1>4
  <2> QED BY <1>2, <2>1
<1>6. ASSUME NEW k \in 1 .. Len(s) - n PROVE SubSeq(s, n + 1, Len(s))[k] = s[n + k]
  <2>1. k \in 1 .. Len(s) - (n + 1) + 1 /\ n + 1 + k - 1 = n + k
    BY <1>0, <1>4
  <2> QED BY <1>3, <2>1
<1> QED BY <1>2, <1>3, <1>4, <1>5, <1>6

LEMMA NatHasMin ==
    ASSUME NEW T \in SUBSET Nat, T # {}
    PROVE  \E p \in T : \A j \in T : p <= j
<1> DEFINE R == OpToRel(<, Nat)
<1>1. IsWellFoundedOn(R, Nat)
  BY NatLessThanWellFounded
<1>2. \A x, y \in Nat : <<x, y>> \in R <=> x < y
  BY DEF OpToRel
<1> HIDE DEF R
<1>3. PICK p \in T : \A j \in T : ~(<<j, p>> \in R)
  BY <1>1, WFMin
<1>4. \A j \in T : ~(j < p)
  BY <1>2, <1>3
<1> QED BY <1>4

LEMMA LesserOf ==
    ASSUME NEW m \in Nat, NEW n \in Nat
    PROVE  /\ Min({m, n}) \in {m, n} /\ Min({m, n}) <= m /\ Min({m, n}) <= n
<1>1. CASE m <= n
  <2>1. Min({m, n}) = m
    BY <1>1, MinIs
  <2> QED BY <1>1, <2>1
<1>2. CASE n <= m
  <2>1. Min({m, n}) = n
    BY <1>2, MinIs
  <2> QED BY <1>2, <2>1
<1> QED BY <1>1, <1>2

-----------------------------------------------------------------------------
(* The memory of read_msg_.                                                *)

LEMMA ByteFields ==
    \A b \in Byte : b.conn \in Conns \cup {NoConn} /\ b.off \in Nat /\ b.code \in 0 .. 127
BY DEF Byte

LEMMA ZeroIsByte == Zero \in Byte /\ Zero.code = 0 /\ Junk \in Byte
BY DEF Zero, Junk, Byte, NUL

LEMMA Sizes ==
    /\ header_length = 4 /\ max_body_length \in Nat /\ max_body_length >= 1
    /\ BufferSize = 4 + max_body_length /\ BufferSize \in Nat
BY MaxBodyAssumption DEF header_length, BufferSize

LEMMA FunctionIsSeq ==
    ASSUME NEW S, NEW n \in Nat, NEW f \in [1 .. n -> S]
    PROVE  f \in Seq(S) /\ Len(f) = n
OBVIOUS

LEMMA SeqIsFunction ==
    ASSUME NEW S, NEW s \in Seq(S)
    PROVE  s \in [1 .. Len(s) -> S]
OBVIOUS

\* What a read() puts into the memory.
LEMMA OverlayIs ==
    ASSUME NEW n \in Nat, NEW buffer \in [1 .. n -> Byte],
           NEW skip \in Nat, NEW bytes \in Seq(Byte)
    PROVE  /\ Overlay(buffer, skip, bytes) \in [1 .. n -> Byte]
           /\ \A k \in 1 .. n :
                  Overlay(buffer, skip, bytes)[k] =
                      IF k - skip \in 1 .. Len(bytes) THEN bytes[k - skip] ELSE buffer[k]
<1>1. DOMAIN buffer = 1 .. n
  OBVIOUS
<1>2. Len(bytes) \in Nat /\ \A k \in 1 .. Len(bytes) : bytes[k] \in Byte
  OBVIOUS
<1>3. \A k \in 1 .. n :
          Overlay(buffer, skip, bytes)[k] =
              IF k - skip \in 1 .. Len(bytes) THEN bytes[k - skip] ELSE buffer[k]
  BY <1>1 DEF Overlay
<1>4. \A k \in 1 .. n :
          (IF k - skip \in 1 .. Len(bytes) THEN bytes[k - skip] ELSE buffer[k]) \in Byte
  BY <1>2
<1>5. Overlay(buffer, skip, bytes) \in [1 .. n -> Byte]
  BY <1>1, <1>4 DEF Overlay
<1> QED BY <1>3, <1>5

\* The C string is what comes before the first NUL.
LEMMA CStringIs ==
    ASSUME NEW memory \in Seq(Byte)
    PROVE  /\ CString(memory) \in Seq(Byte)
           /\ Len(CString(memory)) \in 0 .. Len(memory)
           /\ \A k \in 1 .. Len(CString(memory)) :
                  CString(memory)[k] = memory[k] /\ memory[k].code # NUL
           /\ Len(CString(memory)) < Len(memory)
                  => memory[Len(CString(memory)) + 1].code = NUL
<1> DEFINE ends == {k \in 1 .. Len(memory) : memory[k].code = NUL}
<1>0. Len(memory) \in Nat
  OBVIOUS
<1>1. CASE ends = {}
  <2>1. CString(memory) = memory
    BY <1>1 DEF CString
  <2>2. \A k \in 1 .. Len(memory) : memory[k].code # NUL
    BY <1>1
  <2> QED BY <1>0, <2>1, <2>2
<1>2. CASE ends # {}
  <2>1. ends \in SUBSET Nat /\ ends \in SUBSET Int
    BY <1>0
  <2>2. PICK p \in ends : \A j \in ends : p <= j
    <3> HIDE DEF ends
    <3> QED BY <1>2, <2>1, NatHasMin
  <2>3. Min(ends) = p
    <3> HIDE DEF ends
    <3> QED BY <2>1, <2>2, MinIs
  <2>4. CString(memory) = SubSeq(memory, 1, p - 1)
    BY <1>2, <2>3 DEF CString
  <2>5. p \in 1 .. Len(memory) /\ p - 1 \in 0 .. Len(memory) /\ memory[p].code = NUL
    BY <1>0
  <2>6. /\ CString(memory) \in Seq(Byte) /\ Len(CString(memory)) = p - 1
        /\ \A k \in 1 .. p - 1 : CString(memory)[k] = memory[k]
    BY <2>4, <2>5, CutAt
  <2>7. ASSUME NEW k \in 1 .. p - 1 PROVE memory[k].code # NUL
    <3>1. k \in 1 .. Len(memory) /\ ~(p <= k)
      BY <1>0, <2>5
    <3> QED BY <2>2, <3>1
  <2>8. (p - 1) + 1 = p
    BY <2>5
  <2> QED BY <2>5, <2>6, <2>7, <2>8
<1> QED BY <1>1, <1>2

-----------------------------------------------------------------------------
(* Types.                                                                  *)

LEMMA FramesAre ==
    \A frame \in FrameType : frame.start \in Nat /\ frame.len \in BodyLens
BY DEF FrameType

LEMMA LensAre == \A n \in BodyLens : n \in Nat /\ n <= max_body_length /\ n \in Lengths
BY BodyLensAssumption, MaxBodyAssumption DEF Lengths

\* Written(c) is where the last frame ends.
LEMMA WrittenIs ==
    ASSUME NEW c \in Conns, sent[c] \in Seq(FrameType)
    PROVE  /\ Written(c) \in Nat
           /\ sent[c] = <<>> => Written(c) = 0
           /\ sent[c] # <<>> =>
                  Written(c) = sent[c][Len(sent[c])].start + header_length
                                   + sent[c][Len(sent[c])].len
<1>1. sent[c] = <<>> => Written(c) = 0
  BY DEF Written
<1>2. ASSUME sent[c] # <<>>
      PROVE  /\ Written(c) \in Nat
             /\ Written(c) = sent[c][Len(sent[c])].start + header_length
                                 + sent[c][Len(sent[c])].len
  <2>1. sent[c][Len(sent[c])] \in FrameType
    BY <1>2
  <2>2. PICK last \in FrameType : last = sent[c][Len(sent[c])]
    BY <2>1
  <2>3. last.start \in Nat /\ last.len \in Nat
    BY FramesAre, LensAre
  <2>4. Written(c) = last.start + header_length + last.len
    BY <1>2, <2>2 DEF Written
  <2> QED BY <2>2, <2>3, <2>4, Sizes, SMTT(30)
<1> QED BY <1>1, <1>2

LEMMA FrameIs ==
    ASSUME NEW c \in Conns, sent[c] \in Seq(FrameType), NEW n \in BodyLens
    PROVE  /\ Frame(c, n) \in Seq(Byte) /\ Len(Frame(c, n)) = header_length + n
           /\ \A k \in 1 .. header_length + n :
                  /\ Frame(c, n)[k].conn = c
                  /\ Frame(c, n)[k].off = Written(c) + k
<1>1. Written(c) \in Nat /\ n \in Nat /\ n \in Lengths /\ header_length + n \in Nat
  BY WrittenIs, LensAre, Sizes
<1>2. \A k \in 1 .. 4 : EncodeHeader(n)[k] \in 0 .. 127
  <2>1. EncodeHeader(n) \in Header
    BY <1>1, CutIsHeader, WholeIsUncut
  <2> QED BY <2>1 DEF Header, header_length
<1>3. ASSUME NEW k \in 1 .. header_length + n
      PROVE  /\ Frame(c, n)[k] \in Byte
             /\ Frame(c, n)[k].conn = c /\ Frame(c, n)[k].off = Written(c) + k
  <2>1. PICK code \in 0 .. 127 :
            code = IF k <= header_length THEN EncodeHeader(n)[k] ELSE BodyCode
    <3>1. CASE k <= header_length
      <4>1. k \in 1 .. 4
        BY <1>1, <3>1, Sizes
      <4> QED BY <1>2, <3>1, <4>1
    <3>2. CASE ~(k <= header_length)
      BY <3>2, BodyCodeAssumption
    <3> QED BY <3>1, <3>2
  <2>2. Frame(c, n)[k] = [conn |-> c, off |-> Written(c) + k, code |-> code]
    BY <2>1 DEF Frame
  <2>3. Written(c) + k \in Nat
    BY <1>1
  <2> QED BY <2>2, <2>3 DEF Byte
<1>4. Frame(c, n) \in [1 .. header_length + n -> Byte]
  BY <1>3 DEF Frame
<1>5. Frame(c, n) \in Seq(Byte) /\ Len(Frame(c, n)) = header_length + n
  BY <1>1, <1>4, FunctionIsSeq
<1> QED BY <1>3, <1>5

\* What read() takes out of the receive buffer and what it leaves.
LEMMA ReadIs ==
    ASSUME NEW c \in Conns, rcv[c] \in Seq(Byte), NEW n \in Nat, NEW got \in Reads(c, n)
    PROVE  /\ got \in Seq(Byte) /\ Len(got) \in 0 .. Len(rcv[c]) /\ Len(got) <= n
           /\ Len(got) \in {n, Len(rcv[c])}
           /\ \A k \in 1 .. Len(got) : got[k] = rcv[c][k]
           /\ Rest(c, Len(got)) \in Seq(Byte)
           /\ Len(Rest(c, Len(got))) = Len(rcv[c]) - Len(got)
           /\ \A k \in 1 .. Len(rcv[c]) - Len(got) :
                  Rest(c, Len(got))[k] = rcv[c][Len(got) + k]
<1>1. Len(rcv[c]) \in Nat
  OBVIOUS
<1>2. PICK m \in {n, Len(rcv[c])} : m = Min({n, Len(rcv[c])}) /\ m <= n /\ m <= Len(rcv[c])
  BY <1>1, LesserOf
<1>3. m \in 0 .. Len(rcv[c])
  BY <1>1, <1>2
<1>4. got = SubSeq(rcv[c], 1, m)
  BY <1>2 DEF Reads
<1>5. got \in Seq(Byte) /\ Len(got) = m /\ \A k \in 1 .. m : got[k] = rcv[c][k]
  BY <1>3, <1>4, CutAt
<1>6. /\ Rest(c, m) \in Seq(Byte) /\ Len(Rest(c, m)) = Len(rcv[c]) - m
      /\ \A k \in 1 .. Len(rcv[c]) - m : Rest(c, m)[k] = rcv[c][m + k]
  BY <1>3, CutAt DEF Rest
<1> QED BY <1>2, <1>3, <1>5, <1>6

LEMMA TypeInit == Init => TypeOK
<1> SUFFICES ASSUME Init PROVE TypeOK
  OBVIOUS
<1>1. /\ <<>> \in Seq(FrameType) /\ <<>> \in Seq(Byte) /\ <<>> \in Seq(Conns)
      /\ <<>> \in Seq(Post)
  OBVIOUS
<1>2. ev \in Event
  BY DEF Init, NoEvent, Event
<1>3. data_ \in [1 .. BufferSize -> Byte]
  BY ZeroIsByte DEF Init, BufferSize
<1>4. pad \in Byte
  BY ZeroIsByte DEF Init
<1>5. body_length_ \in 0 .. max_body_length
  BY Sizes DEF Init
<1>6. events \in SUBSET Event
  BY DEF Init
<1> QED BY <1>1, <1>2, <1>3, <1>4, <1>5, <1>6 DEF Init, TypeOK

LEMMA ClientTypes ==
    ASSUME TypeOK, NEW c \in Conns, Client(c) \/ Network(c) PROVE TypeOK'
<1>0. UNCHANGED <<files, spc, events, ev, bufferVars, posted>>
  BY DEF Client, Network
<1>1. CASE Connect(c)
  <2>1. cli' \in [Conns -> {"off", "up", "fin", "rst"}]
    BY <1>1 DEF Connect, TypeOK
  <2>2. backlog' \in Seq(Conns)
    BY <1>1, Appended DEF Connect, TypeOK
  <2> QED BY <1>0, <1>1, <2>1, <2>2 DEF Connect, bufferVars, TypeOK
<1>2. ASSUME NEW n \in BodyLens, SendFrame(c, n) PROVE TypeOK'
  <2>1. sent[c] \in Seq(FrameType) /\ net[c] \in Seq(Byte)
    BY DEF TypeOK
  <2>2. Written(c) \in Nat /\ Frame(c, n) \in Seq(Byte)
    BY <2>1, WrittenIs, FrameIs
  <2>3. [start |-> Written(c), len |-> n] \in FrameType
    BY <2>2 DEF FrameType
  <2>4. Append(sent[c], [start |-> Written(c), len |-> n]) \in Seq(FrameType)
    BY <2>1, <2>3, Appended
  <2>5. net[c] \o Frame(c, n) \in Seq(Byte)
    BY <2>1, <2>2, Joined
  <2>6. sent' \in [Conns -> Seq(FrameType)]
    BY <1>2, <2>4 DEF SendFrame, TypeOK
  <2>7. net' \in [Conns -> Seq(Byte)]
    BY <1>2, <2>5 DEF SendFrame, TypeOK
  <2> QED BY <1>0, <1>2, <2>6, <2>7 DEF SendFrame, bufferVars, TypeOK
<1>3. CASE Finish(c)
  BY <1>0, <1>3 DEF Finish, bufferVars, TypeOK
<1>4. CASE Reset(c)
  <2>1. <<>> \in Seq(Byte)
    OBVIOUS
  <2>2. net' \in [Conns -> Seq(Byte)]
    BY <1>4, <2>1 DEF Reset, TypeOK
  <2> QED BY <1>0, <1>4, <2>2 DEF Reset, bufferVars, TypeOK
<1>5. CASE Arrive(c)
  <2>1. net[c] \in Seq(Byte) /\ rcv[c] \in Seq(Byte) /\ Len(net[c]) \in Nat
    BY DEF TypeOK
  <2>2. PICK k \in {Len(net[c])} \cup {n \in Pieces : n < Len(net[c])} :
            /\ rcv' = [rcv EXCEPT ![c] = @ \o SubSeq(net[c], 1, k)]
            /\ net' = [net EXCEPT ![c] = SubSeq(@, k + 1, Len(@))]
    BY <1>5 DEF Arrive
  <2>3. k \in 0 .. Len(net[c])
    <3>1. k = Len(net[c]) \/ (k \in Nat /\ k < Len(net[c]))
      BY PiecesAssumption
    <3> QED BY <2>1, <3>1
  <2>4. SubSeq(net[c], 1, k) \in Seq(Byte) /\ SubSeq(net[c], k + 1, Len(net[c])) \in Seq(Byte)
    BY <2>1, <2>3, CutAt
  <2>5. rcv[c] \o SubSeq(net[c], 1, k) \in Seq(Byte)
    BY <2>1, <2>4, Joined
  <2>6. rcv' \in [Conns -> Seq(Byte)] /\ net' \in [Conns -> Seq(Byte)]
    BY <2>2, <2>4, <2>5 DEF TypeOK
  <2> QED BY <1>0, <1>5, <2>6 DEF Arrive, bufferVars, TypeOK
<1> QED BY <1>1, <1>2, <1>3, <1>4, <1>5 DEF Client, Network

\* An event of epoll_wait is about a connection that is open, or a new one.
LEMMA ReadyIs ==
    ASSUME files \in [Fds -> Conns \cup {NoConn}], NEW quiet, NEW e \in Ready(quiet)
    PROVE  /\ e \in Event
           /\ e.fd # Listener =>
                  e.fd \in Fds /\ files[e.fd] # NoConn /\ e.conn = files[e.fd]
           /\ e.fd = Listener => backlog # <<>> /\ e.conn = NoConn
           /\ \A f \in Ready(quiet) : e.fd = f.fd => e = f
<1> DEFINE Told(fd) == [fd |-> fd, conn |-> files[fd], in |-> files[fd] \notin quiet,
                        err |-> cli[files[fd]] = "rst"]
           new == [fd |-> Listener, conn |-> NoConn, in |-> TRUE, err |-> FALSE]
           ready == {f \in Fds : files[f] # NoConn /\ Readable(files[f])}
<1>1. ASSUME NEW f \in Ready(quiet)
      PROVE  \/ \E fd \in ready : f = Told(fd)
             \/ backlog # <<>> /\ f = new
  BY DEF Ready
<1>2. ASSUME NEW fd \in Fds
      PROVE  /\ Told(fd) \in Event /\ Told(fd).fd = fd /\ Told(fd).conn = files[fd]
  <2>1. PICK in \in BOOLEAN : in = (files[fd] \notin quiet)
    OBVIOUS
  <2>2. PICK err \in BOOLEAN : err = (cli[files[fd]] = "rst")
    OBVIOUS
  <2>3. Told(fd) = [fd |-> fd, conn |-> files[fd], in |-> in, err |-> err]
    BY <2>1, <2>2, Zenon
  <2> HIDE DEF Told
  <2> QED BY <2>3 DEF Event
<1>3. new \in Event /\ new.fd = Listener /\ new.conn = NoConn
  BY DEF Event
<1>4. \A fd \in Fds : fd # Listener
  BY MaxFdsAssumption DEF Fds, Listener
<1>5. ready \subseteq Fds /\ \A fd \in ready : files[fd] # NoConn
  OBVIOUS
<1> HIDE DEF Told, new, ready
<1>6. e \in Event /\ (e.fd # Listener =>
                  e.fd \in Fds /\ files[e.fd] # NoConn /\ e.conn = files[e.fd])
  BY <1>1, <1>2, <1>3, <1>5
<1>7. e.fd = Listener => backlog # <<>> /\ e.conn = NoConn
  BY <1>1, <1>2, <1>3, <1>4, <1>5
<1>8. ASSUME NEW f \in Ready(quiet), e.fd = f.fd PROVE e = f
  BY <1>1, <1>2, <1>3, <1>4, <1>5, <1>8
<1> QED BY <1>6, <1>7, <1>8

LEMMA EventFields ==
    \A e \in Event : e.fd \in Fds \cup {Listener} /\ e.conn \in Conns \cup {NoConn}
BY DEF Event

\* The descriptor and the connection of an event that is to be handled.
LEMMA EventIs ==
    ASSUME TypeOK, EventsInv, NEW e \in events, e.fd # Listener
    PROVE  e.fd \in Fds /\ files[e.fd] \in Conns /\ files[e.fd] = e.conn
<1>1. e \in Event
  BY DEF TypeOK
<1>2. e.fd \in Fds
  BY <1>1, EventFields
<1> QED BY <1>2 DEF TypeOK, EventsInv, EventsFresh

LEMMA BodyIs ==
    ASSUME TypeOK, EventsInv, spc = "body"
    PROVE  ev.fd \in Fds /\ files[ev.fd] \in Conns /\ files[ev.fd] = ev.conn
<1>1. ev.fd \in Fds
  BY EventFields DEF TypeOK, EventsInv
<1> QED BY <1>1 DEF TypeOK, EventsInv, EventsFresh

\* close() of the descriptor of an open connection.
LEMMA CloseIs ==
    ASSUME TypeOK, NEW fd \in Fds, NEW c \in Conns, files[fd] = c, Close(fd)
    PROVE  /\ files' \in [Fds -> Conns \cup {NoConn}]
           /\ net' \in [Conns -> Seq(Byte)] /\ rcv' \in [Conns -> Seq(Byte)]
           /\ files'[fd] = NoConn /\ \A f \in Fds \ {fd} : files'[f] = files[f]
           /\ net'[c] = <<>> /\ rcv'[c] = <<>>
           /\ \A d \in Conns \ {c} : net'[d] = net[d] /\ rcv'[d] = rcv[d]
<1>1. <<>> \in Seq(Byte)
  OBVIOUS
<1>2. /\ net' = [net EXCEPT ![c] = <<>>] /\ rcv' = [rcv EXCEPT ![c] = <<>>]
      /\ files' = [files EXCEPT ![fd] = NoConn]
  BY DEF Close
<1> QED BY <1>1, <1>2 DEF TypeOK

\* The lowest free descriptor becomes the first connection's that waits, or
\* there is none.
LEMMA AcceptIs ==
    ASSUME TypeOK, EventsInv, NEW e \in events, Accept(e)
    PROVE  \/ UNCHANGED <<files, backlog>>
           \/ \E fd \in Fds :
               /\ files[fd] = NoConn /\ backlog # <<>> /\ backlog[1] \in Conns
               /\ files' \in [Fds -> Conns \cup {NoConn}] /\ backlog' \in Seq(Conns)
               /\ files'[fd] = backlog[1]
               /\ \A f \in Fds \ {fd} : files'[f] = files[f]
               /\ Len(backlog) \in Nat \ {0} /\ Len(backlog') = Len(backlog) - 1
               /\ \A k \in 1 .. Len(backlog) - 1 : backlog'[k] = backlog[k + 1]
<1>1. CASE UNCHANGED <<files, backlog>>
  BY <1>1
<1>2. ASSUME NEW fd \in Fds, files[fd] = NoConn,
             files' = [files EXCEPT ![fd] = Head(backlog)], backlog' = Tail(backlog)
      PROVE  /\ files[fd] = NoConn /\ backlog # <<>> /\ backlog[1] \in Conns
             /\ files' \in [Fds -> Conns \cup {NoConn}] /\ backlog' \in Seq(Conns)
             /\ files'[fd] = backlog[1]
             /\ \A f \in Fds \ {fd} : files'[f] = files[f]
             /\ Len(backlog) \in Nat \ {0} /\ Len(backlog') = Len(backlog) - 1
             /\ \A k \in 1 .. Len(backlog) - 1 : backlog'[k] = backlog[k + 1]
  <2>1. backlog \in Seq(Conns) /\ backlog # <<>>
    BY DEF Accept, EventsInv, TypeOK
  <2>2. /\ Head(backlog) = backlog[1] /\ backlog[1] \in Conns /\ Tail(backlog) \in Seq(Conns)
        /\ Len(backlog) \in Nat \ {0} /\ Len(backlog') = Len(backlog) - 1
        /\ \A k \in 1 .. Len(backlog) - 1 : backlog'[k] = backlog[k + 1]
    BY <1>2, <2>1, HeadTail
  <2> QED BY <1>2, <2>1, <2>2 DEF TypeOK
<1> QED BY <1>1, <1>2 DEF Accept

\* The memory that ReadBody reads into: the header, the body and one byte.
LEMMA MemoryIs ==
    ASSUME TypeOK, NEW got \in Seq(Byte),
           NEW memory, memory = Overlay(Append(data_, pad), header_length, got)
    PROVE  /\ memory \in Seq(Byte) /\ Len(memory) = BufferSize + 1
           /\ SubSeq(memory, 1, BufferSize) \in [1 .. BufferSize -> Byte]
           /\ memory[BufferSize + 1] \in Byte
           /\ \A k \in 1 .. max_body_length + 1 :
                  memory[header_length + k] =
                      IF k <= Len(got) THEN got[k]
                      ELSE IF k = max_body_length + 1 THEN pad ELSE data_[header_length + k]
<1>1. data_ \in Seq(Byte) /\ Len(data_) = BufferSize /\ pad \in Byte /\ Len(got) \in Nat
  BY FunctionIsSeq, Sizes DEF TypeOK
<1>2. /\ Append(data_, pad) \in Seq(Byte) /\ Len(Append(data_, pad)) = BufferSize + 1
      /\ \A k \in 1 .. BufferSize : Append(data_, pad)[k] = data_[k]
      /\ Append(data_, pad)[BufferSize + 1] = pad
  BY <1>1, Appended
<1>3. PICK buffer \in [1 .. BufferSize + 1 -> Byte] : buffer = Append(data_, pad)
  <2>1. Append(data_, pad) \in [1 .. BufferSize + 1 -> Byte]
    BY <1>2, SeqIsFunction
  <2> QED BY <2>1, Zenon
<1>4. /\ memory \in [1 .. BufferSize + 1 -> Byte]
      /\ \A k \in 1 .. BufferSize + 1 :
             memory[k] = IF k - header_length \in 1 .. Len(got) THEN got[k - header_length]
                         ELSE buffer[k]
  <2>1. BufferSize + 1 \in Nat /\ header_length \in Nat
    BY Sizes
  <2>2. memory = Overlay(buffer, header_length, got)
    BY <1>3
  <2>3. PICK n \in Nat : n = BufferSize + 1
    BY <2>1
  <2>4. buffer \in [1 .. n -> Byte]
    BY <2>3
  <2>5. /\ Overlay(buffer, header_length, got) \in [1 .. n -> Byte]
        /\ \A k \in 1 .. n :
             Overlay(buffer, header_length, got)[k] =
                 IF k - header_length \in 1 .. Len(got) THEN got[k - header_length]
                 ELSE buffer[k]
    BY <2>1, <2>4, OverlayIs
  <2> QED BY <2>2, <2>3, <2>5
<1>5. memory \in Seq(Byte) /\ Len(memory) = BufferSize + 1
  <2>1. BufferSize + 1 \in Nat
    BY Sizes
  <2> QED BY <1>4, <2>1, FunctionIsSeq
<1>6. SubSeq(memory, 1, BufferSize) \in [1 .. BufferSize -> Byte]
  <2>1. BufferSize \in 0 .. Len(memory)
    BY <1>5, Sizes
  <2>2. SubSeq(memory, 1, BufferSize) \in Seq(Byte) /\ Len(SubSeq(memory, 1, BufferSize)) = BufferSize
    BY <1>5, <2>1, CutAt
  <2> QED BY <2>2, SeqIsFunction
<1>7. memory[BufferSize + 1] \in Byte
  BY <1>4, Sizes
<1>8. ASSUME NEW k \in 1 .. max_body_length + 1
      PROVE  memory[header_length + k] =
                 IF k <= Len(got) THEN got[k]
                 ELSE IF k = max_body_length + 1 THEN pad ELSE data_[header_length + k]
  <2>1. /\ header_length + k \in 1 .. BufferSize + 1 /\ (header_length + k) - header_length = k
        /\ k = max_body_length + 1 => header_length + k = BufferSize + 1
        /\ k # max_body_length + 1 => header_length + k \in 1 .. BufferSize
        /\ k \in 1 .. Len(got) <=> k <= Len(got)
    BY <1>1, Sizes
  <2>2. memory[header_length + k] = IF k \in 1 .. Len(got) THEN got[k]
                                    ELSE buffer[header_length + k]
    BY <1>4, <2>1
  <2> QED BY <1>2, <1>3, <2>1, <2>2
<1> QED BY <1>5, <1>6, <1>7, <1>8

\* The text that ReadBody posts.
LEMMA TextIs ==
    ASSUME NEW memory \in Seq(Byte), Len(memory) = BufferSize + 1,
           NEW text, text = CString(SubSeq(memory, header_length + 1, Len(memory)))
    PROVE  /\ text \in Seq(Byte) /\ Len(text) \in 0 .. max_body_length + 1
           /\ \A k \in 1 .. Len(text) : /\ text[k] = memory[header_length + k]
                                        /\ memory[header_length + k].code # NUL
           /\ Len(text) < max_body_length + 1
                  => memory[header_length + (Len(text) + 1)].code = NUL
<1> DEFINE body == SubSeq(memory, header_length + 1, Len(memory))
<1>1. header_length \in 0 .. Len(memory) /\ Len(memory) - header_length = max_body_length + 1
  BY Sizes
<1>2. /\ body \in Seq(Byte) /\ Len(body) = max_body_length + 1
      /\ \A k \in 1 .. max_body_length + 1 : body[k] = memory[header_length + k]
  BY <1>1, CutAt
<1> HIDE DEF body
<1>3. /\ text \in Seq(Byte) /\ Len(text) \in 0 .. Len(body)
      /\ \A k \in 1 .. Len(text) : text[k] = body[k] /\ body[k].code # NUL
      /\ Len(text) < Len(body) => body[Len(text) + 1].code = NUL
  BY <1>2, CStringIs DEF body
<1>4. \A k \in 1 .. Len(text) : k \in 1 .. max_body_length + 1
  BY <1>2, <1>3, Sizes
<1>5. Len(text) < max_body_length + 1 => Len(text) + 1 \in 1 .. max_body_length + 1
  BY <1>2, <1>3, Sizes
<1> QED BY <1>2, <1>3, <1>4, <1>5

\* The header that has been read decodes to a length that fits, if to any.
LEMMA HeaderIs ==
    ASSUME NEW got \in Seq(Byte)
    PROVE  /\ Overlay(Cleared, 0, got) \in [1 .. BufferSize -> Byte]
           /\ DecodeHeader(HeaderOf(got)).body_length_ \in 0 .. max_body_length
<1>1. Overlay(Cleared, 0, got) \in [1 .. BufferSize -> Byte]
  <2>1. Cleared \in [1 .. BufferSize -> Byte] /\ BufferSize \in Nat /\ 0 \in Nat
    BY ZeroIsByte, Sizes DEF Cleared
  <2> QED BY <2>1, OverlayIs
<1>2. HeaderOf(got) \in Header
  <2>1. \A k \in 1 .. Len(got) : got[k].code \in 0 .. 127
    BY ByteFields
  <2>2. Len(got) \in Nat
    OBVIOUS
  <2>3. ASSUME NEW k \in 1 .. header_length
        PROVE  (IF k <= Len(got) THEN got[k].code ELSE NUL) \in 0 .. 127
    <3>1. CASE k <= Len(got)
      <4>1. k \in 1 .. Len(got)
        BY <2>2, <3>1, Sizes
      <4> QED BY <2>1, <3>1, <4>1
    <3>2. CASE ~(k <= Len(got))
      BY <3>2 DEF NUL
    <3> QED BY <3>1, <3>2
  <2> QED BY <2>3 DEF HeaderOf, Header
<1>3. DecodeHeader(HeaderOf(got)) \in [ok : BOOLEAN, body_length_ : 0 .. max_body_length]
  BY <1>2, DecodeFits
<1> QED BY <1>1, <1>3

\* The two ways a header is dealt with.
LEMMA ReadHeaderIs ==
    ASSUME TypeOK, EventsInv, NEW e \in events, ReadHeader(e)
    PROVE  \E got \in Reads(files[e.fd], header_length) :
             /\ data_' = Overlay(Cleared, 0, got)
             /\ events' = events \ {e} /\ UNCHANGED <<cli, sent, backlog, pad, posted>>
             /\ \/ /\ body_length_' \in 0 .. max_body_length
                   /\ rcv' = [rcv EXCEPT ![files[e.fd]] = Rest(files[e.fd], Len(got))]
                   /\ spc' = "body" /\ ev' = e /\ UNCHANGED <<net, files>>
                \/ body_length_' = 0 /\ Close(e.fd) /\ UNCHANGED <<spc, ev>>
<1>0. files[e.fd] \in Conns /\ header_length \in Nat
  BY EventIs, Sizes DEF ReadHeader
<1>1. PICK got \in Reads(files[e.fd], header_length) :
         /\ data_' = Overlay(Cleared, 0, got)
         /\ \/ /\ body_length_' = DecodeHeader(HeaderOf(got)).body_length_
               /\ rcv' = [rcv EXCEPT ![files[e.fd]] = Rest(files[e.fd], Len(got))]
               /\ spc' = "body" /\ ev' = e /\ UNCHANGED <<net, files>>
            \/ body_length_' = 0 /\ Close(e.fd) /\ UNCHANGED <<spc, ev>>
  BY DEF ReadHeader
<1>2. got \in Seq(Byte)
  <2>1. PICK c \in Conns : c = files[e.fd]
    BY <1>0
  <2>2. rcv[c] \in Seq(Byte) /\ got \in Reads(c, header_length)
    BY <2>1 DEF TypeOK
  <2> QED BY <1>0, <2>2, ReadIs
<1>3. DecodeHeader(HeaderOf(got)).body_length_ \in 0 .. max_body_length
  BY <1>2, HeaderIs
<1> QED BY <1>1, <1>3 DEF ReadHeader

LEMMA ServerTypes == ASSUME TypeOK, EventsInv, Server PROVE TypeOK'
<1>1. CASE EpollWait
  <2>1. PICK quiet : events' = Ready(quiet)
    BY <1>1 DEF EpollWait
  <2>2. events' \in SUBSET Event
    BY <2>1, ReadyIs DEF TypeOK
  <2> QED BY <1>1, <2>2 DEF EpollWait, clientVars, bufferVars, TypeOK
<1>2. ASSUME NEW e \in events, spc = "loop", Accept(e) PROVE TypeOK'
  <2>1. files' \in [Fds -> Conns \cup {NoConn}] /\ backlog' \in Seq(Conns)
    BY <1>2, AcceptIs DEF TypeOK
  <2>2. events' \in SUBSET Event
    BY <1>2 DEF Accept, TypeOK
  <2> QED BY <1>2, <2>1, <2>2 DEF Accept, clientVars, bufferVars, TypeOK
<1>3. ASSUME NEW e \in events, spc = "loop", ReadHeader(e) PROVE TypeOK'
  <2>1. PICK c \in Conns : c = files[e.fd]
    BY <1>3, EventIs DEF ReadHeader
  <2>2. e.fd \in Fds
    BY <1>3, EventIs DEF ReadHeader
  <2>3. PICK got \in Reads(c, header_length) :
             /\ data_' = Overlay(Cleared, 0, got)
             /\ events' = events \ {e} /\ UNCHANGED <<cli, sent, backlog, pad, posted>>
             /\ \/ /\ body_length_' \in 0 .. max_body_length
                   /\ rcv' = [rcv EXCEPT ![c] = Rest(c, Len(got))]
                   /\ spc' = "body" /\ ev' = e /\ UNCHANGED <<net, files>>
                \/ body_length_' = 0 /\ Close(e.fd) /\ UNCHANGED <<spc, ev>>
    BY <1>3, <2>1, ReadHeaderIs
  <2>4. got \in Seq(Byte) /\ Rest(c, Len(got)) \in Seq(Byte)
    <3>1. rcv[c] \in Seq(Byte) /\ header_length \in Nat
      BY Sizes DEF TypeOK
    <3> QED BY <3>1, ReadIs
  <2>5. data_' \in [1 .. BufferSize -> Byte]
    BY <2>3, <2>4, HeaderIs
  <2>6. events' \in SUBSET Event /\ e \in Event
    BY <2>3 DEF TypeOK
  <2>7. CASE /\ body_length_' \in 0 .. max_body_length
             /\ rcv' = [rcv EXCEPT ![c] = Rest(c, Len(got))]
             /\ spc' = "body" /\ ev' = e /\ UNCHANGED <<net, files>>
    <3>1. rcv' \in [Conns -> Seq(Byte)]
      BY <2>4, <2>7 DEF TypeOK
    <3> QED BY <2>3, <2>5, <2>6, <2>7, <3>1 DEF TypeOK
  <2>8. CASE body_length_' = 0 /\ Close(e.fd) /\ UNCHANGED <<spc, ev>>
    <3>1. /\ files' \in [Fds -> Conns \cup {NoConn}]
          /\ net' \in [Conns -> Seq(Byte)] /\ rcv' \in [Conns -> Seq(Byte)]
      BY <2>1, <2>2, <2>8, CloseIs
    <3>2. body_length_' \in 0 .. max_body_length
      BY <2>8, Sizes
    <3> QED BY <2>3, <2>5, <2>6, <2>8, <3>1, <3>2 DEF TypeOK
  <2> QED BY <2>3, <2>7, <2>8
<1>4. ASSUME NEW e \in events, spc = "loop", CloseOnError(e) PROVE TypeOK'
  <2>1. PICK c \in Conns : c = files[e.fd]
    BY <1>4, EventIs DEF CloseOnError
  <2>2. e.fd \in Fds /\ Close(e.fd)
    BY <1>4, EventIs DEF CloseOnError
  <2>3. /\ files' \in [Fds -> Conns \cup {NoConn}]
        /\ net' \in [Conns -> Seq(Byte)] /\ rcv' \in [Conns -> Seq(Byte)]
    BY <2>1, <2>2, CloseIs
  <2>4. events' \in SUBSET Event
    BY <1>4 DEF CloseOnError, TypeOK
  <2> QED BY <1>4, <2>3, <2>4 DEF CloseOnError, bufferVars, TypeOK
<1>5. CASE ReadBody
  <2>1. PICK c \in Conns : c = files[ev.fd] /\ c = ev.conn
    BY <1>5, BodyIs DEF ReadBody
  <2>2. PICK got \in Reads(c, body_length_ + 1) :
             /\ rcv' = [rcv EXCEPT ![c] = Rest(c, Len(got))]
             /\ \E memory \in {Overlay(Append(data_, pad), header_length, got)} :
                  /\ data_' = SubSeq(memory, 1, BufferSize)
                  /\ pad' = memory[BufferSize + 1]
                  /\ posted' = Append(posted,
                         [fd |-> ev.fd, conn |-> ev.conn,
                          data |-> CString(SubSeq(memory, header_length + 1,
                                                  Len(memory)))])
    BY <1>5, <2>1 DEF ReadBody
  <2>3. got \in Seq(Byte) /\ Rest(c, Len(got)) \in Seq(Byte)
    <3>1. rcv[c] \in Seq(Byte) /\ body_length_ + 1 \in Nat
      BY Sizes DEF TypeOK
    <3> QED BY <3>1, ReadIs
  <2>4. PICK memory : /\ memory = Overlay(Append(data_, pad), header_length, got)
                      /\ data_' = SubSeq(memory, 1, BufferSize)
                      /\ pad' = memory[BufferSize + 1]
                      /\ posted' = Append(posted,
                             [fd |-> ev.fd, conn |-> ev.conn,
                              data |-> CString(SubSeq(memory, header_length + 1,
                                                      Len(memory)))])
    BY <2>2
  <2>5. /\ memory \in Seq(Byte) /\ Len(memory) = BufferSize + 1
        /\ data_' \in [1 .. BufferSize -> Byte] /\ pad' \in Byte
    BY <2>3, <2>4, MemoryIs
  <2>6. PICK text \in Seq(Byte) :
            text = CString(SubSeq(memory, header_length + 1, Len(memory)))
    BY <2>5, TextIs
  <2>7. ev.fd \in Fds /\ [fd |-> ev.fd, conn |-> ev.conn, data |-> text] \in Post
    BY <1>5, <2>1, BodyIs DEF ReadBody, Post
  <2>8. posted' \in Seq(Post)
    <3>1. posted' = Append(posted, [fd |-> ev.fd, conn |-> ev.conn, data |-> text])
      BY <2>4, <2>6
    <3> QED BY <2>7, <3>1, Appended DEF TypeOK
  <2>9. rcv' \in [Conns -> Seq(Byte)]
    BY <2>2, <2>3 DEF TypeOK
  <2>10. ev' \in Event /\ spc' = "loop"
    BY <1>5 DEF ReadBody, NoEvent, Event
  <2> QED BY <1>5, <2>5, <2>8, <2>9, <2>10 DEF ReadBody, clientVars, TypeOK
<1> QED BY <1>1, <1>2, <1>3, <1>4, <1>5 DEF Server

LEMMA TypeStep == ASSUME TypeOK, EventsInv, [Next]_vars PROVE TypeOK'
<1>1. CASE UNCHANGED vars
  BY <1>1 DEF vars, clientVars, bufferVars, TypeOK
<1> QED BY <1>1, ClientTypes, ServerTypes DEF Next

-----------------------------------------------------------------------------
(* Connections and descriptors.                                            *)

\* What becomes of descriptors, of the connections that wait, and of clients.
LEMMA ConnectionCases ==
    ASSUME TypeOK, EventsInv, [Next]_vars
    PROVE  \/ /\ UNCHANGED <<files, backlog>>
              /\ \A c \in Conns : cli[c] # "off" => cli'[c] # "off"
           \/ \E c \in Conns : Connect(c) /\ UNCHANGED files
           \/ \E e \in events : Accept(e) /\ UNCHANGED cli
           \/ \E fd \in Fds : files[fd] \in Conns /\ Close(fd) /\ UNCHANGED <<cli, backlog>>
<1>1. CASE UNCHANGED <<cli, files, backlog>>
  BY <1>1
<1>2. ASSUME NEW c \in Conns, Client(c)
      PROVE  \/ /\ UNCHANGED <<files, backlog>>
                /\ \A d \in Conns : cli[d] # "off" => cli'[d] # "off"
             \/ Connect(c) /\ UNCHANGED files
  <2>1. CASE Connect(c)
    BY <1>2, <2>1 DEF Client
  <2>2. CASE Finish(c)
    BY <1>2, <2>2 DEF Client, Finish, TypeOK
  <2>3. CASE Reset(c)
    BY <1>2, <2>3 DEF Client, Reset, TypeOK
  <2>4. CASE \E n \in BodyLens : SendFrame(c, n)
    BY <1>2, <2>4 DEF Client, SendFrame
  <2> QED BY <1>2, <2>1, <2>2, <2>3, <2>4 DEF Client
<1>3. ASSUME NEW c \in Conns, Network(c) PROVE UNCHANGED <<cli, files, backlog>>
  BY <1>3 DEF Network, Arrive
<1>4. CASE EpollWait
  BY <1>1, <1>4 DEF EpollWait, clientVars
<1>5. ASSUME NEW e \in events, Accept(e) PROVE UNCHANGED cli
  BY <1>5 DEF Accept, clientVars
<1>6. ASSUME NEW e \in events, ReadHeader(e)
      PROVE  \/ UNCHANGED <<cli, files, backlog>>
             \/ \E fd \in Fds : files[fd] \in Conns /\ Close(fd) /\ UNCHANGED <<cli, backlog>>
  <2>1. e.fd \in Fds /\ files[e.fd] \in Conns
    BY <1>6, EventIs DEF ReadHeader
  <2> QED BY <1>6, <2>1 DEF ReadHeader
<1>7. ASSUME NEW e \in events, CloseOnError(e)
      PROVE  \E fd \in Fds : files[fd] \in Conns /\ Close(fd) /\ UNCHANGED <<cli, backlog>>
  <2>1. e.fd \in Fds /\ files[e.fd] \in Conns
    BY <1>7, EventIs DEF CloseOnError
  <2> QED BY <1>7, <2>1 DEF CloseOnError
<1>8. CASE ReadBody
  BY <1>1, <1>8 DEF ReadBody, clientVars
<1>9. CASE UNCHANGED vars
  BY <1>1, <1>9 DEF vars, clientVars
<1> QED BY <1>1, <1>2, <1>3, <1>4, <1>5, <1>6, <1>7, <1>8, <1>9 DEF Next, Server

LEMMA ConnStep == ASSUME TypeOK, EventsInv, ConnInv, [Next]_vars PROVE ConnInv'
<1>0. files \in [Fds -> Conns \cup {NoConn}] /\ backlog \in Seq(Conns) /\ Len(backlog) \in Nat
  BY DEF TypeOK
<1>1. CASE /\ UNCHANGED <<files, backlog>>
           /\ \A c \in Conns : cli[c] # "off" => cli'[c] # "off"
  BY <1>1 DEF ConnInv, Attached
<1>2. ASSUME NEW c \in Conns, Connect(c), UNCHANGED files PROVE ConnInv'
  <2>1. /\ Len(backlog') = Len(backlog) + 1 /\ backlog'[Len(backlog) + 1] = c
        /\ \A k \in 1 .. Len(backlog) : backlog'[k] = backlog[k]
    BY <1>0, <1>2, Appended DEF Connect
  <2>2. /\ \A f \in Fds : files[f] # c
        /\ \A k \in 1 .. Len(backlog) : backlog[k] # c
    BY <1>2 DEF Connect, ConnInv, Attached
  <2>3. ASSUME NEW k \in 1 .. Len(backlog')
        PROVE  \/ k \in 1 .. Len(backlog) /\ backlog'[k] = backlog[k] /\ backlog[k] # c
               \/ k = Len(backlog) + 1 /\ backlog'[k] = c
    BY <1>0, <2>1, <2>2
  <2>4. \A j, k \in 1 .. Len(backlog') : backlog'[j] = backlog'[k] => j = k
    BY <2>3 DEF ConnInv
  <2>5. \A f \in Fds, k \in 1 .. Len(backlog') : files'[f] # backlog'[k]
    BY <1>2, <2>2, <2>3 DEF ConnInv
  <2>6. ASSUME NEW d \in Conns, cli'[d] = "off" PROVE ~Attached(d)'
    <3>1. d # c /\ cli[d] = "off"
      BY <1>2, <2>6 DEF Connect, TypeOK
    <3>2. ~Attached(d)
      BY <3>1 DEF ConnInv
    <3> QED BY <1>2, <2>3, <3>1, <3>2 DEF Attached
  <2> QED BY <1>2, <2>4, <2>5, <2>6 DEF ConnInv
<1>3. ASSUME NEW fd \in Fds, files[fd] = NoConn, backlog # <<>>, backlog[1] \in Conns,
             files'[fd] = backlog[1], \A f \in Fds \ {fd} : files'[f] = files[f],
             Len(backlog) \in Nat \ {0}, Len(backlog') = Len(backlog) - 1,
             \A k \in 1 .. Len(backlog) - 1 : backlog'[k] = backlog[k + 1],
             UNCHANGED cli
      PROVE  ConnInv'
  <2>2. 1 \in 1 .. Len(backlog)
    BY <1>3
  <2>3. ASSUME NEW k \in 1 .. Len(backlog')
        PROVE  k + 1 \in 1 .. Len(backlog) /\ k + 1 # 1 /\ backlog'[k] = backlog[k + 1]
    BY <1>3
  <2>4. \A f, g \in Fds : files'[f] = files'[g] /\ files'[f] # NoConn => f = g
    BY <1>3, <2>2 DEF ConnInv
  <2>5. \A j, k \in 1 .. Len(backlog') : backlog'[j] = backlog'[k] => j = k
    <3> SUFFICES ASSUME NEW j \in 1 .. Len(backlog'), NEW k \in 1 .. Len(backlog'),
                        backlog'[j] = backlog'[k]
                 PROVE  j = k
      OBVIOUS
    <3>1. j + 1 = k + 1
      BY <2>3 DEF ConnInv
    <3> QED BY <1>3, <3>1
  <2>6. ASSUME NEW f \in Fds, NEW k \in 1 .. Len(backlog') PROVE files'[f] # backlog'[k]
    BY <1>3, <2>2, <2>3 DEF ConnInv
  <2>7. ASSUME NEW d \in Conns, cli'[d] = "off" PROVE ~Attached(d)'
    <3>1. ~Attached(d)
      BY <1>3, <2>7 DEF ConnInv
    <3>2. /\ \A f \in Fds : files[f] # d
          /\ \A k \in 1 .. Len(backlog) : backlog[k] # d
      BY <3>1 DEF Attached
    <3>3. \A k \in 1 .. Len(backlog') : backlog'[k] # d
      BY <2>3, <3>2
    <3>4. \A f \in Fds : files'[f] # d
      BY <1>3, <2>2, <3>2
    <3> QED BY <3>3, <3>4 DEF Attached
  <2> QED BY <2>4, <2>5, <2>6, <2>7 DEF ConnInv
<1>4. ASSUME NEW fd \in Fds, files[fd] \in Conns, Close(fd), UNCHANGED <<cli, backlog>>
      PROVE  ConnInv'
  <2>1. files' = [files EXCEPT ![fd] = NoConn]
    BY <1>4 DEF Close
  <2>2. \A k \in 1 .. Len(backlog) : backlog[k] # NoConn
    BY <1>0, NoConnAssumption
  <2>3. \A f \in Fds : files'[f] = NoConn \/ files'[f] = files[f]
    BY <1>0, <2>1
  <2>4. \A f, g \in Fds : files'[f] = files'[g] /\ files'[f] # NoConn => f = g
    BY <2>3 DEF ConnInv
  <2>5. \A f \in Fds, k \in 1 .. Len(backlog) : files'[f] # backlog[k]
    BY <2>2, <2>3 DEF ConnInv
  <2>6. \A c \in Conns : cli[c] = "off" => ~Attached(c)'
    BY <1>4, <2>3, NoConnAssumption DEF ConnInv, Attached
  <2> QED BY <1>4, <2>4, <2>5, <2>6 DEF ConnInv
<1>5. ASSUME NEW e \in events, Accept(e), UNCHANGED cli PROVE ConnInv'
  BY <1>1, <1>3, <1>5, AcceptIs
<1> QED BY <1>1, <1>2, <1>4, <1>5, ConnectionCases

-----------------------------------------------------------------------------
(* Events, and the buffer.                                                 *)

\* The events that remain when the connection of one of them is closed.
LEMMA EventsAfterClose ==
    ASSUME TypeOK, EventsInv, spc = "loop", NEW e \in events, e.fd # Listener,
           Close(e.fd), events' = events \ {e}, UNCHANGED <<backlog, spc, ev>>
    PROVE  EventsInv'
<1>1. e.fd \in Fds
  BY EventIs
<1>2. \A f \in events' : f \in events /\ f.fd # e.fd
  BY DEF EventsInv
<1>3. \A fd \in Fds : fd # e.fd => files'[fd] = files[fd]
  BY <1>1 DEF Close, TypeOK
<1>4. \A f \in events' : f.fd # Listener => f.conn # NoConn /\ files'[f.fd] = f.conn
  BY <1>2, <1>3, EventIs DEF EventsInv, EventsFresh
<1>5. spc' # "body"
  OBVIOUS
<1> QED BY <1>2, <1>4, <1>5 DEF EventsInv, EventsFresh

LEMMA EventsStep == ASSUME TypeOK, EventsInv, ConnInv, [Next]_vars PROVE EventsInv'
<1>1. CASE UNCHANGED <<files, events, spc, ev, backlog>>
  BY <1>1 DEF EventsInv, EventsFresh
<1>2. ASSUME NEW c \in Conns, Client(c) \/ Network(c) PROVE EventsInv'
  <2>1. UNCHANGED <<files, events, spc, ev>>
    BY <1>2 DEF Client, Network
  <2>2. backlog' = backlog \/ backlog' = Append(backlog, c)
    BY <1>2 DEF Client, Network, Connect, SendFrame, Finish, Reset, Arrive
  <2>3. Append(backlog, c) # <<>>
    <3>1. Len(backlog) \in Nat /\ Len(Append(backlog, c)) = Len(backlog) + 1
      BY Appended DEF TypeOK
    <3>2. Len(Append(backlog, c)) # 0 /\ Len(<<>>) = 0
      BY <3>1
    <3> QED BY <3>2, Zenon
  <2> QED BY <2>1, <2>2, <2>3 DEF EventsInv, EventsFresh
<1>3. CASE EpollWait
  <2>1. PICK quiet : events' = Ready(quiet)
    BY <1>3 DEF EpollWait
  <2>2. files \in [Fds -> Conns \cup {NoConn}] /\ UNCHANGED <<files, backlog>> /\ spc' = "loop"
    BY <1>3 DEF EpollWait, TypeOK
  <2> QED BY <2>1, <2>2, ReadyIs DEF EventsInv, EventsFresh
<1>4. ASSUME NEW e \in events, spc = "loop", Accept(e) PROVE EventsInv'
  <2>1. e.fd = Listener /\ events' = events \ {e} /\ UNCHANGED <<spc, ev>>
    BY <1>4 DEF Accept
  <2>2. \A f \in events' : f \in events /\ f.fd # Listener
    BY <2>1 DEF EventsInv
  <2>3. \A fd \in Fds : files[fd] # NoConn => files'[fd] = files[fd]
    BY <1>4, AcceptIs
  <2>4. \A f \in events' : f.conn # NoConn /\ files'[f.fd] = f.conn
    <3> SUFFICES ASSUME NEW f \in events' PROVE f.conn # NoConn /\ files'[f.fd] = f.conn
      OBVIOUS
    <3>1. f.fd \in Fds /\ files[f.fd] = f.conn /\ f.conn # NoConn
      BY <2>2, EventIs DEF EventsInv, EventsFresh
    <3> QED BY <2>3, <3>1
  <2>5. spc' # "body"
    BY <1>4, <2>1
  <2> QED BY <2>2, <2>4, <2>5 DEF EventsInv, EventsFresh
<1>5. ASSUME NEW e \in events, spc = "loop", ReadHeader(e) PROVE EventsInv'
  <2>1. e.fd # Listener /\ events' = events \ {e} /\ UNCHANGED backlog
    BY <1>5 DEF ReadHeader
  <2>2. \/ spc' = "body" /\ ev' = e /\ UNCHANGED files
        \/ Close(e.fd) /\ UNCHANGED <<spc, ev>>
    BY <1>5 DEF ReadHeader
  <2>3. CASE spc' = "body" /\ ev' = e /\ UNCHANGED files
    <3>1. e.conn # NoConn /\ files[e.fd] = e.conn
      BY <2>1 DEF EventsInv, EventsFresh
    <3> QED BY <2>1, <2>3, <3>1 DEF EventsInv, EventsFresh
  <2>4. CASE Close(e.fd) /\ UNCHANGED <<spc, ev>>
    BY <1>5, <2>1, <2>4, EventsAfterClose
  <2> QED BY <2>2, <2>3, <2>4
<1>6. ASSUME NEW e \in events, spc = "loop", CloseOnError(e) PROVE EventsInv'
  BY <1>6, EventsAfterClose DEF CloseOnError
<1>7. CASE ReadBody
  BY <1>7 DEF ReadBody, EventsInv, EventsFresh
<1>8. CASE UNCHANGED vars
  BY <1>1, <1>8 DEF vars
<1> QED BY <1>2, <1>3, <1>4, <1>5, <1>6, <1>7, <1>8 DEF Next, Server

LEMMA BufferStep == ASSUME TypeOK, EventsInv, BufferInv, [Next]_vars PROVE BufferInv'
<1>1. CASE UNCHANGED <<spc, data_>>
  BY <1>1 DEF BufferInv
<1>2. ASSUME NEW e \in events, ReadHeader(e) PROVE BufferInv'
  <2>1. PICK got \in Reads(files[e.fd], header_length) : data_' = Overlay(Cleared, 0, got)
    BY <1>2 DEF ReadHeader
  <2>2. PICK c \in Conns : c = files[e.fd]
    BY <1>2, EventIs DEF ReadHeader
  <2>3. got \in Seq(Byte) /\ Len(got) \in Nat /\ Len(got) <= header_length
    <3>1. rcv[c] \in Seq(Byte) /\ header_length \in Nat /\ got \in Reads(c, header_length)
      BY <2>2, Sizes DEF TypeOK
    <3>2. got \in Seq(Byte) /\ Len(got) <= header_length
      BY <3>1, ReadIs
    <3> QED BY <3>2
  <2>4. Cleared \in [1 .. BufferSize -> Byte] /\ BufferSize \in Nat /\ 0 \in Nat
    BY ZeroIsByte, Sizes DEF Cleared
  <2>5. \A k \in 1 .. BufferSize :
            data_'[k] = IF k - 0 \in 1 .. Len(got) THEN got[k - 0] ELSE Cleared[k]
    BY <2>1, <2>3, <2>4, OverlayIs
  <2>6. ASSUME NEW k \in header_length + 1 .. BufferSize PROVE data_'[k] = Zero
    <3>1. k \in 1 .. BufferSize /\ ~(k - 0 \in 1 .. Len(got))
      BY <2>3, Sizes
    <3> QED BY <2>5, <3>1 DEF Cleared
  <2> QED BY <2>6 DEF BufferInv
<1>3. CASE ReadBody
  BY <1>3 DEF ReadBody, BufferInv
<1>4. ASSUME NEW c \in Conns, Client(c) \/ Network(c) PROVE UNCHANGED <<spc, data_>>
  BY <1>4 DEF Client, Network, bufferVars
<1>5. CASE EpollWait
  BY <1>1, <1>5 DEF EpollWait, bufferVars
<1>6. ASSUME NEW e \in events, Accept(e) \/ CloseOnError(e) PROVE UNCHANGED <<spc, data_>>
  BY <1>6 DEF Accept, CloseOnError, bufferVars
<1>7. CASE UNCHANGED vars
  BY <1>1, <1>7 DEF vars, bufferVars
<1> QED BY <1>1, <1>2, <1>3, <1>4, <1>5, <1>6, <1>7 DEF Next, Server

LEMMA EpollInit == Init => EpollInv
<1> SUFFICES ASSUME Init PROVE EpollInv
  OBVIOUS
<1>1. TypeOK
  BY TypeInit
<1>2. ConnInv
  <2>1. backlog = <<>> /\ \A f \in Fds : files[f] = NoConn
    BY DEF Init
  <2>2. \A k \in 1 .. Len(backlog) : FALSE
    BY <2>1
  <2> QED BY <2>1, <2>2, NoConnAssumption DEF ConnInv, Attached
<1>3. EventsInv /\ BufferInv
  BY DEF Init, EventsInv, EventsFresh, BufferInv
<1> QED BY <1>1, <1>2, <1>3 DEF EpollInv

LEMMA EpollStep == EpollInv /\ [Next]_vars => EpollInv'
BY TypeStep, ConnStep, EventsStep, BufferStep DEF EpollInv

(***************************************************************************)
(* For any number of clients and descriptors: a connection is open as one  *)
(* descriptor or waits once to be accepted; there is at most one event for *)
(* a descriptor; accept() is only called when a connection waits, so the   *)
(* thread does not block in it; and while a body is to be read, read_msg_  *)
(* holds nothing but its header (game.cpp, the loop over the events).      *)
(***************************************************************************)
THEOREM EpollInvariant == Spec => []EpollInv
<1>1. Init => EpollInv
  BY EpollInit
<1>2. EpollInv /\ [Next]_vars => EpollInv'
  BY EpollStep
<1> QED BY <1>1, <1>2, PTL DEF Spec

(***************************************************************************)
(* For any number of clients and descriptors: an event of epoll_wait that  *)
(* is still to be handled names a descriptor that is open for the          *)
(* connection it was reported for, although connections are closed and     *)
(* their descriptors given to others while the events are gone through.    *)
(***************************************************************************)
THEOREM EventsStayFresh == Spec => []EventsFresh
<1>1. EpollInv => EventsFresh
  BY DEF EpollInv, EventsInv
<1> QED BY <1>1, EpollInvariant, PTL

-----------------------------------------------------------------------------
(* Streams.                                                                *)

LEMMA PiecesJoin ==
    ASSUME NEW s \in Seq(Byte), NEW t \in Seq(Byte), NEW c, NEW start \in Nat,
           Piece(s, c, start), Piece(t, c, start + Len(s))
    PROVE  Piece(s \o t, c, start)
<1>1. /\ Len(s) \in Nat /\ Len(t) \in Nat /\ Len(s \o t) = Len(s) + Len(t)
      /\ \A k \in 1 .. Len(s) : (s \o t)[k] = s[k]
      /\ \A k \in 1 .. Len(t) : (s \o t)[Len(s) + k] = t[k]
  BY Joined
<1>2. ASSUME NEW k \in 1 .. Len(s \o t)
      PROVE  (s \o t)[k].conn = c /\ (s \o t)[k].off = start + k
  <2>1. CASE k <= Len(s)
    <3>1. k \in 1 .. Len(s)
      BY <1>1, <2>1
    <3> QED BY <1>1, <3>1 DEF Piece
  <2>2. CASE ~(k <= Len(s))
    <3>1. PICK j \in 1 .. Len(t) : j = k - Len(s)
      <4>1. k \in Nat /\ k <= Len(s) + Len(t)
        BY <1>1
      <4>2. k - Len(s) \in 1 .. Len(t)
        BY <1>1, <2>2, <4>1
      <4> QED BY <4>2
    <3>2. (s \o t)[k] = t[j]
      <4>1. k = Len(s) + j
        BY <1>1, <3>1
      <4> QED BY <1>1, <4>1
    <3>3. t[j].conn = c /\ t[j].off = (start + Len(s)) + j
      BY DEF Piece
    <3>4. (start + Len(s)) + j = start + k
      BY <1>1, <3>1
    <3> QED BY <3>2, <3>3, <3>4
  <2> QED BY <2>1, <2>2
<1> QED BY <1>2 DEF Piece

LEMMA PieceCut ==
    ASSUME NEW s \in Seq(Byte), NEW c, NEW start \in Nat, Piece(s, c, start),
           NEW n \in 0 .. Len(s)
    PROVE  /\ Piece(SubSeq(s, 1, n), c, start)
           /\ Piece(SubSeq(s, n + 1, Len(s)), c, start + n)
<1>0. Len(s) \in Nat /\ n \in Nat /\ n <= Len(s)
  OBVIOUS
<1>1. /\ Len(SubSeq(s, 1, n)) = n
      /\ \A k \in 1 .. n : SubSeq(s, 1, n)[k] = s[k]
      /\ Len(SubSeq(s, n + 1, Len(s))) = Len(s) - n
      /\ \A k \in 1 .. Len(s) - n : SubSeq(s, n + 1, Len(s))[k] = s[n + k]
  BY CutAt
<1>2. \A k \in 1 .. n : k \in 1 .. Len(s)
  BY <1>0
<1>3. \A k \in 1 .. Len(s) - n : n + k \in 1 .. Len(s) /\ start + (n + k) = (start + n) + k
  BY <1>0
<1>4. Piece(SubSeq(s, 1, n), c, start)
  BY <1>1, <1>2 DEF Piece
<1>5. ASSUME NEW k \in 1 .. Len(s) - n
      PROVE  /\ SubSeq(s, n + 1, Len(s))[k].conn = c
             /\ SubSeq(s, n + 1, Len(s))[k].off = (start + n) + k
  <2>1. PICK j \in 1 .. Len(s) : j = n + k
    BY <1>3
  <2>2. s[j].conn = c /\ s[j].off = start + j
    BY DEF Piece
  <2> QED BY <1>1, <1>3, <2>1, <2>2
<1> QED BY <1>1, <1>4, <1>5 DEF Piece

LEMMA NoPiece == ASSUME NEW c, NEW start PROVE Piece(<<>>, c, start)
BY DEF Piece

\* A frame is the next piece of its connection's stream.
LEMMA FrameIsPiece ==
    ASSUME NEW c \in Conns, sent[c] \in Seq(FrameType), NEW n \in BodyLens
    PROVE  Piece(Frame(c, n), c, Written(c))
BY FrameIs DEF Piece

\* What is read, and what is left, of a receive buffer that follows read bytes.
LEMMA ReadPieces ==
    ASSUME NEW c \in Conns, rcv[c] \in Seq(Byte), NEW n \in Nat, NEW got \in Reads(c, n),
           NEW read \in Nat, Piece(rcv[c], c, read)
    PROVE  /\ Piece(got, c, read)
           /\ Piece(Rest(c, Len(got)), c, read + Len(got))
<1>1. /\ Len(got) \in 0 .. Len(rcv[c])
      /\ \A k \in 1 .. Len(got) : got[k] = rcv[c][k]
  BY ReadIs
<1>2. Len(rcv[c]) \in Nat
  OBVIOUS
<1>3. \A k \in 1 .. Len(got) : k \in 1 .. Len(rcv[c])
  BY <1>1, <1>2
<1>4. Piece(got, c, read)
  BY <1>1, <1>3 DEF Piece
<1>5. Piece(Rest(c, Len(got)), c, read + Len(got))
  BY <1>1, PieceCut DEF Rest
<1> QED BY <1>4, <1>5

LEMMA ClientsGoOn ==
    ASSUME TypeOK, [Next]_vars, NEW c \in Conns
    PROVE  /\ cli'[c] = "off" => cli[c] = "off"
           /\ cli'[c] = "up" => cli[c] \in {"off", "up"}
<1>1. CASE UNCHANGED cli
  BY <1>1
<1>2. ASSUME NEW d \in Conns, Client(d)
      PROVE  /\ cli'[c] = "off" => cli[c] = "off"
             /\ cli'[c] = "up" => cli[c] \in {"off", "up"}
  <2>1. CASE Connect(d)
    BY <2>1 DEF Connect, TypeOK
  <2>2. CASE Finish(d)
    BY <2>2 DEF Finish, TypeOK
  <2>3. CASE Reset(d)
    BY <2>3 DEF Reset, TypeOK
  <2>4. CASE \E n \in BodyLens : SendFrame(d, n)
    BY <2>4, <1>1 DEF SendFrame
  <2> QED BY <1>2, <2>1, <2>2, <2>3, <2>4 DEF Client
<1>3. ASSUME NEW d \in Conns, Network(d) PROVE UNCHANGED cli
  BY <1>3 DEF Network, Arrive
<1>4. CASE Server
  BY <1>1, <1>4 DEF Server, EpollWait, Accept, ReadHeader, CloseOnError, ReadBody,
     clientVars
<1>5. CASE UNCHANGED vars
  BY <1>1, <1>5 DEF vars, clientVars
<1> QED BY <1>1, <1>2, <1>3, <1>4, <1>5 DEF Next

\* A client that can add to its stream could do so before.
LEMMA AddingBefore ==
    ASSUME TypeOK, EventsInv, [Next]_vars, NEW c \in Conns, Adding(c)'
    PROVE  Adding(c)
<1>1. CASE cli[c] = "off"
  BY <1>1 DEF Adding
<1>2. CASE cli[c] # "off"
  <2>1. cli[c] = "up" /\ cli'[c] = "up" /\ Attached(c)'
    BY <1>2, ClientsGoOn DEF Adding
  <2>2. CASE UNCHANGED <<files, backlog>>
    BY <2>1, <2>2 DEF Attached, Adding
  <2>3. ASSUME NEW d \in Conns, Connect(d), UNCHANGED files PROVE Adding(c)
    <3>1. d # c
      BY <2>1, <2>3 DEF Connect
    <3>2. /\ backlog \in Seq(Conns) /\ Len(backlog) \in Nat
          /\ Len(backlog') = Len(backlog) + 1 /\ backlog'[Len(backlog) + 1] = d
          /\ \A k \in 1 .. Len(backlog) : backlog'[k] = backlog[k]
      BY <2>3, Appended DEF Connect, TypeOK
    <3>3. \A k \in 1 .. Len(backlog') : backlog'[k] = c => k \in 1 .. Len(backlog)
      BY <3>1, <3>2
    <3> QED BY <2>1, <2>3, <3>2, <3>3 DEF Attached, Adding
  <2>4. ASSUME NEW e \in events, Accept(e) PROVE Adding(c)
    <3>1. SUFFICES ASSUME NEW fd \in Fds, backlog # <<>>,
                   files'[fd] = backlog[1], \A f \in Fds \ {fd} : files'[f] = files[f],
                   Len(backlog) \in Nat \ {0}, Len(backlog') = Len(backlog) - 1,
                   \A k \in 1 .. Len(backlog) - 1 : backlog'[k] = backlog[k + 1]
            PROVE  Attached(c)
      BY <2>1, <2>2, <2>4, AcceptIs DEF Adding
    <3>2. 1 \in 1 .. Len(backlog)
      BY <3>1
    <3>3. \A k \in 1 .. Len(backlog') :
              k + 1 \in 1 .. Len(backlog) /\ backlog'[k] = backlog[k + 1]
      BY <3>1
    <3> QED BY <2>1, <3>1, <3>2, <3>3 DEF Attached
  <2>5. ASSUME NEW fd \in Fds, files[fd] \in Conns, Close(fd), UNCHANGED <<cli, backlog>>
        PROVE  Adding(c)
    <3>1. \A f \in Fds : files'[f] = NoConn \/ files'[f] = files[f]
      BY <2>5 DEF Close, TypeOK
    <3> QED BY <2>1, <2>5, <3>1, NoConnAssumption DEF Attached, Adding
  <2> QED BY <2>2, <2>3, <2>4, <2>5, ConnectionCases
<1> QED BY <1>1, <1>2

LEMMA WrittenKept == ASSUME NEW c \in Conns, sent'[c] = sent[c] PROVE Written(c)' = Written(c)
BY DEF Written

\* There is room in read_msg_ behind the body that is to be read, for one byte
\* more and for the NUL behind it.
Roomy == body_length_ + 1 < max_body_length

\* What ReadBody reads of the stream and what it posts.
LEMMA ReadBodyIs ==
    ASSUME EpollInv, Roomy, ReadBody, NEW c \in Conns, c = ev.conn,
           NEW read \in Nat, Piece(rcv[c], c, read)
    PROVE  \E got \in Seq(Byte), text \in Seq(Byte) :
               /\ Len(got) \in 0 .. Len(rcv[c])
               /\ rcv' = [rcv EXCEPT ![c] = Rest(c, Len(got))]
               /\ Len(Rest(c, Len(got))) = Len(rcv[c]) - Len(got)
               /\ Piece(Rest(c, Len(got)), c, read + Len(got))
               /\ posted' = Append(posted, [fd |-> ev.fd, conn |-> c, data |-> text])
               /\ [fd |-> ev.fd, conn |-> c, data |-> text] \in Post
               /\ Len(text) \in 0 .. Len(got) /\ Piece(text, c, read)
<1>0. TypeOK /\ EventsInv /\ BufferInv /\ spc = "body"
  BY DEF EpollInv, ReadBody
<1>1. c = files[ev.fd] /\ ev.fd \in Fds
  BY <1>0, BodyIs
<1>2. PICK got \in Reads(c, body_length_ + 1) :
           /\ rcv' = [rcv EXCEPT ![c] = Rest(c, Len(got))]
           /\ \E memory \in {Overlay(Append(data_, pad), header_length, got)} :
                posted' = Append(posted,
                       [fd |-> ev.fd, conn |-> ev.conn,
                        data |-> CString(SubSeq(memory, header_length + 1, Len(memory)))])
  BY <1>1 DEF ReadBody
<1>3. rcv[c] \in Seq(Byte) /\ body_length_ \in Nat /\ body_length_ + 1 \in Nat
  BY <1>0, Sizes DEF TypeOK
<1>4. /\ got \in Seq(Byte) /\ Len(got) \in 0 .. Len(rcv[c]) /\ Len(got) <= body_length_ + 1
      /\ Len(Rest(c, Len(got))) = Len(rcv[c]) - Len(got)
  BY <1>3, ReadIs
<1>5. Piece(got, c, read) /\ Piece(Rest(c, Len(got)), c, read + Len(got))
  BY <1>3, ReadPieces
<1>6. PICK memory : /\ memory = Overlay(Append(data_, pad), header_length, got)
                    /\ posted' = Append(posted,
                           [fd |-> ev.fd, conn |-> ev.conn,
                            data |-> CString(SubSeq(memory, header_length + 1, Len(memory)))])
  BY <1>2
<1>7. /\ memory \in Seq(Byte) /\ Len(memory) = BufferSize + 1
      /\ \A k \in 1 .. max_body_length + 1 :
             memory[header_length + k] =
                 IF k <= Len(got) THEN got[k]
                 ELSE IF k = max_body_length + 1 THEN pad ELSE data_[header_length + k]
  BY <1>0, <1>4, <1>6, MemoryIs
<1>8. PICK text \in Seq(Byte) :
          /\ text = CString(SubSeq(memory, header_length + 1, Len(memory)))
          /\ Len(text) \in 0 .. max_body_length + 1
          /\ \A k \in 1 .. Len(text) : /\ text[k] = memory[header_length + k]
                                       /\ memory[header_length + k].code # NUL
  BY <1>7, TextIs
<1>9. Len(got) \in Nat /\ Len(text) \in Nat /\ Len(got) + 1 \in 1 .. max_body_length
  BY <1>3, <1>4, <1>8, Sizes DEF Roomy
<1>10. memory[header_length + (Len(got) + 1)].code = NUL
  <2>1. PICK k \in 1 .. max_body_length : k = Len(got) + 1
    BY <1>9
  <2>2. /\ k \in 1 .. max_body_length + 1 /\ ~(k <= Len(got)) /\ k # max_body_length + 1
        /\ header_length + k \in header_length + 1 .. BufferSize
    BY <1>9, <2>1, Sizes
  <2>3. memory[header_length + k] = data_[header_length + k]
    BY <1>7, <2>2
  <2>4. memory[header_length + k] = Zero
    BY <1>0, <2>2, <2>3 DEF BufferInv
  <2> QED BY <2>1, <2>4, ZeroIsByte DEF NUL
<1>11. Len(text) \in 0 .. Len(got)
  <2>1. ~(Len(got) + 1 \in 1 .. Len(text))
    BY <1>8, <1>10
  <2> QED BY <1>9, <2>1
<1>12. Piece(text, c, read)
  <2>1. ASSUME NEW k \in 1 .. Len(text) PROVE text[k] = got[k] /\ k \in 1 .. Len(got)
    <3>1. k \in 1 .. max_body_length + 1 /\ k <= Len(got) /\ k \in 1 .. Len(got)
      BY <1>9, <1>11, Sizes
    <3> QED BY <1>7, <1>8, <3>1
  <2> QED BY <1>5, <2>1 DEF Piece
<1>13. [fd |-> ev.fd, conn |-> c, data |-> text] \in Post
  BY <1>1 DEF Post
<1>14. posted' = Append(posted, [fd |-> ev.fd, conn |-> c, data |-> text])
  BY <1>6, <1>8
<1> QED BY <1>2, <1>4, <1>5, <1>11, <1>12, <1>13, <1>14

\* Nothing happens to the stream of c.
LEMMA StreamKept ==
    ASSUME NEW c \in Conns, NEW read, StreamFrom(c, read), Adding(c)' => Adding(c),
           rcv'[c] = rcv[c], net'[c] = net[c], sent'[c] = sent[c], posted' = posted
    PROVE  StreamFrom(c, read)'
<1>1. Written(c)' = Written(c)
  BY WrittenKept
<1>2. /\ Piece(rcv[c], c, read)' /\ Piece(net[c], c, read + Len(rcv[c]))'
  BY DEF StreamFrom, Piece
<1>3. Adding(c)' => (read + Len(rcv[c]) + Len(net[c]) = Written(c))'
  BY <1>1 DEF StreamFrom, Adding
<1>4. (read + Len(rcv[c]) + Len(net[c]) <= Written(c))'
  BY <1>1 DEF StreamFrom
<1>5. \A n \in 1 .. Len(posted') : posted'[n].conn = c =>
           \A k \in 1 .. Len(posted'[n].data) : posted'[n].data[k].off <= read
  BY DEF StreamFrom
<1> QED BY <1>2, <1>3, <1>4, <1>5 DEF StreamFrom, Adding

\* The numbers that StreamFrom is about.
LEMMA StreamNumbers ==
    ASSUME TypeOK, NEW c \in Conns
    PROVE  /\ rcv[c] \in Seq(Byte) /\ net[c] \in Seq(Byte) /\ sent[c] \in Seq(FrameType)
           /\ Len(rcv[c]) \in Nat /\ Len(net[c]) \in Nat /\ Written(c) \in Nat
<1>1. rcv[c] \in Seq(Byte) /\ net[c] \in Seq(Byte) /\ sent[c] \in Seq(FrameType)
  BY DEF TypeOK
<1> QED BY <1>1, WrittenIs

\* c sends a frame.
LEMMA SendStream ==
    ASSUME TypeOK, NEW c \in Conns, NEW n \in BodyLens, SendFrame(c, n), posted' = posted,
           NEW read \in 0 .. Written(c), StreamFrom(c, read)
    PROVE  read \in 0 .. Written(c)' /\ StreamFrom(c, read)'
<1>0. /\ rcv[c] \in Seq(Byte) /\ net[c] \in Seq(Byte) /\ sent[c] \in Seq(FrameType)
      /\ Len(rcv[c]) \in Nat /\ Len(net[c]) \in Nat /\ Written(c) \in Nat
  BY StreamNumbers
<1>1. read + Len(rcv[c]) + Len(net[c]) = Written(c)
  BY DEF StreamFrom, SendFrame, Adding
<1>2. /\ Frame(c, n) \in Seq(Byte) /\ Len(Frame(c, n)) = header_length + n
      /\ Piece(Frame(c, n), c, Written(c)) /\ n \in Nat
  BY <1>0, FrameIs, FrameIsPiece, LensAre
<1>3. rcv'[c] = rcv[c] /\ net'[c] = net[c] \o Frame(c, n)
  BY DEF SendFrame, TypeOK
<1>4. Written(c)' = Written(c) + header_length + n
  <2>1. PICK frame \in FrameType : frame = [start |-> Written(c), len |-> n]
    BY <1>0 DEF FrameType
  <2>2. sent'[c] = Append(sent[c], frame)
    BY <2>1 DEF SendFrame, TypeOK
  <2>3. /\ Len(sent'[c]) = Len(sent[c]) + 1 /\ Len(sent[c]) \in Nat
        /\ sent'[c][Len(sent'[c])] = frame
    BY <1>0, <2>2, Appended
  <2>4. sent'[c] # <<>>
    <3>1. Len(sent'[c]) # 0 /\ Len(<<>>) = 0
      BY <2>3
    <3> QED BY <3>1, Zenon
  <2>5. Written(c)' = frame.start + header_length + frame.len
    BY <2>3, <2>4 DEF Written
  <2> QED BY <2>1, <2>5
<1>5. Len(net'[c]) = Len(net[c]) + (header_length + n)
  <2>1. Len(net[c] \o Frame(c, n)) = Len(net[c]) + Len(Frame(c, n))
    <3>1. \A s, t \in Seq(Byte) : Len(s \o t) = Len(s) + Len(t)
      BY Joined, ZenonT(20)
    <3> QED BY <1>0, <1>2, <3>1
  <2> QED BY <1>2, <1>3, <2>1
<1>6. Piece(net'[c], c, read + Len(rcv'[c]))
  <2>1. PICK start \in Nat : start = read + Len(rcv[c])
    BY <1>0
  <2>2. Written(c) = start + Len(net[c])
    BY <1>1, <2>1
  <2>3. Piece(net[c], c, start) /\ Piece(Frame(c, n), c, start + Len(net[c]))
    BY <1>2, <2>1, <2>2 DEF StreamFrom
  <2> QED BY <1>0, <1>2, <1>3, <2>1, <2>3, PiecesJoin
<1>7. /\ read + Len(rcv'[c]) + Len(net'[c]) = Written(c)'
      /\ read + Len(rcv'[c]) + Len(net'[c]) <= Written(c)' /\ read \in 0 .. Written(c)'
  <2>0. read \in Nat
    BY <1>0
  <2>1. PICK r \in Nat, a \in Nat, b \in Nat, w \in Nat :
            r = read /\ a = Len(rcv[c]) /\ b = Len(net[c]) /\ w = Written(c)
    BY <1>0, <2>0, Zenon
  <2>2. r + a + b = w
    BY <1>1, <2>1
  <2>3. /\ r + a + (b + (header_length + n)) = w + header_length + n
        /\ r \in 0 .. w + header_length + n
    BY <1>2, <2>2, Sizes
  <2>4. w + header_length + n <= w + header_length + n
    BY <1>2, Sizes
  <2> QED BY <1>3, <1>4, <1>5, <2>1, <2>3, <2>4
<1>8. Piece(rcv'[c], c, read)
  BY <1>3 DEF StreamFrom
<1>9. \A m \in 1 .. Len(posted') : posted'[m].conn = c =>
           \A k \in 1 .. Len(posted'[m].data) : posted'[m].data[k].off <= read
  BY DEF StreamFrom
<1> QED BY <1>6, <1>7, <1>8, <1>9 DEF StreamFrom, Piece

\* Bytes of c arrive.
LEMMA ArriveStream ==
    ASSUME TypeOK, NEW c \in Conns, Arrive(c), posted' = posted, Adding(c)' => Adding(c),
           NEW read \in 0 .. Written(c), StreamFrom(c, read)
    PROVE  read \in 0 .. Written(c)' /\ StreamFrom(c, read)'
<1>0. /\ rcv[c] \in Seq(Byte) /\ net[c] \in Seq(Byte) /\ sent[c] \in Seq(FrameType)
      /\ Len(rcv[c]) \in Nat /\ Len(net[c]) \in Nat /\ Written(c) \in Nat
  BY StreamNumbers
<1>1. Written(c)' = Written(c)
  BY WrittenKept DEF Arrive
<1>2. PICK n \in 0 .. Len(net[c]) :
          /\ rcv'[c] = rcv[c] \o SubSeq(net[c], 1, n)
          /\ net'[c] = SubSeq(net[c], n + 1, Len(net[c]))
  <2>1. PICK n \in {Len(net[c])} \cup {m \in Pieces : m < Len(net[c])} :
            /\ rcv' = [rcv EXCEPT ![c] = @ \o SubSeq(net[c], 1, n)]
            /\ net' = [net EXCEPT ![c] = SubSeq(@, n + 1, Len(@))]
    BY DEF Arrive
  <2>2. n = Len(net[c]) \/ (n \in Nat /\ n < Len(net[c]))
    BY PiecesAssumption
  <2>3. n \in 0 .. Len(net[c])
    BY <1>0, <2>2
  <2> QED BY <2>1, <2>3 DEF TypeOK
<1>3. PICK start \in Nat : start = read + Len(rcv[c])
  BY <1>0
<1>4. Piece(rcv[c], c, read) /\ Piece(net[c], c, start)
  BY <1>3 DEF StreamFrom
<1>5. /\ SubSeq(net[c], 1, n) \in Seq(Byte) /\ Len(SubSeq(net[c], 1, n)) = n
      /\ Len(net'[c]) = Len(net[c]) - n
      /\ Piece(SubSeq(net[c], 1, n), c, start) /\ Piece(net'[c], c, start + n)
  <2>1. /\ SubSeq(net[c], 1, n) \in Seq(Byte) /\ Len(SubSeq(net[c], 1, n)) = n
        /\ Len(SubSeq(net[c], n + 1, Len(net[c]))) = Len(net[c]) - n
    BY <1>0, CutAt
  <2>2. /\ Piece(SubSeq(net[c], 1, n), c, start)
        /\ Piece(SubSeq(net[c], n + 1, Len(net[c])), c, start + n)
    BY <1>0, <1>4, PieceCut
  <2> QED BY <1>2, <2>1, <2>2
<1>6. Len(rcv'[c]) = Len(rcv[c]) + n /\ Piece(rcv'[c], c, read)
  <2>1. PICK piece \in Seq(Byte) : piece = SubSeq(net[c], 1, n)
    BY <1>5
  <2>2. Len(piece) = n /\ Piece(piece, c, read + Len(rcv[c])) /\ rcv'[c] = rcv[c] \o piece
    BY <1>2, <1>3, <1>5, <2>1
  <2>3. Len(rcv[c] \o piece) = Len(rcv[c]) + Len(piece)
    BY <1>0, Joined
  <2>4. Piece(rcv[c] \o piece, c, read)
    BY <1>0, <1>4, <2>2, PiecesJoin
  <2> QED BY <2>2, <2>3, <2>4
<1>7. start + n = read + Len(rcv'[c])
  BY <1>0, <1>3, <1>6
<1>8. read + Len(rcv'[c]) + Len(net'[c]) = read + Len(rcv[c]) + Len(net[c])
  <2>0. read \in Nat /\ n \in Nat
    BY <1>0
  <2>1. PICK r \in Nat, a \in Nat, b \in Nat, m \in Nat :
            r = read /\ a = Len(rcv[c]) /\ b = Len(net[c]) /\ m = n
    BY <1>0, <2>0, Zenon
  <2>2. r + (a + m) + (b - m) = r + a + b
    OBVIOUS
  <2> QED BY <1>5, <1>6, <2>1, <2>2
<1>9. Piece(net'[c], c, read + Len(rcv'[c]))
  BY <1>5, <1>7
<1>10. \A m \in 1 .. Len(posted') : posted'[m].conn = c =>
           \A k \in 1 .. Len(posted'[m].data) : posted'[m].data[k].off <= read
  BY DEF StreamFrom
<1>11. /\ Adding(c)' => read + Len(rcv'[c]) + Len(net'[c]) = Written(c)'
       /\ read + Len(rcv'[c]) + Len(net'[c]) <= Written(c)'
  BY <1>1, <1>8 DEF StreamFrom, Adding
<1> QED BY <1>1, <1>6, <1>9, <1>10, <1>11 DEF StreamFrom, Adding, Piece

\* What is on its way for c is lost, or all that it has not read.
LEMMA LostStream ==
    ASSUME TypeOK, NEW c \in Conns, ~Adding(c)', posted' = posted, sent' = sent,
           net'[c] = <<>>, rcv'[c] \in {<<>>, rcv[c]},
           NEW read \in 0 .. Written(c), StreamFrom(c, read)
    PROVE  read \in 0 .. Written(c)' /\ StreamFrom(c, read)'
<1>0. Len(rcv[c]) \in Nat /\ Len(net[c]) \in Nat /\ Written(c) \in Nat
  BY StreamNumbers
<1>1. Written(c)' = Written(c)
  BY WrittenKept
<1>2. Piece(rcv'[c], c, read) /\ Piece(net'[c], c, read + Len(rcv'[c]))
  BY NoPiece DEF StreamFrom
<1>3. Len(net'[c]) = 0 /\ (Len(rcv'[c]) = 0 \/ Len(rcv'[c]) = Len(rcv[c]))
  OBVIOUS
<1>4. read + Len(rcv[c]) + Len(net[c]) <= Written(c)
  BY DEF StreamFrom
<1>5. read + Len(rcv'[c]) + Len(net'[c]) <= Written(c)'
  BY <1>0, <1>1, <1>3, <1>4
<1>6. \A m \in 1 .. Len(posted') : posted'[m].conn = c =>
           \A k \in 1 .. Len(posted'[m].data) : posted'[m].data[k].off <= read
  BY DEF StreamFrom
<1> QED BY <1>1, <1>2, <1>5, <1>6 DEF StreamFrom, Adding, Piece

LEMMA TakeSome ==
    ASSUME NEW r \in Nat, NEW a \in Nat, NEW b \in Nat, NEW w \in Nat, r + a + b <= w,
           NEW m \in 0 .. a
    PROVE  r + m \in 0 .. w /\ (r + m) + (a - m) = r + a
OBVIOUS

\* How far the stream of c is read when n more bytes have been taken.
LEMMA TakenNumbers ==
    ASSUME TypeOK, NEW c \in Conns, NEW read \in 0 .. Written(c), StreamFrom(c, read),
           NEW n \in 0 .. Len(rcv[c])
    PROVE  read + n \in 0 .. Written(c) /\ (read + n) + (Len(rcv[c]) - n) = read + Len(rcv[c])
<1>1. Len(rcv[c]) \in Nat /\ Len(net[c]) \in Nat /\ Written(c) \in Nat
  BY StreamNumbers
<1>2. read + Len(rcv[c]) + Len(net[c]) <= Written(c)
  BY DEF StreamFrom
<1>3. PICK a \in Nat, b \in Nat, w \in Nat :
          a = Len(rcv[c]) /\ b = Len(net[c]) /\ w = Written(c)
  BY <1>1
<1>4. read \in 0 .. w /\ n \in 0 .. a
  BY <1>3
<1>5. read + a + b <= w
  BY <1>2, <1>3
<1>6. read + n \in 0 .. w /\ (read + n) + (a - n) = read + a
  BY <1>4, <1>5, TakeSome
<1> QED BY <1>3, <1>6

\* The server reads n bytes of c; none of what is posted lies behind them.
LEMMA TakenStream ==
    ASSUME TypeOK, NEW c \in Conns, Adding(c)' => Adding(c), sent' = sent,
           net'[c] = net[c], NEW read \in 0 .. Written(c), StreamFrom(c, read),
           NEW n \in 0 .. Len(rcv[c]), Piece(rcv'[c], c, read + n),
           Len(rcv'[c]) = Len(rcv[c]) - n,
           \A m \in 1 .. Len(posted') : posted'[m].conn = c =>
               \A k \in 1 .. Len(posted'[m].data) : posted'[m].data[k].off <= read + n
    PROVE  read + n \in 0 .. Written(c)' /\ StreamFrom(c, read + n)'
<1>0. Len(rcv[c]) \in Nat /\ Len(net[c]) \in Nat /\ Written(c) \in Nat
  BY StreamNumbers
<1>1. Written(c)' = Written(c)
  BY WrittenKept
<1>3. read + n \in 0 .. Written(c) /\ (read + n) + (Len(rcv[c]) - n) = read + Len(rcv[c])
  BY TakenNumbers, Zenon
<1>4. (read + n) + Len(rcv'[c]) = read + Len(rcv[c])
  BY <1>3
<1>5. Piece(net'[c], c, (read + n) + Len(rcv'[c]))
  BY <1>4 DEF StreamFrom
<1>6. (read + n) + Len(rcv'[c]) + Len(net'[c]) = read + Len(rcv[c]) + Len(net[c])
  BY <1>0, <1>4
<1>7. /\ Adding(c)' => (read + n) + Len(rcv'[c]) + Len(net'[c]) = Written(c)'
      /\ (read + n) + Len(rcv'[c]) + Len(net'[c]) <= Written(c)'
  BY <1>1, <1>6 DEF StreamFrom, Adding
<1> QED BY <1>1, <1>3, <1>5, <1>7 DEF StreamFrom, Adding, Piece

\* The server closes the connection that it has as a descriptor.
LEMMA ClosedIsOver ==
    ASSUME EpollInv, NEW fd \in Fds, NEW c \in Conns, files[fd] = c, Close(fd),
           UNCHANGED <<cli, backlog>>
    PROVE  ~Adding(c)'
<1>1. TypeOK /\ ConnInv
  BY DEF EpollInv
<1>2. cli[c] # "off"
  BY <1>1 DEF ConnInv, Attached
<1>3. \A f \in Fds : files'[f] # c
  <2>1. files'[fd] = NoConn /\ \A f \in Fds \ {fd} : files'[f] = files[f]
    BY <1>1 DEF Close, TypeOK
  <2>2. \A f \in Fds \ {fd} : files[f] # c
    BY <1>1, NoConnAssumption DEF ConnInv
  <2> QED BY <2>1, <2>2, NoConnAssumption
<1>4. \A k \in 1 .. Len(backlog') : backlog'[k] # c
  BY <1>1 DEF ConnInv
<1> QED BY <1>2, <1>3, <1>4 DEF Adding, Attached

LEMMA CloseStream ==
    ASSUME EpollInv, NEW fd \in Fds, NEW d \in Conns, files[fd] = d, Close(fd),
           UNCHANGED <<cli, sent, backlog, posted>>, NEW c \in Conns,
           Adding(c)' => Adding(c),
           NEW read \in 0 .. Written(c), StreamFrom(c, read)
    PROVE  read \in 0 .. Written(c)' /\ StreamFrom(c, read)'
<1>1. TypeOK
  BY DEF EpollInv
<1>2. CASE c = d
  <2>1. net'[c] = <<>> /\ rcv'[c] = <<>>
    BY <1>1, <1>2, CloseIs
  <2>2. ~Adding(c)'
    BY <1>2, ClosedIsOver
  <2> QED BY <1>1, <2>1, <2>2, LostStream
<1>3. CASE c # d
  <2>1. net'[c] = net[c] /\ rcv'[c] = rcv[c]
    BY <1>1, <1>3, CloseIs
  <2> QED BY <2>1, StreamKept, WrittenKept
<1> QED BY <1>2, <1>3

LEMMA HeaderStream ==
    ASSUME EpollInv, NEW e \in events, ReadHeader(e), NEW c \in Conns,
           Adding(c)' => Adding(c), NEW read \in 0 .. Written(c), StreamFrom(c, read)
    PROVE  \E r \in 0 .. Written(c)' : StreamFrom(c, r)'
<1>1. TypeOK /\ EventsInv
  BY DEF EpollInv
<1>2. PICK d \in Conns : d = files[e.fd] /\ e.fd \in Fds
  BY <1>1, EventIs DEF ReadHeader
<1>3. PICK got \in Reads(d, header_length) :
             /\ UNCHANGED <<cli, sent, backlog, posted>>
             /\ \/ /\ rcv' = [rcv EXCEPT ![d] = Rest(d, Len(got))] /\ UNCHANGED net
                \/ Close(e.fd)
  BY <1>1, <1>2, ReadHeaderIs
<1>4. CASE Close(e.fd)
  BY <1>2, <1>3, <1>4, CloseStream
<1>5. CASE rcv' = [rcv EXCEPT ![d] = Rest(d, Len(got))] /\ UNCHANGED net
  <2>1. CASE c = d
    <3>0. rcv[c] \in Seq(Byte) /\ header_length \in Nat /\ read \in Nat /\ Written(c) \in Nat
      BY <1>1, StreamNumbers, Sizes
    <3>1. Len(got) \in 0 .. Len(rcv[c]) /\ Len(Rest(c, Len(got))) = Len(rcv[c]) - Len(got)
      BY <2>1, <3>0, ReadIs
    <3>2. Piece(Rest(c, Len(got)), c, read + Len(got))
      BY <2>1, <3>0, ReadPieces DEF StreamFrom
    <3>3. rcv'[c] = Rest(c, Len(got))
      BY <1>1, <1>5, <2>1 DEF TypeOK
    <3>4. PICK n \in 0 .. Len(rcv[c]) : n = Len(got)
      BY <3>1
    <3>5. Piece(rcv'[c], c, read + n) /\ Len(rcv'[c]) = Len(rcv[c]) - n
      BY <3>1, <3>2, <3>3, <3>4
    <3>6. ASSUME NEW m \in 1 .. Len(posted'), posted'[m].conn = c,
                 NEW k \in 1 .. Len(posted'[m].data)
          PROVE  posted'[m].data[k].off <= read + n
      <4>1. posted'[m].data[k].off <= read
        BY <1>3, <3>6 DEF StreamFrom
      <4>2. posted'[m].data[k].off \in Nat
        <5>1. posted[m] \in Post
          BY <1>1, <1>3 DEF TypeOK
        <5>2. posted[m].data \in Seq(Byte)
          BY <5>1 DEF Post
        <5>3. posted[m].data[k] \in Byte
          BY <1>3, <5>2
        <5> QED BY <1>3, <5>3, ByteFields
      <4>3. n \in Nat
        BY <3>0
      <4> QED BY <3>0, <4>1, <4>2, <4>3
    <3>7. read + n \in 0 .. Written(c)' /\ StreamFrom(c, read + n)'
      BY <1>1, <1>3, <1>5, <3>5, <3>6, TakenStream
    <3> QED BY <3>7
  <2>2. CASE c # d
    <3>1. rcv'[c] = rcv[c] /\ net'[c] = net[c]
      BY <1>1, <1>5, <2>2 DEF TypeOK
    <3> QED BY <1>3, <3>1, StreamKept, WrittenKept
  <2> QED BY <2>1, <2>2
<1> QED BY <1>3, <1>4, <1>5

\* Offsets of what has been posted are numbers.
LEMMA PostedOffsets ==
    ASSUME TypeOK, NEW m \in 1 .. Len(posted), NEW k \in 1 .. Len(posted[m].data)
    PROVE  posted[m].data[k].off \in Nat
<1>1. posted[m] \in Post
  BY DEF TypeOK
<1>2. posted[m].data \in Seq(Byte)
  BY <1>1 DEF Post
<1>3. posted[m].data[k] \in Byte
  BY <1>2
<1> QED BY <1>3, ByteFields

LEMMA BodyStream ==
    ASSUME EpollInv, Roomy, ReadBody, StreamInv, NEW c \in Conns,
           Adding(c)' => Adding(c), NEW read \in 0 .. Written(c), StreamFrom(c, read)
    PROVE  \E r \in 0 .. Written(c)' : StreamFrom(c, r)'
<1>1. TypeOK /\ EventsInv /\ UNCHANGED <<cli, sent, net>>
  BY DEF EpollInv, ReadBody, clientVars
<1>2. PICK d \in Conns : d = ev.conn
  BY <1>1, BodyIs DEF ReadBody
<1>3. \A x \in Conns : Written(x) \in Nat
  BY <1>1, StreamNumbers
<1>4. PICK last \in Nat : StreamFrom(d, last) /\ (c = d => last = read)
  <2>1. \A n \in 0 .. Written(d) : n \in Nat
    BY <1>3
  <2>2. read \in Nat
    BY <1>3
  <2> QED BY <2>1, <2>2 DEF StreamInv
<1>5. PICK got \in Seq(Byte), text \in Seq(Byte) :
               /\ Len(got) \in 0 .. Len(rcv[d])
               /\ rcv' = [rcv EXCEPT ![d] = Rest(d, Len(got))]
               /\ Len(Rest(d, Len(got))) = Len(rcv[d]) - Len(got)
               /\ Piece(Rest(d, Len(got)), d, last + Len(got))
               /\ posted' = Append(posted, [fd |-> ev.fd, conn |-> d, data |-> text])
               /\ [fd |-> ev.fd, conn |-> d, data |-> text] \in Post
               /\ Len(text) \in 0 .. Len(got) /\ Piece(text, d, last)
  <2>1. Piece(rcv[d], d, last)
    BY <1>4 DEF StreamFrom
  <2> QED BY <1>2, <2>1, ReadBodyIs
<1>6. PICK item \in Post : item = [fd |-> ev.fd, conn |-> d, data |-> text]
  BY <1>5
<1>7. /\ posted \in Seq(Post) /\ Len(posted) \in Nat /\ Len(posted') = Len(posted) + 1
      /\ \A m \in 1 .. Len(posted) : posted'[m] = posted[m]
      /\ posted'[Len(posted) + 1] = item
  BY <1>1, <1>5, <1>6, Appended DEF TypeOK
<1>8. ASSUME NEW m \in 1 .. Len(posted') PROVE m \in 1 .. Len(posted) \/ m = Len(posted) + 1
  BY <1>7
<1>9. item.conn = d /\ item.data = text
  BY <1>6
<1>10. read \in Nat /\ rcv[c] \in Seq(Byte) /\ Len(rcv[c]) \in Nat
  BY <1>1, <1>3, StreamNumbers
<1>11. CASE c = d
  <2>1. PICK n \in 0 .. Len(rcv[c]) : n = Len(got)
    BY <1>5, <1>11
  <2>2. Piece(rcv'[c], c, read + n) /\ Len(rcv'[c]) = Len(rcv[c]) - n
    BY <1>1, <1>4, <1>5, <1>11, <2>1 DEF TypeOK
  <2>3. ASSUME NEW m \in 1 .. Len(posted'), posted'[m].conn = c,
               NEW k \in 1 .. Len(posted'[m].data)
        PROVE  posted'[m].data[k].off <= read + n
    <3>0. n \in Nat
      BY <1>10
    <3>1. CASE m \in 1 .. Len(posted)
      <4>1. posted[m].data[k].off \in Nat /\ posted[m].data[k].off <= read
        BY <1>1, <1>7, <2>3, <3>1, PostedOffsets DEF StreamFrom
      <4>2. posted[m].data[k].off <= read + n
        BY <1>10, <3>0, <4>1
      <4> QED BY <1>7, <3>1, <4>2
    <3>2. CASE m = Len(posted) + 1
      <4>1. k \in 1 .. Len(text) /\ posted'[m].data[k] = text[k]
        BY <1>7, <1>9, <2>3, <3>2
      <4>2. text[k].off = read + k
        BY <1>4, <1>5, <1>11, <4>1 DEF Piece
      <4>3. k \in Nat /\ k <= n
        BY <1>5, <2>1, <3>0, <4>1
      <4>4. read + k <= read + n
        BY <1>10, <3>0, <4>3
      <4> QED BY <4>1, <4>2, <4>4
    <3> QED BY <1>8, <3>1, <3>2
  <2>4. read + n \in 0 .. Written(c)' /\ StreamFrom(c, read + n)'
    BY <1>1, <2>2, <2>3, TakenStream
  <2> QED BY <2>4
<1>12. CASE c # d
  <2>1. rcv'[c] = rcv[c] /\ net'[c] = net[c] /\ sent'[c] = sent[c]
    BY <1>1, <1>5, <1>12 DEF TypeOK
  <2>2. Piece(rcv'[c], c, read + 0) /\ Len(rcv'[c]) = Len(rcv[c]) - 0 /\ 0 \in 0 .. Len(rcv[c])
    <3>1. read + 0 = read
      BY <1>10
    <3> QED BY <1>10, <2>1, <3>1 DEF StreamFrom
  <2>3. ASSUME NEW m \in 1 .. Len(posted'), posted'[m].conn = c,
               NEW k \in 1 .. Len(posted'[m].data)
        PROVE  posted'[m].data[k].off <= read + 0
    <3>1. m \in 1 .. Len(posted)
      BY <1>7, <1>8, <1>9, <1>12, <2>3
    <3>2. posted[m].data[k].off <= read
      BY <1>7, <2>3, <3>1 DEF StreamFrom
    <3>3. read + 0 = read
      BY <1>10
    <3> QED BY <1>7, <3>1, <3>2, <3>3
  <2>4. PICK n \in 0 .. Len(rcv[c]) : n = 0
    BY <2>2
  <2>5. read + n \in 0 .. Written(c)' /\ StreamFrom(c, read + n)'
    BY <1>1, <2>1, <2>2, <2>3, <2>4, TakenStream
  <2> QED BY <2>5
<1> QED BY <1>11, <1>12

LEMMA StreamStep ==
    ASSUME EpollInv, StreamInv, Roomy, [Next]_vars
    PROVE  StreamInv'
<1>0. TypeOK /\ EventsInv
  BY DEF EpollInv
<1> SUFFICES ASSUME NEW c \in Conns PROVE \E r \in 0 .. Written(c)' : StreamFrom(c, r)'
  BY DEF StreamInv
<1>1. PICK read \in 0 .. Written(c) : StreamFrom(c, read)
  BY DEF StreamInv
<1>2. Adding(c)' => Adding(c)
  BY <1>0, AddingBefore
<1>3. CASE rcv'[c] = rcv[c] /\ net'[c] = net[c] /\ sent'[c] = sent[c] /\ posted' = posted
  <2>1. StreamFrom(c, read)' /\ Written(c)' = Written(c)
    BY <1>1, <1>2, <1>3, StreamKept, WrittenKept
  <2> QED BY <2>1
<1>4. ASSUME NEW d \in Conns, Client(d) PROVE \E r \in 0 .. Written(c)' : StreamFrom(c, r)'
  <2>0. posted' = posted
    BY <1>4 DEF Client
  <2>1. CASE Connect(d) \/ Finish(d)
    BY <1>3, <2>0, <2>1 DEF Connect, Finish
  <2>2. ASSUME NEW n \in BodyLens, SendFrame(d, n)
        PROVE  \E r \in 0 .. Written(c)' : StreamFrom(c, r)'
    <3>1. CASE c = d
      BY <1>0, <1>1, <2>0, <2>2, <3>1, SendStream
    <3>2. CASE c # d
      BY <1>0, <1>3, <2>0, <2>2, <3>2 DEF SendFrame, TypeOK
    <3> QED BY <3>1, <3>2
  <2>3. CASE Reset(d)
    <3>1. CASE c = d
      <4>1. cli'[c] = "rst" /\ net'[c] = <<>> /\ rcv'[c] = rcv[c] /\ sent' = sent
        BY <1>0, <2>3, <3>1 DEF Reset, TypeOK
      <4>2. ~Adding(c)'
        BY <4>1 DEF Adding
      <4> QED BY <1>0, <1>1, <2>0, <4>1, <4>2, LostStream
    <3>2. CASE c # d
      BY <1>0, <1>3, <2>0, <2>3, <3>2 DEF Reset, TypeOK
    <3> QED BY <3>1, <3>2
  <2> QED BY <1>4, <2>1, <2>2, <2>3 DEF Client
<1>5. ASSUME NEW d \in Conns, Network(d) PROVE \E r \in 0 .. Written(c)' : StreamFrom(c, r)'
  <2>0. posted' = posted /\ Arrive(d)
    BY <1>5 DEF Network
  <2>1. CASE c = d
    BY <1>0, <1>1, <1>2, <2>0, <2>1, ArriveStream
  <2>2. CASE c # d
    BY <1>0, <1>3, <2>0, <2>2 DEF Arrive, TypeOK
  <2> QED BY <2>1, <2>2
<1>6. CASE EpollWait
  BY <1>3, <1>6 DEF EpollWait, clientVars
<1>7. ASSUME NEW e \in events, Accept(e) PROVE \E r \in 0 .. Written(c)' : StreamFrom(c, r)'
  BY <1>3, <1>7 DEF Accept, clientVars
<1>8. ASSUME NEW e \in events, ReadHeader(e) PROVE \E r \in 0 .. Written(c)' : StreamFrom(c, r)'
  BY <1>1, <1>2, <1>8, HeaderStream
<1>9. ASSUME NEW e \in events, CloseOnError(e)
      PROVE  \E r \in 0 .. Written(c)' : StreamFrom(c, r)'
  <2>1. PICK d \in Conns : d = files[e.fd] /\ e.fd \in Fds
    BY <1>0, <1>9, EventIs DEF CloseOnError
  <2>2. Close(e.fd) /\ UNCHANGED <<cli, sent, backlog, posted>>
    BY <1>9 DEF CloseOnError
  <2> QED BY <1>1, <1>2, <2>1, <2>2, CloseStream
<1>10. CASE ReadBody
  BY <1>1, <1>2, <1>10, BodyStream
<1>11. CASE UNCHANGED vars
  BY <1>3, <1>11 DEF vars, clientVars
<1> QED BY <1>4, <1>5, <1>6, <1>7, <1>8, <1>9, <1>10, <1>11 DEF Next, Server

\* An item is a piece of the stream behind the ones before it.
LEMMA SlicesStep ==
    ASSUME EpollInv, StreamInv, StreamSlices, Roomy, [Next]_vars
    PROVE  StreamSlices'
<1>0. TypeOK /\ EventsInv
  BY DEF EpollInv
<1>1. CASE posted' = posted
  BY <1>1 DEF StreamSlices
<1>2. CASE ReadBody
  <2>1. PICK c \in Conns : c = ev.conn
    BY <1>0, <1>2, BodyIs DEF ReadBody
  <2>2. PICK read \in Nat : StreamFrom(c, read)
    <3>1. Written(c) \in Nat
      BY <1>0, StreamNumbers
    <3>2. \A n \in 0 .. Written(c) : n \in Nat
      BY <3>1
    <3> QED BY <3>2 DEF StreamInv
  <2>3. PICK text \in Seq(Byte) :
               /\ posted' = Append(posted, [fd |-> ev.fd, conn |-> c, data |-> text])
               /\ [fd |-> ev.fd, conn |-> c, data |-> text] \in Post
               /\ Piece(text, c, read)
    <3>1. Piece(rcv[c], c, read)
      BY <2>2 DEF StreamFrom
    <3> QED BY <1>2, <2>1, <3>1, ReadBodyIs
  <2>4. PICK item \in Post : item = [fd |-> ev.fd, conn |-> c, data |-> text]
    BY <2>3
  <2>5. /\ posted \in Seq(Post) /\ Len(posted) \in Nat /\ Len(posted') = Len(posted) + 1
        /\ \A m \in 1 .. Len(posted) : posted'[m] = posted[m]
        /\ posted'[Len(posted) + 1] = item
    BY <1>0, <2>3, <2>4, Appended DEF TypeOK
  <2>6. item.conn = c /\ item.data = text
    BY <2>4
  <2>7. ASSUME NEW n \in 1 .. Len(posted') PROVE n \in 1 .. Len(posted) \/ n = Len(posted) + 1
    BY <2>5
  <2>8. ASSUME NEW n \in 1 .. Len(posted'), NEW k \in 1 .. Len(posted'[n].data)
        PROVE  /\ posted'[n].data[k].conn = posted'[n].conn
               /\ k > 1 => posted'[n].data[k].off = posted'[n].data[k - 1].off + 1
    <3>1. CASE n \in 1 .. Len(posted)
      BY <2>5, <2>8, <3>1 DEF StreamSlices
    <3>2. CASE n = Len(posted) + 1
      <4>1. posted'[n] = item /\ k \in 1 .. Len(text) /\ Len(text) \in Nat
        BY <2>5, <2>6, <2>8, <3>2
      <4>2. text[k].conn = c /\ text[k].off = read + k
        BY <2>3, <4>1 DEF Piece
      <4>3. ASSUME k > 1 PROVE text[k].off = text[k - 1].off + 1
        <5>1. PICK j \in 1 .. Len(text) : j = k - 1
          BY <4>1, <4>3
        <5>2. text[j].off = read + j
          BY <2>3 DEF Piece
        <5>3. read + k = (read + j) + 1
          BY <4>1, <5>1
        <5> QED BY <4>2, <5>1, <5>2, <5>3
      <4> QED BY <2>6, <4>1, <4>2, <4>3
    <3> QED BY <2>7, <3>1, <3>2
  <2>9. ASSUME NEW n \in 1 .. Len(posted'), NEW m \in 1 .. n - 1,
               posted'[m].conn = posted'[n].conn,
               NEW j \in 1 .. Len(posted'[m].data), NEW k \in 1 .. Len(posted'[n].data)
        PROVE  posted'[m].data[j].off < posted'[n].data[k].off
    <3>0. m \in 1 .. Len(posted) /\ posted'[m] = posted[m]
      BY <2>5, <2>7
    <3>1. CASE n \in 1 .. Len(posted)
      BY <2>5, <2>9, <3>0, <3>1 DEF StreamSlices
    <3>2. CASE n = Len(posted) + 1
      <4>1. posted'[n] = item /\ k \in 1 .. Len(text)
        BY <2>5, <2>6, <2>9, <3>2
      <4>2. text[k].off = read + k
        BY <2>3, <4>1 DEF Piece
      <4>3. posted[m].data[j].off \in Nat /\ posted[m].data[j].off <= read
        <5>1. posted[m].conn = c /\ j \in 1 .. Len(posted[m].data)
          BY <2>6, <2>9, <3>0, <4>1
        <5>2. posted[m].data[j].off \in Nat
          BY <1>0, <3>0, <5>1, PostedOffsets
        <5> QED BY <2>2, <3>0, <5>1, <5>2 DEF StreamFrom
      <4>4. k \in Nat /\ k >= 1
        BY <4>1
      <4>5. posted[m].data[j].off < read + k
        BY <4>3, <4>4, SMTT(30)
      <4> QED BY <2>6, <3>0, <4>1, <4>2, <4>5
    <3> QED BY <2>7, <3>1, <3>2
  <2> QED BY <2>8, <2>9 DEF StreamSlices
<1>3. ASSUME NEW c \in Conns, Client(c) \/ Network(c) PROVE posted' = posted
  BY <1>3 DEF Client, Network
<1>4. CASE EpollWait
  BY <1>1, <1>4 DEF EpollWait
<1>5. ASSUME NEW e \in events, Accept(e) \/ ReadHeader(e) \/ CloseOnError(e)
      PROVE  posted' = posted
  BY <1>5 DEF Accept, ReadHeader, CloseOnError
<1>6. CASE UNCHANGED vars
  BY <1>1, <1>6 DEF vars
<1> QED BY <1>1, <1>2, <1>3, <1>4, <1>5, <1>6 DEF Next, Server

LEMMA StreamInit == Init => StreamInv /\ StreamSlices
<1> SUFFICES ASSUME Init PROVE StreamInv /\ StreamSlices
  OBVIOUS
<1>1. posted = <<>> /\ \A n \in 1 .. Len(posted) : FALSE
  BY DEF Init
<1>2. ASSUME NEW c \in Conns PROVE 0 \in 0 .. Written(c) /\ StreamFrom(c, 0)
  <2>1. rcv[c] = <<>> /\ net[c] = <<>> /\ sent[c] = <<>>
    BY <1>2 DEF Init
  <2>2. Written(c) = 0 /\ Len(rcv[c]) = 0 /\ Len(net[c]) = 0
    BY <2>1 DEF Written
  <2>3. Piece(rcv[c], c, 0) /\ Piece(net[c], c, 0 + Len(rcv[c]))
    BY <2>1, NoPiece
  <2>4. 0 + Len(rcv[c]) + Len(net[c]) = Written(c) /\ 0 + Len(rcv[c]) + Len(net[c]) <= Written(c)
    BY <2>2
  <2> QED BY <1>1, <2>2, <2>3, <2>4 DEF StreamFrom
<1> QED BY <1>1, <1>2 DEF StreamInv, StreamSlices

(***************************************************************************)
(* However TCP cuts frames, runs them together or loses the end of them,   *)
(* for any number of clients: the text of every item that is posted to the *)
(* script is a piece of the stream of the connection it came from, without *)
(* a gap, behind the pieces that were posted before, and nothing of        *)
(* another message is in it, as long as the length in a header leaves room *)
(* in read_msg_ for the byte that read() asks for beyond the body and for  *)
(* the NUL behind that (game.cpp:290).  Without the room StreamSlices is   *)
(* false: the byte behind read_msg_ is read.                               *)
(***************************************************************************)
THEOREM ItemsAreSlices == Spec /\ []Roomy => []StreamSlices
<1>1. Init => EpollInv /\ StreamInv /\ StreamSlices
  BY EpollInit, StreamInit
<1>2. EpollInv /\ StreamInv /\ StreamSlices /\ Roomy /\ [Next]_vars
          => (EpollInv /\ StreamInv /\ StreamSlices)'
  BY EpollStep, StreamStep, SlicesStep
<1> QED BY <1>1, <1>2, PTL DEF Spec

-----------------------------------------------------------------------------
(* Frames.                                                                 *)

\* How many of the first n items are of the connection c.
Count(items, c, n) == Cardinality({m \in 1 .. n : items[m].conn = c})

LEMMA HandedIs ==
    ASSUME NEW c, NEW n
    PROVE  Handed(c, n) = Count(posted, c, n) /\ Handed(c, n)' = Count(posted', c, n)
BY DEF Handed, Count

LEMMA CountIsNat ==
    ASSUME NEW items, NEW c, NEW n \in Nat
    PROVE  /\ IsFiniteSet({m \in 1 .. n : items[m].conn = c})
           /\ Count(items, c, n) \in Nat
           /\ \A m \in 1 .. n : items[m].conn = c => Count(items, c, n) # 0
<1> DEFINE of == {m \in 1 .. n : items[m].conn = c}
<1>1. IsFiniteSet(1 .. n)
  BY FS_Interval
<1>2. IsFiniteSet(of)
  BY <1>1, FS_Subset
<1>3. Cardinality(of) \in Nat
  BY <1>2, FS_CardinalityType
<1>4. ASSUME NEW m \in 1 .. n, items[m].conn = c PROVE Cardinality(of) # 0
  <2>1. m \in of
    BY <1>4
  <2> HIDE DEF of
  <2> QED BY <1>2, <2>1, FS_EmptySet
<1> QED BY <1>2, <1>3, <1>4 DEF Count

LEMMA CountSame ==
    ASSUME NEW items, NEW others, NEW c, NEW n \in Nat,
           \A m \in 1 .. n : others[m].conn = items[m].conn
    PROVE  Count(others, c, n) = Count(items, c, n)
<1>1. {m \in 1 .. n : others[m].conn = c} = {m \in 1 .. n : items[m].conn = c}
  OBVIOUS
<1> QED BY <1>1 DEF Count

LEMMA CountMore ==
    ASSUME NEW items, NEW c, NEW n \in Nat
    PROVE  Count(items, c, n + 1) =
               IF items[n + 1].conn = c THEN Count(items, c, n) + 1 ELSE Count(items, c, n)
<1> DEFINE of(k) == {m \in 1 .. k : items[m].conn = c}
<1>1. IsFiniteSet(of(n))
  BY CountIsNat
<1>2. CASE items[n + 1].conn = c
  <2>1. of(n + 1) = of(n) \cup {n + 1} /\ n + 1 \notin of(n)
    BY <1>2
  <2> HIDE DEF of
  <2>2. Cardinality(of(n + 1)) = Cardinality(of(n)) + 1
    BY <1>1, <2>1, FS_AddElement
  <2> QED BY <1>2, <2>2 DEF Count, of
<1>3. CASE items[n + 1].conn # c
  <2>1. of(n + 1) = of(n)
    BY <1>3
  <2> QED BY <1>3, <2>1 DEF Count
<1> QED BY <1>2, <1>3

\* What becomes of the counts when an item is posted.
LEMMA CountAppended ==
    ASSUME NEW items \in Seq(Post), NEW item \in Post, NEW c
    PROVE  /\ \A n \in 0 .. Len(items) : Count(Append(items, item), c, n) = Count(items, c, n)
           /\ Count(Append(items, item), c, Len(items) + 1) =
                  IF item.conn = c THEN Count(items, c, Len(items)) + 1
                                   ELSE Count(items, c, Len(items))
<1> DEFINE more == Append(items, item)
<1>1. /\ Len(items) \in Nat /\ \A k \in 1 .. Len(items) : more[k] = items[k]
      /\ more[Len(items) + 1] = item
  BY Appended
<1> HIDE DEF more
<1>2. ASSUME NEW n \in 0 .. Len(items) PROVE Count(more, c, n) = Count(items, c, n)
  <2>1. n \in Nat /\ \A m \in 1 .. n : more[m].conn = items[m].conn
    BY <1>1
  <2> QED BY <2>1, CountSame
<1>3. Count(more, c, Len(items)) = Count(items, c, Len(items))
  BY <1>1, <1>2
<1>4. Count(more, c, Len(items) + 1) =
          IF item.conn = c THEN Count(items, c, Len(items)) + 1
                           ELSE Count(items, c, Len(items))
  BY <1>1, <1>3, CountMore
<1> QED BY <1>2, <1>4 DEF more

-----------------------------------------------------------------------------
(* Clients that wait between frames.                                       *)

\* Clients wait until their last frame has been read, a frame arrives whole,
\* and there is room for the NUL behind a body.
Paced ==
    /\ ~Pipelined
    /\ \A n \in Pieces, len \in BodyLens : n >= header_length + len
    /\ \A len \in BodyLens : len < max_body_length

LEMMA FrameNumbers ==
    ASSUME NEW frame \in FrameType
    PROVE  /\ frame.start \in Nat /\ frame.len \in Nat /\ frame.len \in BodyLens
           /\ frame.len <= max_body_length /\ frame.len \in 0 .. max_body_length
BY FramesAre, LensAre, Sizes

LEMMA SentIs ==
    ASSUME TypeOK, NEW c \in Conns
    PROVE  /\ Len(sent[c]) \in Nat /\ Len(posted) \in Nat
           /\ Handed(c, Len(posted)) \in Nat
           /\ FrameLeft(c) => LastFrame(c) \in FrameType
<1>1. sent[c] \in Seq(FrameType) /\ posted \in Seq(Post)
  BY DEF TypeOK
<1>2. Len(sent[c]) \in Nat /\ Len(posted) \in Nat
  BY <1>1
<1>3. Handed(c, Len(posted)) \in Nat
  <2>1. Handed(c, Len(posted)) = Count(posted, c, Len(posted))
    BY DEF Handed, Count
  <2> QED BY <1>2, <2>1, CountIsNat
<1>4. FrameLeft(c) => Len(sent[c]) \in 1 .. Len(sent[c])
  BY <1>2, <1>3 DEF FrameLeft
<1> QED BY <1>1, <1>2, <1>3, <1>4 DEF LastFrame

\* A client that sends a frame has had all others read.
LEMMA SendPlace ==
    ASSUME Paced, TypeOK, NEW c \in Conns, NothingLeft(c) \/ FrameLeft(c),
           NEW n \in BodyLens, SendFrame(c, n), UNCHANGED <<spc, ev, posted>>
    PROVE  FrameLeft(c)'
<1>1. Drained(c) /\ Adding(c)
  BY DEF SendFrame, Paced, Adding
<1>2. NothingLeft(c)
  <2>1. SUFFICES ASSUME FrameLeft(c) PROVE FALSE
    OBVIOUS
  <2>2. net[c] = <<>> /\ rcv[c] = <<>> /\ ~Reading(c)
    BY <1>1 DEF Drained, Reading
  <2>3. FrameFrom(<<>>, c, LastFrame(c), 0)
    BY <2>1, <2>2 DEF FrameLeft
  <2>4. LastFrame(c).len \in Nat
    BY <2>1, SentIs, FrameNumbers
  <2>5. Len(<<>>) = 0
    OBVIOUS
  <2> QED BY <2>3, <2>4, <2>5, Sizes DEF FrameFrom
<1> DEFINE frame == [start |-> Written(c), len |-> n]
<1>3. /\ net'[c] = net[c] \o Frame(c, n) /\ sent'[c] = Append(sent[c], frame)
      /\ rcv'[c] = <<>> /\ net[c] = <<>>
  BY <1>2 DEF SendFrame, TypeOK, NothingLeft
<1>4. sent[c] \in Seq(FrameType) /\ Written(c) \in Nat /\ n \in Nat
  BY WrittenIs, LensAre DEF TypeOK
<1>5. frame \in FrameType /\ frame.start = Written(c) /\ frame.len = n
  BY <1>4 DEF FrameType
<1> HIDE DEF frame
<1>6. /\ Len(sent'[c]) = Len(sent[c]) + 1 /\ sent'[c][Len(sent[c]) + 1] = frame
      /\ Len(sent[c]) \in Nat
  BY <1>3, <1>4, <1>5, Appended
<1>7. LastFrame(c)' = frame
  BY <1>6 DEF LastFrame
<1>8. net'[c] = Frame(c, n)
  <2>1. Frame(c, n) \in Seq(Byte)
    BY <1>4, FrameIs
  <2> QED BY <1>3, <2>1
<1>9. FrameFrom(Frame(c, n), c, frame, 0)
  <2>1. /\ Len(Frame(c, n)) = header_length + n /\ header_length + n \in Nat
        /\ header_length + frame.len - 0 = header_length + n
    BY <1>4, <1>5, FrameIs, Sizes
  <2>2. frame.start + 0 = Written(c)
    BY <1>4, <1>5
  <2>3. Piece(Frame(c, n), c, frame.start + 0)
    BY <1>4, <2>2, FrameIsPiece
  <2>4. ASSUME NEW k \in 1 .. header_length + n
        PROVE  Frame(c, n)[k].code = IF 0 + k <= header_length
                                     THEN EncodeHeader(frame.len)[0 + k] ELSE BodyCode
    <3>1. 0 + k = k
      BY <2>1
    <3>2. Frame(c, n)[k].code = IF k <= header_length THEN EncodeHeader(n)[k] ELSE BodyCode
      BY DEF Frame
    <3> QED BY <1>5, <3>1, <3>2
  <2> QED BY <2>1, <2>3, <2>4 DEF FrameFrom
<1>10. Handed(c, Len(posted))' + 1 = Len(sent'[c])
  <2>1. Handed(c, Len(posted)) = Len(sent[c])
    BY <1>1, <1>2 DEF NothingLeft
  <2>2. Handed(c, Len(posted))' = Handed(c, Len(posted))
    BY DEF Handed
  <2> QED BY <1>6, <2>1, <2>2
<1>11. ~Reading(c)'
  BY <1>2 DEF NothingLeft, Reading
<1> QED BY <1>3, <1>7, <1>8, <1>9, <1>10, <1>11 DEF FrameLeft

\* A frame arrives whole.
LEMMA ArrivePlace ==
    ASSUME Paced, TypeOK, NEW c \in Conns, NothingLeft(c) \/ FrameLeft(c),
           Arrive(c), UNCHANGED <<spc, ev, body_length_, posted>>
    PROVE  FrameLeft(c)'
<1>1. FrameLeft(c) /\ FrameFrom(net[c], c, LastFrame(c), 0) /\ rcv[c] = <<>> /\ ~Reading(c)
  BY DEF Arrive, NothingLeft, FrameLeft
<1>2. LastFrame(c) \in FrameType
  BY <1>1, SentIs
<1>3. LastFrame(c).len \in Nat /\ LastFrame(c).len \in BodyLens
  BY <1>2, FrameNumbers
<1>4. net[c] \in Seq(Byte) /\ Len(net[c]) = header_length + LastFrame(c).len
  BY <1>1, <1>3, Sizes DEF TypeOK, FrameFrom
<1>5. PICK k \in {Len(net[c])} \cup {n \in Pieces : n < Len(net[c])} :
           /\ rcv' = [rcv EXCEPT ![c] = @ \o SubSeq(net[c], 1, k)]
           /\ net' = [net EXCEPT ![c] = SubSeq(@, k + 1, Len(@))]
  BY DEF Arrive
<1>6. k = Len(net[c])
  <2>1. \A n \in Pieces : n >= header_length + LastFrame(c).len /\ n \in Nat
    BY <1>3, PiecesAssumption DEF Paced
  <2> QED BY <1>3, <1>4, <1>5, <2>1, Sizes
<1>7. /\ rcv'[c] = rcv[c] \o SubSeq(net[c], 1, Len(net[c]))
      /\ net'[c] = SubSeq(net[c], Len(net[c]) + 1, Len(net[c]))
  BY <1>5, <1>6 DEF TypeOK
<1>8. rcv'[c] = net[c] /\ net'[c] = <<>>
  <2>1. SubSeq(net[c], 1, Len(net[c])) = net[c]
    BY <1>4
  <2>2. net'[c] = <<>>
    BY <1>4, <1>7
  <2> QED BY <1>1, <1>4, <1>7, <2>1, <2>2
<1>9. LastFrame(c)' = LastFrame(c) /\ sent' = sent
  BY DEF Arrive, LastFrame
<1>10. Handed(c, Len(posted))' = Handed(c, Len(posted)) /\ ~Reading(c)'
  BY <1>1 DEF Handed, Reading
<1> QED BY <1>1, <1>8, <1>9, <1>10 DEF FrameLeft

\* The server stays in front of what it was in front of.
LEMMA PlaceKept ==
    ASSUME NEW c \in Conns, NothingLeft(c) \/ FrameLeft(c),
           rcv'[c] = rcv[c], net'[c] = net[c], sent'[c] = sent[c],
           Handed(c, Len(posted))' = Handed(c, Len(posted)),
           Reading(c)' <=> Reading(c), Reading(c) => body_length_' = body_length_,
           Adding(c)' => Adding(c)
    PROVE  NothingLeft(c)' \/ FrameLeft(c)'
<1>1. LastFrame(c)' = LastFrame(c)
  BY DEF LastFrame
<1>2. CASE NothingLeft(c)
  BY <1>2 DEF NothingLeft
<1>3. CASE FrameLeft(c)
  BY <1>1, <1>3 DEF FrameLeft
<1> QED BY <1>2, <1>3

\* What is left of a stream that nobody can add to is dropped.
LEMMA PlaceLost ==
    ASSUME TypeOK, NEW c \in Conns, NothingLeft(c) \/ FrameLeft(c),
           rcv'[c] = <<>>, net'[c] = <<>>, sent'[c] = sent[c], posted' = posted,
           ~Reading(c)', ~Adding(c)'
    PROVE  NothingLeft(c)'
<1>1. Handed(c, Len(posted)) \in Nat /\ Len(sent[c]) \in Nat
  BY SentIs
<1>2. Handed(c, Len(posted)) <= Len(sent[c])
  BY <1>1 DEF NothingLeft, FrameLeft
<1>3. Handed(c, Len(posted))' = Handed(c, Len(posted))
  BY DEF Handed
<1> QED BY <1>2, <1>3 DEF NothingLeft

\* A reset: what has arrived stays, and a frame arrives whole or not at all.
LEMMA ResetPlace ==
    ASSUME TypeOK, NEW c \in Conns, NothingLeft(c) \/ FrameLeft(c),
           rcv'[c] = rcv[c], net'[c] = <<>>, sent'[c] = sent[c], ~Adding(c)',
           UNCHANGED <<spc, ev, body_length_, posted>>
    PROVE  NothingLeft(c)' \/ FrameLeft(c)'
<1>1. Handed(c, Len(posted))' = Handed(c, Len(posted)) /\ (Reading(c)' <=> Reading(c))
  BY DEF Handed, Reading
<1>2. CASE net[c] = <<>>
  BY <1>1, <1>2, PlaceKept
<1>3. CASE net[c] # <<>>
  <2>1. rcv[c] = <<>> /\ ~Reading(c)
    BY <1>3 DEF NothingLeft, FrameLeft
  <2> QED BY <1>1, <2>1, PlaceLost
<1> QED BY <1>2, <1>3

\* The header of a whole frame tells the length of its body, and what is left
\* is that body.
LEMMA HeaderRead ==
    ASSUME NEW c \in Conns, rcv[c] \in Seq(Byte), NEW frame \in FrameType,
           FrameFrom(rcv[c], c, frame, 0), NEW got \in Reads(c, header_length)
    PROVE  /\ Accepted(got, DecodeHeader(HeaderOf(got)))
           /\ DecodeHeader(HeaderOf(got)).body_length_ = frame.len
           /\ FrameFrom(Rest(c, Len(got)), c, frame, header_length)
<1>1. /\ frame.start \in Nat /\ frame.len \in Nat /\ frame.len \in 0 .. max_body_length
      /\ header_length = 4
  BY FrameNumbers, Sizes
<1>2. /\ Len(rcv[c]) = 4 + frame.len /\ Piece(rcv[c], c, frame.start)
      /\ \A k \in 1 .. Len(rcv[c]) :
             rcv[c][k].code = IF k <= 4 THEN EncodeHeader(frame.len)[k] ELSE BodyCode
  BY <1>1 DEF FrameFrom
<1>3. /\ got \in Seq(Byte) /\ Len(got) \in 0 .. Len(rcv[c]) /\ Len(got) <= 4
      /\ Len(got) \in {4, Len(rcv[c])}
      /\ \A k \in 1 .. Len(got) : got[k] = rcv[c][k]
      /\ Len(Rest(c, Len(got))) = Len(rcv[c]) - Len(got)
      /\ \A k \in 1 .. Len(rcv[c]) - Len(got) : Rest(c, Len(got))[k] = rcv[c][Len(got) + k]
  <2>1. header_length \in Nat
    BY <1>1
  <2>2. /\ got \in Seq(Byte) /\ Len(got) \in 0 .. Len(rcv[c]) /\ Len(got) <= header_length
        /\ Len(got) \in {header_length, Len(rcv[c])}
        /\ \A k \in 1 .. Len(got) : got[k] = rcv[c][k]
        /\ Len(Rest(c, Len(got))) = Len(rcv[c]) - Len(got)
        /\ \A k \in 1 .. Len(rcv[c]) - Len(got) : Rest(c, Len(got))[k] = rcv[c][Len(got) + k]
    BY <2>1, ReadIs, Zenon
  <2> QED BY <1>1, <2>2, Zenon
<1>4. Len(got) = 4 /\ \A k \in 1 .. 4 : k \in 1 .. Len(rcv[c])
  <2>1. PICK a \in Nat, n \in Nat : a = Len(got) /\ n = frame.len
    BY <1>1, <1>3
  <2>2. a <= 4 /\ (a = 4 \/ a = 4 + n)
    BY <1>2, <1>3, <2>1
  <2>3. a = 4 /\ \A k \in 1 .. 4 : k \in 1 .. 4 + n
    BY <2>2
  <2> QED BY <1>2, <2>1, <2>3
<1>5. HeaderOf(got) = Cut(EncodeHeader(frame.len), 4)
  <2>1. ASSUME NEW k \in 1 .. 4 PROVE got[k].code = EncodeHeader(frame.len)[k]
    BY <1>2, <1>3, <1>4, SMTT(30)
  <2> QED BY <1>1, <1>4, <2>1 DEF HeaderOf, Cut
<1>6. /\ DecodeHeader(HeaderOf(got)).ok = TRUE
      /\ DecodeHeader(HeaderOf(got)).body_length_ = frame.len
  <2>1. 4 \in 1 .. 4 /\ 4 = 4
    OBVIOUS
  <2> DEFINE decoded == DecodeHeader(Cut(EncodeHeader(frame.len), 4))
  <2>2. decoded.ok = TRUE /\ decoded.body_length_ = frame.len
    BY <1>1, <2>1, DecodeOfCut
  <2> QED BY <1>5, <2>2
<1>7. got # <<>>
  <2>1. Len(<<>>) = 0
    OBVIOUS
  <2>2. Len(got) # 0
    BY <1>4
  <2> QED BY <2>1, <2>2, Zenon
<1>8. FrameFrom(Rest(c, Len(got)), c, frame, header_length)
  <2> DEFINE rest == Rest(c, 4)
  <2>1. Len(rest) = frame.len /\ \A k \in 1 .. frame.len : rest[k] = rcv[c][4 + k]
    <3>1. Len(rcv[c]) - 4 = frame.len
      BY <1>1, <1>2
    <3> QED BY <1>3, <1>4, <3>1
  <2>2. Piece(rest, c, frame.start + 4)
    <3>1. Piece(Rest(c, Len(got)), c, frame.start + Len(got))
      BY <1>1, <1>2, ReadPieces
    <3> QED BY <1>4, <3>1
  <2>3. ASSUME NEW k \in 1 .. frame.len PROVE rest[k].code = BodyCode
    <3>1. 4 + k \in 1 .. Len(rcv[c]) /\ ~(4 + k <= 4)
      BY <1>1, <1>2
    <3> QED BY <1>2, <2>1, <3>1
  <2>4. 4 + frame.len - 4 = frame.len /\ \A k \in 1 .. frame.len : ~(4 + k <= 4)
    BY <1>1
  <2>5. FrameFrom(rest, c, frame, 4)
    <3> HIDE DEF rest
    <3> QED BY <1>1, <2>1, <2>2, <2>3, <2>4 DEF FrameFrom
  <2> QED BY <1>1, <1>4, <2>5
<1> QED BY <1>6, <1>7, <1>8 DEF Accepted

\* The body of a frame is read to its end, and what is posted is the body.
LEMMA BodyRead ==
    ASSUME Paced, EpollInv, ReadBody, NEW c \in Conns, c = ev.conn,
           NEW frame \in FrameType, FrameFrom(rcv[c], c, frame, header_length),
           body_length_ = frame.len
    PROVE  /\ rcv'[c] = <<>>
           /\ \A d \in Conns \ {c} : rcv'[d] = rcv[d]
           /\ \E item \in Post :
                  /\ posted' = Append(posted, item) /\ item.conn = c
                  /\ Len(item.data) = frame.len
                  /\ Piece(item.data, c, frame.start + header_length)
<1>0. TypeOK /\ EventsInv /\ BufferInv /\ spc = "body"
  BY DEF EpollInv, ReadBody
<1>1. c = files[ev.fd] /\ ev.fd \in Fds
  BY <1>0, BodyIs
<1>2. /\ frame.start \in Nat /\ frame.len \in Nat /\ frame.len < max_body_length
      /\ header_length = 4 /\ max_body_length \in Nat /\ BufferSize = 4 + max_body_length
  BY FrameNumbers, Sizes DEF Paced
<1>3. /\ Len(rcv[c]) = frame.len /\ Piece(rcv[c], c, frame.start + header_length)
      /\ \A k \in 1 .. frame.len : rcv[c][k].code = BodyCode
  <2>1. header_length + frame.len - header_length = frame.len
    BY <1>2
  <2>2. \A k \in 1 .. frame.len : ~(header_length + k <= header_length)
    BY <1>2
  <2> QED BY <2>1, <2>2 DEF FrameFrom
<1>4. PICK got \in Reads(c, frame.len + 1) :
           /\ rcv' = [rcv EXCEPT ![c] = Rest(c, Len(got))]
           /\ \E memory \in {Overlay(Append(data_, pad), header_length, got)} :
                posted' = Append(posted,
                       [fd |-> ev.fd, conn |-> ev.conn,
                        data |-> CString(SubSeq(memory, header_length + 1, Len(memory)))])
  BY <1>1 DEF ReadBody
<1>5. /\ got \in Seq(Byte) /\ Len(got) = frame.len
      /\ \A k \in 1 .. frame.len : got[k] = rcv[c][k]
      /\ Rest(c, Len(got)) = <<>>
  <2>1. rcv[c] \in Seq(Byte) /\ frame.len + 1 \in Nat
    BY <1>0, <1>2 DEF TypeOK
  <2>2. /\ got \in Seq(Byte) /\ Len(got) \in 0 .. Len(rcv[c])
        /\ Len(got) \in {frame.len + 1, Len(rcv[c])}
        /\ \A k \in 1 .. Len(got) : got[k] = rcv[c][k]
        /\ Rest(c, Len(got)) \in Seq(Byte)
        /\ Len(Rest(c, Len(got))) = Len(rcv[c]) - Len(got)
    BY <2>1, ReadIs, ZenonT(40)
  <2>3. PICK a \in Nat, n \in Nat : a = Len(got) /\ n = frame.len
    BY <1>2, <2>2
  <2>4. a <= n /\ (a = n + 1 \/ a = n)
    BY <1>3, <2>2, <2>3
  <2>5. a = n /\ n - a = 0
    BY <2>4
  <2>6. Len(Rest(c, Len(got))) = 0
    BY <1>3, <2>2, <2>3, <2>5
  <2>7. Rest(c, Len(got)) = <<>>
    BY <2>2, <2>6
  <2> QED BY <2>2, <2>3, <2>5, <2>7
<1>6. rcv'[c] = <<>> /\ \A d \in Conns \ {c} : rcv'[d] = rcv[d]
  BY <1>0, <1>4, <1>5 DEF TypeOK
<1>7. PICK memory : /\ memory = Overlay(Append(data_, pad), header_length, got)
                    /\ posted' = Append(posted,
                           [fd |-> ev.fd, conn |-> ev.conn,
                            data |-> CString(SubSeq(memory, header_length + 1, Len(memory)))])
  BY <1>4
<1>8. /\ memory \in Seq(Byte) /\ Len(memory) = BufferSize + 1
      /\ \A k \in 1 .. max_body_length + 1 :
             memory[header_length + k] =
                 IF k <= Len(got) THEN got[k]
                 ELSE IF k = max_body_length + 1 THEN pad ELSE data_[header_length + k]
  BY <1>0, <1>5, <1>7, MemoryIs
<1>9. PICK text \in Seq(Byte) :
          /\ text = CString(SubSeq(memory, header_length + 1, Len(memory)))
          /\ Len(text) \in 0 .. max_body_length + 1
          /\ \A k \in 1 .. Len(text) : /\ text[k] = memory[header_length + k]
                                       /\ memory[header_length + k].code # NUL
          /\ Len(text) < max_body_length + 1
                 => memory[header_length + (Len(text) + 1)].code = NUL
  BY <1>8, TextIs
<1>10. ASSUME NEW k \in 1 .. frame.len
       PROVE  memory[header_length + k] = rcv[c][k] /\ memory[header_length + k].code # NUL
  <2>1. k \in 1 .. max_body_length + 1 /\ k <= Len(got)
    BY <1>2, <1>5
  <2>2. memory[header_length + k] = rcv[c][k]
    BY <1>5, <1>8, <2>1
  <2> QED BY <1>3, <2>2, BodyCodeAssumption DEF NUL
<1>11. memory[header_length + (frame.len + 1)].code = NUL
  <2>1. PICK k \in 1 .. max_body_length : k = frame.len + 1
    BY <1>2
  <2>2. /\ k \in 1 .. max_body_length + 1 /\ ~(k <= Len(got)) /\ k # max_body_length + 1
        /\ header_length + k \in header_length + 1 .. BufferSize
    BY <1>2, <1>5, <2>1
  <2>3. memory[header_length + k] = Zero
    BY <1>0, <1>8, <2>2 DEF BufferInv
  <2> QED BY <2>1, <2>3, ZeroIsByte DEF NUL
<1>12. Len(text) = frame.len
  <2>1. PICK a \in Nat, n \in Nat, m \in Nat :
            a = Len(text) /\ n = frame.len /\ m = max_body_length
    BY <1>2, <1>9
  <2>2. ~(n + 1 \in 1 .. a)
    BY <1>9, <1>11, <2>1
  <2>3. a < m + 1 => ~(a + 1 \in 1 .. n)
    BY <1>9, <1>10, <2>1
  <2>4. n < m
    BY <1>2, <2>1
  <2> QED BY <2>1, <2>2, <2>3, <2>4
<1>13. Piece(text, c, frame.start + header_length)
  <2>1. ASSUME NEW k \in 1 .. frame.len PROVE text[k] = rcv[c][k]
    BY <1>9, <1>10, <1>12
  <2> QED BY <1>3, <1>12, <2>1 DEF Piece
<1> DEFINE item == [fd |-> ev.fd, conn |-> c, data |-> text]
<1>14. item \in Post /\ item.conn = c /\ item.data = text /\ posted' = Append(posted, item)
  BY <1>1, <1>7, <1>9 DEF Post
<1> HIDE DEF item
<1> QED BY <1>6, <1>12, <1>13, <1>14

\* A header that is read is the header of a whole frame; a connection that is
\* closed is closed in front of a frame.
LEMMA HeaderPlace ==
    ASSUME EpollInv, spc = "loop", NEW e \in events, ReadHeader(e),
           NEW c \in Conns, NothingLeft(c) \/ FrameLeft(c), Adding(c)' => Adding(c)
    PROVE  NothingLeft(c)' \/ FrameLeft(c)'
<1>1. TypeOK /\ EventsInv
  BY DEF EpollInv
<1>2. PICK d \in Conns : d = files[e.fd] /\ d = e.conn /\ e.fd \in Fds
  BY <1>1, EventIs DEF ReadHeader
<1>3. PICK got \in Reads(d, header_length) :
        \/ /\ Accepted(got, DecodeHeader(HeaderOf(got)))
           /\ body_length_' = DecodeHeader(HeaderOf(got)).body_length_
           /\ rcv' = [rcv EXCEPT ![d] = Rest(d, Len(got))]
           /\ spc' = "body" /\ ev' = e /\ UNCHANGED <<net, files>>
        \/ Close(e.fd) /\ UNCHANGED <<spc, ev>>
  BY <1>2 DEF ReadHeader
<1>4. UNCHANGED <<cli, sent, backlog, posted>> /\ ~Reading(c)
  BY DEF ReadHeader, Reading
<1>5. Handed(c, Len(posted))' = Handed(c, Len(posted))
  BY <1>4 DEF Handed
<1>6. CASE Close(e.fd) /\ UNCHANGED <<spc, ev>>
  <2>1. ~Reading(c)'
    BY <1>6 DEF Reading
  <2>2. CASE c = d
    <3>1. net'[c] = <<>> /\ rcv'[c] = <<>>
      BY <1>1, <1>2, <1>6, <2>2, CloseIs
    <3>2. ~Adding(c)'
      BY <1>2, <1>4, <1>6, <2>2, ClosedIsOver
    <3> QED BY <1>1, <1>4, <2>1, <3>1, <3>2, PlaceLost
  <2>3. CASE c # d
    <3>1. net'[c] = net[c] /\ rcv'[c] = rcv[c]
      <4>1. e.fd \in Fds /\ files[e.fd] = d /\ Close(e.fd)
        BY <1>2, <1>6
      <4>2. \A x \in Conns \ {d} : net'[x] = net[x] /\ rcv'[x] = rcv[x]
        BY <1>1, <4>1, CloseIs
      <4> QED BY <2>3, <4>2
    <3> QED BY <1>4, <1>5, <2>1, <3>1, PlaceKept
  <2> QED BY <2>2, <2>3
<1>7. CASE /\ Accepted(got, DecodeHeader(HeaderOf(got)))
           /\ body_length_' = DecodeHeader(HeaderOf(got)).body_length_
           /\ rcv' = [rcv EXCEPT ![d] = Rest(d, Len(got))]
           /\ spc' = "body" /\ ev' = e /\ UNCHANGED <<net, files>>
  <2>1. CASE c = d
    <3>1. rcv[c] \in Seq(Byte) /\ got \in Reads(c, header_length)
      BY <1>1, <2>1 DEF TypeOK
    <3>2. rcv[c] # <<>>
      <4>1. SUFFICES ASSUME rcv[c] = <<>> PROVE got = <<>>
        BY <1>7 DEF Accepted
      <4>2. Len(rcv[c]) = 0 /\ header_length \in Nat
        BY <4>1, Sizes
      <4>3. got \in Seq(Byte) /\ Len(got) \in 0 .. Len(rcv[c])
        BY <3>1, <4>2, ReadIs, Zenon
      <4> QED BY <4>2, <4>3
    <3>3. FrameLeft(c) /\ FrameFrom(rcv[c], c, LastFrame(c), 0) /\ net[c] = <<>>
      BY <1>4, <3>2 DEF NothingLeft, FrameLeft
    <3>4. LastFrame(c) \in FrameType
      BY <1>1, <3>3, SentIs
    <3>5. /\ DecodeHeader(HeaderOf(got)).body_length_ = LastFrame(c).len
          /\ FrameFrom(Rest(c, Len(got)), c, LastFrame(c), header_length)
      BY <3>1, <3>3, <3>4, HeaderRead
    <3>6. rcv'[c] = Rest(c, Len(got)) /\ net'[c] = <<>>
      BY <1>1, <1>7, <2>1, <3>3 DEF TypeOK
    <3>7. Reading(c)' /\ LastFrame(c)' = LastFrame(c)
      BY <1>2, <1>4, <1>7, <2>1 DEF Reading, LastFrame
    <3>8. body_length_' = LastFrame(c).len
      BY <1>7, <3>5
    <3>9. Handed(c, Len(posted))' + 1 = Len(sent'[c])
      BY <1>4, <1>5, <3>3 DEF FrameLeft
    <3> QED BY <3>5, <3>6, <3>7, <3>8, <3>9 DEF FrameLeft
  <2>2. CASE c # d
    <3>1. net'[c] = net[c] /\ rcv'[c] = rcv[c] /\ ~Reading(c)'
      BY <1>1, <1>2, <1>7, <2>2 DEF TypeOK, Reading
    <3> QED BY <1>4, <1>5, <3>1, PlaceKept
  <2> QED BY <2>1, <2>2
<1> QED BY <1>3, <1>6, <1>7

\* What ReadBody posts: the body of the last frame of the connection, which is
\* the first that had not been posted.
LEMMA BodyPosted ==
    ASSUME Paced, EpollInv, PacedInv, ReadBody
    PROVE  \E c \in Conns, item \in Post :
             /\ Reading(c) /\ item.conn = c /\ posted' = Append(posted, item)
             /\ Handed(c, Len(posted)) + 1 = Len(sent[c])
             /\ Len(item.data) = LastFrame(c).len
             /\ Piece(item.data, c, LastFrame(c).start + header_length)
             /\ net[c] = <<>> /\ rcv'[c] = <<>>
             /\ \A d \in Conns \ {c} : rcv'[d] = rcv[d]
<1>1. TypeOK /\ EventsInv /\ spc = "body"
  BY DEF EpollInv, ReadBody
<1>2. PICK c \in Conns : c = ev.conn
  BY <1>1, BodyIs
<1>3. Reading(c)
  BY <1>1, <1>2 DEF Reading
<1>4. /\ FrameLeft(c) /\ FrameFrom(rcv[c], c, LastFrame(c), header_length)
      /\ body_length_ = LastFrame(c).len /\ net[c] = <<>>
  BY <1>3 DEF PacedInv, NothingLeft, FrameLeft
<1>5. LastFrame(c) \in FrameType /\ Handed(c, Len(posted)) + 1 = Len(sent[c])
  BY <1>1, <1>4, SentIs DEF FrameLeft
<1>6. /\ rcv'[c] = <<>>
      /\ \A d \in Conns \ {c} : rcv'[d] = rcv[d]
      /\ \E item \in Post :
             /\ posted' = Append(posted, item) /\ item.conn = c
             /\ Len(item.data) = LastFrame(c).len
             /\ Piece(item.data, c, LastFrame(c).start + header_length)
  BY <1>2, <1>4, <1>5, BodyRead
<1> QED BY <1>3, <1>4, <1>5, <1>6

LEMMA HandedAppended ==
    ASSUME TypeOK, NEW item \in Post, posted' = Append(posted, item), NEW c
    PROVE  /\ Len(posted) \in Nat /\ Len(posted') = Len(posted) + 1
           /\ \A n \in 1 .. Len(posted) : /\ posted'[n] = posted[n]
                                         /\ Handed(c, n)' = Handed(c, n)
           /\ posted'[Len(posted) + 1] = item
           /\ Handed(c, Len(posted))' =
                  IF item.conn = c THEN Handed(c, Len(posted)) + 1 ELSE Handed(c, Len(posted))
<1>1. posted \in Seq(Post)
  BY DEF TypeOK
<1>2. /\ Len(posted) \in Nat /\ Len(posted') = Len(posted) + 1
      /\ \A n \in 1 .. Len(posted) : posted'[n] = posted[n]
      /\ posted'[Len(posted) + 1] = item
  BY <1>1, Appended
<1>3. /\ \A n \in 0 .. Len(posted) : Count(posted', c, n) = Count(posted, c, n)
      /\ Count(posted', c, Len(posted) + 1) =
             IF item.conn = c THEN Count(posted, c, Len(posted)) + 1
                              ELSE Count(posted, c, Len(posted))
  BY <1>1, CountAppended
<1>4. /\ Handed(c, Len(posted)) = Count(posted, c, Len(posted))
      /\ Handed(c, Len(posted))' = Count(posted', c, Len(posted'))
  BY DEF Handed, Count
<1>5. ASSUME NEW n \in 1 .. Len(posted) PROVE Handed(c, n)' = Handed(c, n)
  <2>1. n \in 0 .. Len(posted)
    BY <1>2
  <2> QED BY <1>3, <2>1, HandedIs
<1> QED BY <1>2, <1>3, <1>4, <1>5

LEMMA BodyPlace ==
    ASSUME Paced, EpollInv, PacedInv, ReadBody, NEW c \in Conns, Adding(c)' => Adding(c)
    PROVE  NothingLeft(c)' \/ FrameLeft(c)'
<1>1. TypeOK
  BY DEF EpollInv
<1>2. PICK d \in Conns, item \in Post :
             /\ Reading(d) /\ item.conn = d /\ posted' = Append(posted, item)
             /\ Handed(d, Len(posted)) + 1 = Len(sent[d])
             /\ net[d] = <<>> /\ rcv'[d] = <<>>
             /\ \A b \in Conns \ {d} : rcv'[b] = rcv[b]
  BY BodyPosted
<1>3. sent' = sent /\ net' = net /\ ~Reading(c)'
  BY DEF ReadBody, clientVars, Reading
<1>4. Handed(c, Len(posted))' =
          IF item.conn = c THEN Handed(c, Len(posted)) + 1 ELSE Handed(c, Len(posted))
  BY <1>1, <1>2, HandedAppended
<1>5. Len(sent[c]) \in Nat
  BY <1>1, SentIs
<1>6. CASE c = d
  BY <1>2, <1>3, <1>4, <1>5, <1>6 DEF NothingLeft
<1>7. CASE c # d
  <2>1. Handed(c, Len(posted))' = Handed(c, Len(posted)) /\ ~Reading(c)
    BY <1>2, <1>4, <1>7 DEF Reading
  <2>2. rcv'[c] = rcv[c]
    BY <1>2, <1>7
  <2>3. NothingLeft(c) \/ FrameLeft(c)
    BY DEF PacedInv
  <2> QED BY <1>3, <2>1, <2>2, <2>3, PlaceKept
<1> QED BY <1>6, <1>7

LEMMA PacedStep == ASSUME Paced, EpollInv, PacedInv, [Next]_vars PROVE PacedInv'
<1>0. TypeOK /\ EventsInv
  BY DEF EpollInv
<1> SUFFICES ASSUME NEW c \in Conns PROVE NothingLeft(c)' \/ FrameLeft(c)'
  BY DEF PacedInv
<1>1. NothingLeft(c) \/ FrameLeft(c)
  BY DEF PacedInv
<1>2. Adding(c)' => Adding(c)
  BY <1>0, AddingBefore
<1>3. CASE /\ rcv'[c] = rcv[c] /\ net'[c] = net[c] /\ sent'[c] = sent[c]
           /\ UNCHANGED <<spc, ev, body_length_, posted>>
  <2>1. Handed(c, Len(posted))' = Handed(c, Len(posted)) /\ (Reading(c)' <=> Reading(c))
    BY <1>3 DEF Handed, Reading
  <2> QED BY <1>1, <1>2, <1>3, <2>1, PlaceKept
<1>4. ASSUME NEW d \in Conns, Client(d) PROVE NothingLeft(c)' \/ FrameLeft(c)'
  <2>0. UNCHANGED <<spc, ev, body_length_, posted>>
    BY <1>4 DEF Client, bufferVars
  <2>1. CASE Connect(d) \/ Finish(d)
    BY <1>3, <2>0, <2>1 DEF Connect, Finish
  <2>2. ASSUME NEW n \in BodyLens, SendFrame(d, n) PROVE NothingLeft(c)' \/ FrameLeft(c)'
    <3>1. CASE c = d
      BY <1>0, <1>1, <2>0, <2>2, <3>1, SendPlace
    <3>2. CASE c # d
      BY <1>0, <1>3, <2>0, <2>2, <3>2 DEF SendFrame, TypeOK
    <3> QED BY <3>1, <3>2
  <2>3. CASE Reset(d)
    <3>1. CASE c = d
      <4>1. cli'[c] = "rst" /\ net'[c] = <<>> /\ rcv'[c] = rcv[c] /\ sent'[c] = sent[c]
        BY <1>0, <2>3, <3>1 DEF Reset, TypeOK
      <4>2. ~Adding(c)'
        BY <4>1 DEF Adding
      <4> QED BY <1>0, <1>1, <2>0, <4>1, <4>2, ResetPlace
    <3>2. CASE c # d
      BY <1>0, <1>3, <2>0, <2>3, <3>2 DEF Reset, TypeOK
    <3> QED BY <3>1, <3>2
  <2> QED BY <1>4, <2>1, <2>2, <2>3 DEF Client
<1>5. ASSUME NEW d \in Conns, Network(d) PROVE NothingLeft(c)' \/ FrameLeft(c)'
  <2>0. Arrive(d) /\ UNCHANGED <<spc, ev, body_length_, posted>>
    BY <1>5 DEF Network, bufferVars
  <2>1. CASE c = d
    BY <1>0, <1>1, <2>0, <2>1, ArrivePlace
  <2>2. CASE c # d
    BY <1>0, <1>3, <2>0, <2>2 DEF Arrive, TypeOK
  <2> QED BY <2>1, <2>2
<1>6. CASE EpollWait
  BY <1>3, <1>6 DEF EpollWait, clientVars, bufferVars
<1>7. ASSUME NEW e \in events, Accept(e) PROVE NothingLeft(c)' \/ FrameLeft(c)'
  BY <1>3, <1>7 DEF Accept, clientVars, bufferVars
<1>8. ASSUME spc = "loop", NEW e \in events, ReadHeader(e)
      PROVE  NothingLeft(c)' \/ FrameLeft(c)'
  BY <1>1, <1>2, <1>8, HeaderPlace
<1>9. ASSUME spc = "loop", NEW e \in events, CloseOnError(e)
      PROVE  NothingLeft(c)' \/ FrameLeft(c)'
  <2>1. PICK d \in Conns : d = files[e.fd] /\ e.fd \in Fds
    BY <1>0, <1>9, EventIs DEF CloseOnError
  <2>2. /\ Close(e.fd) /\ UNCHANGED <<cli, sent, backlog, posted>>
        /\ UNCHANGED <<spc, ev, body_length_>>
    BY <1>9 DEF CloseOnError, bufferVars
  <2>3. CASE c = d
    <3>1. net'[c] = <<>> /\ rcv'[c] = <<>> /\ ~Adding(c)'
      BY <1>0, <2>1, <2>2, <2>3, CloseIs, ClosedIsOver
    <3>2. ~Reading(c)'
      BY <1>9, <2>2 DEF Reading
    <3> QED BY <1>0, <1>1, <2>2, <3>1, <3>2, PlaceLost
  <2>4. CASE c # d
    <3>1. net'[c] = net[c] /\ rcv'[c] = rcv[c]
      BY <1>0, <2>1, <2>2, <2>4, CloseIs
    <3> QED BY <1>3, <2>2, <3>1
  <2> QED BY <2>3, <2>4
<1>10. CASE ReadBody
  BY <1>2, <1>10, BodyPlace
<1>11. CASE UNCHANGED vars
  BY <1>3, <1>11 DEF vars, clientVars, bufferVars
<1> QED BY <1>4, <1>5, <1>6, <1>7, <1>8, <1>9, <1>10, <1>11 DEF Next, Server

\* The frames that a client has sent stay as they are.
LEMMA SentStays ==
    ASSUME TypeOK, [Next]_vars, NEW c \in Conns
    PROVE  /\ Len(sent[c]) \in Nat /\ Len(sent'[c]) \in Nat /\ Len(sent[c]) <= Len(sent'[c])
           /\ \A k \in 1 .. Len(sent[c]) : sent'[c][k] = sent[c][k]
<1>1. sent[c] \in Seq(FrameType) /\ Len(sent[c]) \in Nat
  BY DEF TypeOK
<1>2. CASE sent'[c] = sent[c]
  BY <1>1, <1>2
<1>3. ASSUME NEW d \in Conns, NEW n \in BodyLens, SendFrame(d, n)
      PROVE  /\ Len(sent'[c]) \in Nat /\ Len(sent[c]) <= Len(sent'[c])
             /\ \A k \in 1 .. Len(sent[c]) : sent'[c][k] = sent[c][k]
  <2>1. CASE c = d
    <3>1. sent'[c] = Append(sent[c], [start |-> Written(c), len |-> n])
      BY <1>3, <2>1 DEF SendFrame, TypeOK
    <3>2. [start |-> Written(c), len |-> n] \in FrameType
      BY <1>1, WrittenIs DEF FrameType
    <3>3. /\ Len(sent'[c]) = Len(sent[c]) + 1
          /\ \A k \in 1 .. Len(sent[c]) : sent'[c][k] = sent[c][k]
      BY <1>1, <3>1, <3>2, Appended
    <3> QED BY <1>1, <3>3
  <2>2. CASE c # d
    BY <1>2, <1>3, <2>2 DEF SendFrame, TypeOK
  <2> QED BY <2>1, <2>2
<1>4. ASSUME NEW d \in Conns, Client(d)
      PROVE  \/ sent' = sent
             \/ \E n \in BodyLens : SendFrame(d, n)
  BY <1>4 DEF Client, Connect, Finish, Reset
<1>5. ASSUME NEW d \in Conns, Network(d) PROVE sent' = sent
  BY <1>5 DEF Network, Arrive
<1>6. CASE Server
  BY <1>2, <1>6 DEF Server, EpollWait, Accept, ReadHeader, CloseOnError, ReadBody, clientVars
<1>7. CASE UNCHANGED vars
  BY <1>2, <1>7 DEF vars, clientVars
<1> QED BY <1>1, <1>2, <1>3, <1>4, <1>5, <1>6, <1>7 DEF Next

LEMMA IntactStep ==
    ASSUME Paced, EpollInv, PacedInv, FramesIntact, [Next]_vars
    PROVE  FramesIntact'
<1>1. TypeOK
  BY DEF EpollInv
<1>2. posted \in Seq(Post) /\ Len(posted) \in Nat
  BY <1>1 DEF TypeOK
\* What was posted stays intact.
<1>3. ASSUME NEW n \in 1 .. Len(posted), posted'[n] = posted[n],
             Handed(posted[n].conn, n)' = Handed(posted[n].conn, n)
      PROVE  Intact(posted[n], Handed(posted[n].conn, n))'
  <2>1. PICK c \in Conns : c = posted[n].conn
    <3>1. posted[n] \in Post
      BY <1>2
    <3> QED BY <3>1 DEF Post
  <2>2. PICK k : k = Handed(c, n)
    OBVIOUS
  <2>3. k \in Nat \ {0}
    <3>1. k = Count(posted, c, n) /\ n \in Nat /\ n \in 1 .. n
      BY <1>2, <2>2, HandedIs
    <3> QED BY <2>1, <3>1, CountIsNat
  <2>4. Intact(posted[n], k)
    BY <2>1, <2>2 DEF FramesIntact
  <2>5. k \in 1 .. Len(sent[c]) /\ k <= Len(sent'[c]) /\ sent'[c][k] = sent[c][k]
    <3>1. /\ Len(sent[c]) \in Nat /\ Len(sent'[c]) \in Nat /\ Len(sent[c]) <= Len(sent'[c])
          /\ \A j \in 1 .. Len(sent[c]) : sent'[c][j] = sent[c][j]
      BY <1>1, SentStays
    <3>2. k <= Len(sent[c])
      BY <2>1, <2>4 DEF Intact
    <3> QED BY <2>3, <3>1, <3>2
  <2>6. Handed(posted[n].conn, n)' = k
    BY <1>3, <2>1, <2>2
  <2> QED BY <1>3, <2>1, <2>4, <2>5, <2>6 DEF Intact, Piece
<1>4. CASE posted' = posted
  <2>1. ASSUME NEW n \in 1 .. Len(posted')
        PROVE  Intact(posted[n], Handed(posted[n].conn, n))'
    <3>1. Handed(posted[n].conn, n)' = Handed(posted[n].conn, n)
      BY <1>4 DEF Handed
    <3> QED BY <1>3, <1>4, <3>1
  <2> QED BY <2>1 DEF FramesIntact
<1>5. CASE ReadBody
  <2>1. PICK c \in Conns, item \in Post :
             /\ item.conn = c /\ posted' = Append(posted, item)
             /\ Handed(c, Len(posted)) + 1 = Len(sent[c])
             /\ Len(item.data) = LastFrame(c).len
             /\ Piece(item.data, c, LastFrame(c).start + header_length)
    BY <1>5, BodyPosted
  <2>2. ASSUME NEW d
        PROVE  /\ Len(posted') = Len(posted) + 1
               /\ \A n \in 1 .. Len(posted) : /\ posted'[n] = posted[n]
                                             /\ Handed(d, n)' = Handed(d, n)
               /\ posted'[Len(posted) + 1] = item
               /\ Handed(d, Len(posted))' = IF item.conn = d THEN Handed(d, Len(posted)) + 1
                                                            ELSE Handed(d, Len(posted))
    BY <1>1, <2>1, HandedAppended
  <2>3. ASSUME NEW n \in 1 .. Len(posted)
        PROVE  Intact(posted[n], Handed(posted[n].conn, n))'
    <3>1. PICK d : d = posted[n].conn
      OBVIOUS
    <3>2. posted'[n] = posted[n] /\ Handed(d, n)' = Handed(d, n)
      BY <2>2
    <3>3. Handed(posted[n].conn, n)' = Handed(posted[n].conn, n)
      BY <3>1, <3>2 DEF Handed
    <3> QED BY <1>3, <3>2, <3>3
  <2>4. Intact(item, Len(sent[c]))'
    <3>1. sent' = sent
      BY <1>5 DEF ReadBody, clientVars
    <3>2. Len(sent[c]) \in Nat
      BY <1>1, SentIs
    <3> QED BY <2>1, <3>1, <3>2 DEF Intact, LastFrame, Piece
  <2>5. ASSUME NEW n \in 1 .. Len(posted'), n = Len(posted) + 1
        PROVE  Intact(posted[n], Handed(posted[n].conn, n))'
    <3>1. posted'[n] = item /\ item.conn = c /\ n = Len(posted')
      BY <2>1, <2>2, <2>5
    <3>2. Handed(c, Len(posted))' = Len(sent[c])
      BY <2>1, <2>2
    <3>3. Handed(posted[n].conn, n)' = Handed(c, Len(posted))'
      BY <3>1 DEF Handed
    <3>4. sent' = sent
      BY <1>5 DEF ReadBody, clientVars
    <3> QED BY <2>4, <3>1, <3>2, <3>3, <3>4 DEF Intact
  <2>6. \A n \in 1 .. Len(posted') : n \in 1 .. Len(posted) \/ n = Len(posted) + 1
    BY <1>2, <2>2
  <2> QED BY <2>3, <2>5, <2>6 DEF FramesIntact
<1>6. posted' = posted \/ ReadBody
  BY DEF Next, Client, Network, Server, EpollWait, Accept, ReadHeader, CloseOnError, vars
<1> QED BY <1>4, <1>5, <1>6

LEMMA PacedInit == Init => PacedInv /\ FramesIntact
<1> SUFFICES ASSUME Init PROVE PacedInv /\ FramesIntact
  OBVIOUS
<1>1. posted = <<>> /\ Len(posted) = 0
  BY DEF Init
<1>2. ASSUME NEW c \in Conns PROVE NothingLeft(c)
  <2>1. net[c] = <<>> /\ rcv[c] = <<>> /\ sent[c] = <<>> /\ ~Reading(c)
    BY <1>2 DEF Init, Reading
  <2>2. Handed(c, 0) = 0
    <3>1. {m \in 1 .. 0 : posted[m].conn = c} = {}
      OBVIOUS
    <3> QED BY <3>1, FS_EmptySet DEF Handed
  <2>3. Handed(c, Len(posted)) = 0 /\ Len(sent[c]) = 0
    BY <1>1, <2>1, <2>2
  <2> QED BY <2>1, <2>3 DEF NothingLeft
<1>3. FramesIntact
  BY <1>1 DEF FramesIntact
<1> QED BY <1>2, <1>3 DEF PacedInv

(***************************************************************************)
(* For any number of clients, descriptors and frames, and for connections  *)
(* that end or are reset at any time: if clients wait until the server has *)
(* read their last frame, frames arrive whole and bodies leave room for a  *)
(* NUL, then the k-th item of a connection is the body of the k-th frame   *)
(* that its client sent.  The server stays in step with the frames,        *)
(* although it asks for one byte more than a body has (game.cpp:289).      *)
(***************************************************************************)
THEOREM PacedFramesIntact == Paced => (Spec => []FramesIntact)
<1> SUFFICES ASSUME Paced PROVE Spec => []FramesIntact
  OBVIOUS
<1>1. Init => EpollInv /\ PacedInv /\ FramesIntact
  BY EpollInit, PacedInit
<1>2. EpollInv /\ PacedInv /\ FramesIntact /\ [Next]_vars
          => (EpollInv /\ PacedInv /\ FramesIntact)'
  BY EpollStep, PacedStep, IntactStep
<1> QED BY <1>1, <1>2, PTL DEF Spec
=============================================================================
