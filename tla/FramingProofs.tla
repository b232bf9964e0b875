--------------------------- MODULE FramingProofs ---------------------------
(***************************************************************************)
(* What a message from one socket_msg to another comes to, for texts of    *)
(* any length, any bytes of a foreign peer and any max_body_length that    *)
(* four digits can express.                                                *)
(***************************************************************************)
EXTENDS Framing, SocketMsgProofs

\* What is on the wire is the header of the length that the text was cut to.
WireInv ==
    /\ at \in {"begin", "encode", "wire", "short", "decoded"}
    /\ text \in TextLengths \cup {Foreign}
    /\ at = "encode" => text # Foreign
    /\ text # Foreign /\ at # "begin" => out = BodyLength(text)
    /\ at = "wire" /\ text # Foreign => wire = EncodeHeader(out)
    /\ at = "wire" /\ text = Foreign => wire \in [1 .. header_length -> Chars]

FramingInv == WireInv /\ RoundTrip /\ AcceptedFits /\ ShortIsShorter

LEMMA LengthFits ==
    ASSUME NEW n \in Nat
    PROVE  BodyLength(n) \in 0 .. max_body_length /\ BodyLength(n) = Min({n, max_body_length})
<1>1. max_body_length \in Nat
  BY MaxBodyAssumption
<1>2. BodyLength(n) \in 0 .. max_body_length
  BY <1>1 DEF BodyLength
<1>3. BodyLength(n) = Min({n, max_body_length})
  <2>1. /\ {n, max_body_length} \in SUBSET Int /\ BodyLength(n) \in {n, max_body_length}
        /\ \A j \in {n, max_body_length} : BodyLength(n) <= j
    BY <1>1 DEF BodyLength
  <2> QED BY <2>1, MinIs
<1> QED BY <1>2, <1>3

LEMMA TextIsLength == \A t \in TextLengths \cup {Foreign} : t # Foreign => t \in Nat
BY TextsAssumption

\* What the receiver makes of any bytes.
LEMMA ReceiveKeeps ==
    ASSUME FramingInv, NEW k \in 1 .. header_length, Receive(k) PROVE FramingInv'
<1>1. k \in 1 .. 4 /\ in' = DecodeHeader(Cut(wire, k)) /\ UNCHANGED <<text, out, wire>>
  BY DEF Receive, Cut, header_length
<1>2. at = "wire" /\ at' = IF k = 4 THEN "decoded" ELSE "short"
  BY DEF Receive, header_length
<1>3. WireInv'
  BY <1>1, <1>2 DEF FramingInv, WireInv
<1>4. CASE text = Foreign
  <2>1. Cut(wire, k) \in Header
    <3>1. \A j \in 1 .. 4 : wire[j] \in 0 .. 127
      BY <1>2, <1>4, CharsAssumption DEF FramingInv, WireInv, header_length
    <3> QED BY <3>1 DEF Cut, Header, header_length, NUL
  <2>2. in' \in [ok : BOOLEAN, body_length_ : 0 .. max_body_length]
    BY <1>1, <2>1, DecodeFits
  <2>3. AcceptedFits'
    BY <2>2 DEF AcceptedFits
  <2> QED BY <1>1, <1>3, <1>4, <2>3 DEF FramingInv, RoundTrip, ShortIsShorter
<1>5. CASE text # Foreign
  <2>1. text \in Nat
    BY <1>5, TextIsLength DEF FramingInv, WireInv
  <2>2. PICK n \in 0 .. max_body_length : n = out /\ n = Min({text, max_body_length})
    BY <1>2, <1>5, <2>1, LengthFits DEF FramingInv, WireInv
  <2>3. wire = EncodeHeader(n)
    BY <1>2, <1>5, <2>2 DEF FramingInv, WireInv
  <2>4. /\ in'.ok = TRUE
        /\ k = 4 => in'.body_length_ = n
        /\ k # 4 => in'.body_length_ <= n \div 10
    BY <1>1, <2>3, DecodeOfCut
  <2>5. in' \in [ok : BOOLEAN, body_length_ : 0 .. max_body_length]
    <3>1. n \in Lengths
      BY MaxBodyAssumption DEF Lengths
    <3>2. Cut(wire, k) \in Header
      BY <1>1, <2>3, <3>1, CutIsHeader
    <3> QED BY <1>1, <3>2, DecodeFits
  <2>6. AcceptedFits' /\ ShortIsShorter'
    BY <1>1, <1>2, <2>2, <2>4, <2>5 DEF AcceptedFits, ShortIsShorter
  <2>7. RoundTrip'
    <3>1. k = 4 => in' = [ok |-> TRUE, body_length_ |-> n]
      BY <2>4, <2>5
    <3> QED BY <1>1, <1>2, <2>2, <3>1 DEF RoundTrip
  <2> QED BY <1>3, <2>6, <2>7 DEF FramingInv
<1> QED BY <1>4, <1>5

LEMMA FramingStep == FramingInv /\ [Next]_vars => FramingInv'
<1> SUFFICES ASSUME FramingInv, [Next]_vars PROVE FramingInv'
  OBVIOUS
<1>1. CASE SetLength
  BY <1>1 DEF SetLength, FramingInv, WireInv, RoundTrip, AcceptedFits, ShortIsShorter
<1>2. CASE Encode
  BY <1>2 DEF Encode, FramingInv, WireInv, RoundTrip, AcceptedFits, ShortIsShorter
<1>3. CASE SendForeign
  BY <1>3 DEF SendForeign, FramingInv, WireInv, RoundTrip, AcceptedFits, ShortIsShorter
<1>4. CASE UNCHANGED vars
  BY <1>4 DEF vars, FramingInv, WireInv, RoundTrip, AcceptedFits, ShortIsShorter
<1> QED BY <1>1, <1>2, <1>3, <1>4, ReceiveKeeps DEF Next

LEMMA FramingHolds == Spec => []FramingInv
<1>1. Init => FramingInv
  BY MaxBodyAssumption
     DEF Init, NotDecoded, FramingInv, WireInv, RoundTrip, AcceptedFits, ShortIsShorter
<1> QED BY <1>1, FramingStep, PTL DEF Spec

\* A text of any length is read back with the length it was cut to.
THEOREM LengthsSurvive == Spec => []RoundTrip
<1>1. FramingInv => RoundTrip
  BY DEF FramingInv
<1> QED BY <1>1, FramingHolds, PTL

\* Whatever bytes a peer sends, and however few of them arrive, decode_header
\* accepts no length beyond the buffer.
THEOREM AcceptedAlwaysFits == Spec => []AcceptedFits
<1>1. FramingInv => AcceptedFits
  BY DEF FramingInv
<1> QED BY <1>1, FramingHolds, PTL

\* A header that was cut short never stands for a longer body.
THEOREM ShortIsNeverLonger == Spec => []ShortIsShorter
<1>1. FramingInv => ShortIsShorter
  BY DEF FramingInv
<1> QED BY <1>1, FramingHolds, PTL
=============================================================================
