------------------------------ MODULE Framing ------------------------------
(***************************************************************************)
(* One message from one socket_msg to another.  The sender (main() of      *)
(* chat_client.cpp for a line, send_data of game.cpp for a reply) sets the *)
(* length, fills the body and encodes the header.  The receiver clears its *)
(* socket_msg, reads up to four bytes and decodes them.  The bytes may     *)
(* also come from a peer that did not use socket_msg.                      *)
(***************************************************************************)
EXTENDS SocketMsg

CONSTANTS
    TextLengths,  \* how long the texts may be that are sent
    Chars         \* the characters a foreign peer may send

ASSUME TextsAssumption == TextLengths \subseteq Nat
ASSUME CharsAssumption == Chars \subseteq 0 .. 127

VARIABLES
    at,       \* how far the message has come
    text,     \* the length of the text to be sent, or Foreign
    out,      \* the sender's body_length_
    wire,     \* the header bytes sent
    in        \* what decode_header left in the receiver

vars == <<at, text, out, wire, in>>

Foreign == -1
NotDecoded == [ok |-> FALSE, body_length_ |-> 0]

Init ==
    /\ at = "begin"
    /\ text \in TextLengths \cup {Foreign}
    /\ out = 0
    /\ wire = <<>>
    /\ in = NotDecoded

\* msg.body_length(strlen(line)), and as many bytes are copied.
SetLength ==
    /\ at = "begin"
    /\ text # Foreign
    /\ out' = BodyLength(text)
    /\ at' = "encode"
    /\ UNCHANGED <<text, wire, in>>

Encode ==
    /\ at = "encode"
    /\ wire' = EncodeHeader(out)
    /\ at' = "wire"
    /\ UNCHANGED <<text, out, in>>

SendForeign ==
    /\ at = "begin"
    /\ text = Foreign
    /\ \E header \in [1 .. header_length -> Chars] : wire' = header
    /\ at' = "wire"
    /\ UNCHANGED <<text, out, in>>

\* Mutant: delete_msg does not clear the header bytes (they hold a digit).
ReceiveStale(k) ==
    /\ at = "wire"
    /\ in' = DecodeHeader([j \in 1 .. header_length |->
                               IF j <= k THEN wire[j] ELSE 57])
    /\ at' = IF k = header_length THEN "decoded" ELSE "short"
    /\ UNCHANGED <<text, out, wire>>

\* delete_msg, a read() that returns k bytes, and decode_header.
Receive(k) ==
    /\ at = "wire"
    /\ in' = DecodeHeader([j \in 1 .. header_length |->
                               IF j <= k THEN wire[j] ELSE NUL])
    /\ at' = IF k = header_length THEN "decoded" ELSE "short"
    /\ UNCHANGED <<text, out, wire>>

Next == SetLength \/ Encode \/ SendForeign \/ \E k \in 1 .. header_length : Receive(k)

Spec == Init /\ [][Next]_vars

-----------------------------------------------------------------------------
(* Properties.                                                             *)

\* A text of any length arrives with the length it was cut to: no length is
\* refused, and none is taken for another (encode_header, decode_header).
RoundTrip ==
    at = "decoded" /\ text # Foreign
        => in = [ok |-> TRUE,
                 body_length_ |-> Min({text, max_body_length})]

\* Whatever four bytes arrive, and however few of them, the length that
\* decode_header accepts fits the buffer of socket_msg.
AcceptedFits == in.ok => in.body_length_ \in 0 .. max_body_length

\* A header that was cut short is taken for a shorter body, never a longer
\* one: the missing bytes are NUL.
ShortIsShorter ==
    at = "short" /\ text # Foreign
        => in.ok /\ in.body_length_ <= out \div 10
=============================================================================
