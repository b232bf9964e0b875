----------------------------- MODULE SocketMsg -----------------------------
(***************************************************************************)
(* socket_msg.h: the header in front of every message.  It is four         *)
(* characters, the length of the body as sprintf("%4d") prints it, and is  *)
(* read back with atoi.  Characters are their codes.                       *)
(***************************************************************************)
EXTENDS Integers, Sequences, FiniteSetsExt

CONSTANTS
    max_body_length,  \* 1024 in the code
    SIZE_MOD          \* 2^w where w is the width of size_t

header_length == 4

\* A length always fits the header, and a negative number that is taken for a
\* size_t is larger than any length.
ASSUME MaxBodyAssumption == max_body_length \in Nat \ {0} /\ max_body_length <= 9999
ASSUME SizeAssumption == SIZE_MOD \in Nat /\ SIZE_MOD > 9999 + max_body_length

NUL == 0
Plus == 43
Minus == 45
Spaces == (9 .. 13) \cup {32}
Digits == 48 .. 57

\* The setter body_length(): a longer text is cut.
BodyLength(n) == IF n > max_body_length THEN max_body_length ELSE n

\* What a digit counts at each place of the header.
Units == <<1000, 100, 10, 1>>

EncodeHeader(n) ==
    [k \in 1 .. header_length |->
        IF n >= Units[k] \/ k = header_length THEN 48 + ((n \div Units[k]) % 10)
                                              ELSE 32]

\* The first position from k on whose character is not one of chars.
SkipFrom(s, k, chars) ==
    Min({j \in k .. header_length + 1 : j = header_length + 1 \/ s[j] \notin chars})

\* At each place, the number that the digits from first on make up to there.
Values(s, first) ==
    LET value[k \in 0 .. header_length] ==
            IF k < first THEN 0 ELSE 10 * value[k - 1] + (s[k] - 48)
    IN  value

\* Mutant: leading spaces are not skipped.
AtoiStrict(s) == Values(s, 1)[SkipFrom(s, 1, Digits) - 1]

\* strncat and the C library's atoi on the header: spaces, a sign, digits;
\* whatever follows is ignored, no digits at all is 0, and NUL ends the string
\* as any other character ends the number.
Atoi(s) ==
    LET sign == SkipFrom(s, 1, Spaces)
        signed == sign <= header_length /\ s[sign] \in {Plus, Minus}
        first == IF signed THEN sign + 1 ELSE sign
        number == Values(s, first)[SkipFrom(s, first, Digits) - 1]
    IN  IF signed /\ s[sign] = Minus THEN -number ELSE number

\* Mutant: the length is compared as a signed number.
DecodeHeaderSigned(header) ==
    LET n == Atoi(header) IN
    IF n > max_body_length THEN [ok |-> FALSE, body_length_ |-> 0]
                           ELSE [ok |-> TRUE, body_length_ |-> n]

\* The int that atoi returns is assigned to a size_t before it is compared.
DecodeHeader(header) ==
    LET n == Atoi(header) % SIZE_MOD IN
    IF n > max_body_length THEN [ok |-> FALSE, body_length_ |-> 0]
                           ELSE [ok |-> TRUE, body_length_ |-> n]
=============================================================================
