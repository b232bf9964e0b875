-------------------------- MODULE SocketMsgProofs --------------------------
(***************************************************************************)
(* What the header of socket_msg says of every length and of every four    *)
(* bytes.                                                                  *)
(***************************************************************************)
EXTENDS SocketMsg, TLAPS

\* A header as the code sees it.
Header == [1 .. header_length -> 0 .. 127]

-----------------------------------------------------------------------------
(* atoi.                                                                   *)

\* The least element of a set is what Min returns.
LEMMA MinIs ==
    ASSUME NEW S \in SUBSET Int, NEW p \in S, \A j \in S : p <= j
    PROVE  Min(S) = p
<1>1. Min(S) \in S /\ \A j \in S : Min(S) <= j
  BY DEF Min
<1>2. Min(S) \in Int /\ p \in Int /\ Min(S) <= p /\ p <= Min(S)
  BY <1>1
<1> QED BY <1>2

\* SkipFrom stops at the first character that is not skipped.
LEMMA SkipIs ==
    ASSUME NEW s, NEW k \in 1 .. header_length + 1, NEW chars,
           NEW p \in k .. header_length + 1,
           p = header_length + 1 \/ s[p] \notin chars,
           \A j \in k .. p - 1 : s[j] \in chars
    PROVE  SkipFrom(s, k, chars) = p
<1> DEFINE S == {j \in k .. header_length + 1 : j = header_length + 1 \/ s[j] \notin chars}
<1>1. S \in SUBSET Int /\ p \in S
  BY DEF header_length
<1>2. \A j \in S : p <= j
  BY DEF header_length
<1>3. Min(S) = p
  BY <1>1, <1>2, MinIs
<1> QED BY <1>3 DEF SkipFrom

\* It stops somewhere.
LEMMA SkipStops ==
    ASSUME NEW s, NEW k \in 1 .. header_length + 1, NEW chars
    PROVE  SkipFrom(s, k, chars) \in k .. header_length + 1
<1> DEFINE Stop(p) == p = header_length + 1 \/ s[p] \notin chars
<1>1. \E p \in k .. header_length + 1 : Stop(p) /\ \A j \in k .. p - 1 : ~Stop(j)
  <2>1. Stop(5) /\ k \in 1 .. 5 /\ header_length + 1 = 5
    BY DEF header_length
  <2> HIDE DEF Stop
  <2> QED BY <2>1
<1>2. PICK p \in k .. header_length + 1 : Stop(p) /\ \A j \in k .. p - 1 : ~Stop(j)
  BY <1>1
<1>3. SkipFrom(s, k, chars) = p
  BY <1>2, SkipIs DEF header_length
<1> QED BY <1>3

\* The recursion of Values: it has a solution, which each place determines from
\* the one before it.
LEMMA ValuesAre ==
    ASSUME NEW s \in [1 .. header_length -> Int], NEW first \in 1 .. header_length + 1
    PROVE  /\ Values(s, first) \in [0 .. header_length -> Int]
           /\ \A k \in 0 .. header_length :
                  Values(s, first)[k] = IF k < first THEN 0
                                        ELSE 10 * Values(s, first)[k - 1] + (s[k] - 48)
<1> DEFINE Right(f) == f = [k \in 0 .. header_length |->
                                IF k < first THEN 0 ELSE 10 * f[k - 1] + (s[k] - 48)]
           v1 == IF 1 < first THEN 0 ELSE s[1] - 48
           v2 == IF 2 < first THEN 0 ELSE 10 * v1 + (s[2] - 48)
           v3 == IF 3 < first THEN 0 ELSE 10 * v2 + (s[3] - 48)
           v4 == IF 4 < first THEN 0 ELSE 10 * v3 + (s[4] - 48)
           g == [k \in 0 .. 4 |-> IF k = 0 THEN 0 ELSE IF k = 1 THEN v1
                                  ELSE IF k = 2 THEN v2 ELSE IF k = 3 THEN v3 ELSE v4]
<1>1. /\ s[1] \in Int /\ s[2] \in Int /\ s[3] \in Int /\ s[4] \in Int
      /\ first \in 1 .. 5
  BY DEF header_length
<1>2. v1 \in Int /\ v2 \in Int /\ v3 \in Int /\ v4 \in Int
  <2>1. v1 \in Int
    BY <1>1
  <2> HIDE DEF v1
  <2>2. v2 \in Int
    BY <1>1, <2>1
  <2> HIDE DEF v2
  <2>3. v3 \in Int
    BY <1>1, <2>2
  <2> HIDE DEF v3
  <2> QED BY <1>1, <2>1, <2>2, <2>3
<1>3. /\ v1 = IF 1 < first THEN 0 ELSE 10 * 0 + (s[1] - 48)
      /\ v2 = IF 2 < first THEN 0 ELSE 10 * v1 + (s[2] - 48)
      /\ v3 = IF 3 < first THEN 0 ELSE 10 * v2 + (s[3] - 48)
      /\ v4 = IF 4 < first THEN 0 ELSE 10 * v3 + (s[4] - 48)
  BY <1>1
<1> HIDE DEF v1, v2, v3, v4
<1>4. ASSUME NEW k \in 0 .. 4
      PROVE  g[k] = IF k < first THEN 0 ELSE 10 * g[k - 1] + (s[k] - 48)
  <2>1. g[0] = 0 /\ g[1] = v1 /\ g[2] = v2 /\ g[3] = v3 /\ g[4] = v4
    OBVIOUS
  <2> HIDE DEF g
  <2>2. CASE k = 0
    BY <1>1, <2>1, <2>2
  <2>3. CASE k = 1
    BY <1>3, <2>1, <2>3
  <2>4. CASE k = 2
    BY <1>3, <2>1, <2>4
  <2>5. CASE k = 3
    BY <1>3, <2>1, <2>5
  <2>6. CASE k = 4
    BY <1>3, <2>1, <2>6
  <2> QED BY <2>2, <2>3, <2>4, <2>5, <2>6
<1>5. Right(g)
  BY <1>4 DEF header_length
<1>6. Values(s, first) = CHOOSE f : Right(f)
  BY DEF Values
<1>7. Right(Values(s, first))
  <2> HIDE DEF Right
  <2> QED BY <1>5, <1>6
<1> DEFINE f == Values(s, first)
<1>8. \A k \in 0 .. 4 : f[k] = IF k < first THEN 0 ELSE 10 * f[k - 1] + (s[k] - 48)
  BY <1>7 DEF header_length
<1>9. f[0] \in Int /\ f[1] \in Int /\ f[2] \in Int /\ f[3] \in Int /\ f[4] \in Int
  <2> HIDE DEF f
  <2>1. f[0] = 0
    BY <1>1, <1>8
  <2>2. f[1] \in Int
    BY <1>1, <1>8, <2>1
  <2>3. f[2] \in Int
    BY <1>1, <1>8, <2>2, SMTT(30)
  <2>4. f[3] \in Int
    BY <1>1, <1>8, <2>3
  <2>5. f[4] \in Int
    BY <1>1, <1>8, <2>4
  <2> QED BY <2>1, <2>2, <2>3, <2>4, <2>5
<1>10. f \in [0 .. 4 -> Int]
  BY <1>7, <1>8, <1>9 DEF header_length
<1> QED BY <1>8, <1>10 DEF header_length

LEMMA AtoiIsInt == \A s \in Header : Atoi(s) \in Int
<1> SUFFICES ASSUME NEW s \in Header PROVE Atoi(s) \in Int
  OBVIOUS
<1> DEFINE sign == SkipFrom(s, 1, Spaces)
           signed == sign <= header_length /\ s[sign] \in {Plus, Minus}
           first == IF signed THEN sign + 1 ELSE sign
           end == SkipFrom(s, first, Digits)
           number == Values(s, first)[end - 1]
<1>1. s \in [1 .. header_length -> Int]
  BY DEF Header, header_length
<1>2. sign \in 1 .. header_length + 1
  BY SkipStops DEF header_length
<1>3. first \in 1 .. header_length + 1
  <2> HIDE DEF sign
  <2> QED BY <1>2 DEF header_length
<1>4. end \in 1 .. header_length + 1
  <2> HIDE DEF first
  <2>1. end \in first .. header_length + 1
    BY <1>3, SkipStops
  <2> HIDE DEF end
  <2> QED BY <1>3, <2>1 DEF header_length
<1>5. number \in Int
  <2> HIDE DEF first, end
  <2>1. end - 1 \in 0 .. header_length
    BY <1>4 DEF header_length
  <2>2. Values(s, first) \in [0 .. header_length -> Int]
    BY <1>1, <1>3, ValuesAre
  <2> QED BY <2>1, <2>2
<1>6. Atoi(s) = IF signed /\ s[sign] = Minus THEN -number ELSE number
  BY DEF Atoi
<1> HIDE DEF number, signed, sign
<1> QED BY <1>5, <1>6

\* Whatever four bytes come, the length that decode_header accepts fits the
\* buffer: also a negative number, which is a large size_t.
LEMMA DecodeFits ==
    ASSUME NEW header \in Header
    PROVE  /\ DecodeHeader(header) \in [ok : BOOLEAN, body_length_ : 0 .. max_body_length]
           /\ Atoi(header) \in 0 .. max_body_length
                  => DecodeHeader(header) = [ok |-> TRUE, body_length_ |-> Atoi(header)]
<1> DEFINE n == Atoi(header) % SIZE_MOD
<1>1. Atoi(header) \in Int /\ SIZE_MOD \in Nat \ {0} /\ max_body_length \in Nat
  BY AtoiIsInt, MaxBodyAssumption, SizeAssumption
<1>2. n \in Nat
  BY <1>1
<1>3. Atoi(header) \in 0 .. max_body_length => n = Atoi(header)
  BY <1>1, MaxBodyAssumption, SizeAssumption
<1>4. DecodeHeader(header) = IF n > max_body_length THEN [ok |-> FALSE, body_length_ |-> 0]
                                                   ELSE [ok |-> TRUE, body_length_ |-> n]
  BY DEF DecodeHeader
<1> HIDE DEF n
<1>5. DecodeHeader(header) \in [ok : BOOLEAN, body_length_ : 0 .. max_body_length]
  BY <1>1, <1>2, <1>4
<1>6. ASSUME Atoi(header) \in 0 .. max_body_length
      PROVE  DecodeHeader(header) = [ok |-> TRUE, body_length_ |-> Atoi(header)]
  <2>1. n = Atoi(header)
    BY <1>3, <1>6
  <2>2. ~(n > max_body_length)
    BY <1>1, <1>6, <2>1
  <2> QED BY <1>4, <2>1, <2>2
<1> QED BY <1>5, <1>6

-----------------------------------------------------------------------------
(* What atoi makes of a header that encode_header wrote.                   *)

\* The numbers that fit the header.
Lengths == {n \in Nat : n <= 9999}

LEMMA UnitsAre ==
    Units[1] = 1000 /\ Units[2] = 100 /\ Units[3] = 10 /\ Units[4] = 1
BY DEF Units

\* The number up to each place of the header: n without its last digits.
IsUpto(n, d) ==
    /\ d[0] = 0 /\ d[4] = n
    /\ \A k \in 1 .. 4 : /\ d[k] = n \div Units[k]
                         /\ d[k] % 10 \in 0 .. 9
                         /\ d[k] = 10 * d[k - 1] + (d[k] % 10)
                         /\ n < Units[k] => d[k] = 0
    /\ \A k \in 1 .. 3 : d[k] <= n \div 10

LEMMA UptoExists ==
    ASSUME NEW n \in Lengths
    PROVE  \E d \in [0 .. 4 -> Nat] : IsUpto(n, d)
<1> DEFINE d1 == n \div 1000
           d2 == n \div 100
           d3 == n \div 10
           d == [k \in 0 .. 4 |-> IF k = 0 THEN 0 ELSE IF k = 1 THEN d1 ELSE
                                  IF k = 2 THEN d2 ELSE IF k = 3 THEN d3 ELSE n]
<1>1. n \in Nat /\ n <= 9999
  BY DEF Lengths
<1>2. n \div 1 = n
  BY <1>1
<1>3. d1 \in Nat /\ d1 <= 9
  BY <1>1
<1>4. d2 \in Nat /\ d2 <= 99
  BY <1>1
<1>5. d3 \in Nat /\ d3 <= 999
  BY <1>1
<1>6. d2 = 10 * d1 + (d2 % 10)
  BY <1>1
<1>7. d3 = 10 * d2 + (d3 % 10)
  BY <1>1
<1>8. n = 10 * d3 + (n % 10)
  BY <1>1
<1>9. /\ n < 1000 => d1 = 0
      /\ n < 100 => d2 = 0
      /\ n < 10 => d3 = 0
      /\ n < 1 => n = 0
  <2>1. n < 1000 => d1 = 0
    BY <1>1
  <2>2. n < 100 => d2 = 0
    BY <1>1
  <2>3. n < 10 => d3 = 0
    BY <1>1
  <2> QED BY <1>1, <2>1, <2>2, <2>3
<1>10. /\ d[0] = 0 /\ d[1] = d1 /\ d[2] = d2 /\ d[3] = d3 /\ d[4] = n
  OBVIOUS
<1>11. /\ n \div Units[1] = d1 /\ n \div Units[2] = d2 /\ n \div Units[3] = d3
       /\ n \div Units[4] = n
  BY <1>2, UnitsAre
<1> HIDE DEF d1, d2, d3
<1>12. d \in [0 .. 4 -> Nat]
  BY <1>1, <1>3, <1>4, <1>5
<1>13. d1 % 10 = d1 /\ d1 <= d3 /\ d2 <= d3
  BY <1>3, <1>4, <1>5, <1>6, <1>7
<1> HIDE DEF d
<1>14. ASSUME NEW k \in 1 .. 4
       PROVE  /\ d[k] = n \div Units[k]
              /\ d[k] % 10 \in 0 .. 9
              /\ d[k] = 10 * d[k - 1] + (d[k] % 10)
              /\ n < Units[k] => d[k] = 0
  <2>1. CASE k = 1
    BY <1>3, <1>9, <1>10, <1>11, <1>13, <2>1, UnitsAre
  <2>2. CASE k = 2
    BY <1>4, <1>6, <1>9, <1>10, <1>11, <2>2, UnitsAre
  <2>3. CASE k = 3
    BY <1>5, <1>7, <1>9, <1>10, <1>11, <2>3, UnitsAre
  <2>4. CASE k = 4
    BY <1>1, <1>8, <1>9, <1>10, <1>11, <2>4, UnitsAre
  <2> QED BY <2>1, <2>2, <2>3, <2>4
<1>15. ASSUME NEW k \in 1 .. 3 PROVE d[k] <= n \div 10
  BY <1>5, <1>10, <1>13 DEF d3
<1>16. IsUpto(n, d)
  BY <1>10, <1>14, <1>15 DEF IsUpto
<1> QED BY <1>12, <1>16

\* Any k bytes of a header, on top of the NULs that delete_msg leaves.
Cut(header, k) == [j \in 1 .. header_length |-> IF j <= k THEN header[j] ELSE NUL]

\* The places of a header that was cut: spaces, digits and NULs.
LEMMA CutPlaces ==
    ASSUME NEW n \in Lengths, NEW k \in 1 .. 4, NEW j \in 1 .. 4
    PROVE  /\ j > k => Cut(EncodeHeader(n), k)[j] = 0
           /\ j <= k /\ (n >= Units[j] \/ j = 4)
                  => Cut(EncodeHeader(n), k)[j] = 48 + ((n \div Units[j]) % 10)
           /\ j <= k /\ ~(n >= Units[j] \/ j = 4) => Cut(EncodeHeader(n), k)[j] = 32
<1>1. Cut(EncodeHeader(n), k)[j] = IF j <= k THEN EncodeHeader(n)[j] ELSE 0
  BY DEF Cut, NUL, header_length
<1>2. EncodeHeader(n)[j] = IF n >= Units[j] \/ j = 4 THEN 48 + ((n \div Units[j]) % 10) ELSE 32
  BY DEF EncodeHeader, header_length
<1> QED BY <1>1, <1>2

LEMMA CutIsHeader ==
    ASSUME NEW n \in Lengths, NEW k \in 1 .. 4
    PROVE  Cut(EncodeHeader(n), k) \in Header
<1>1. PICK d \in [0 .. 4 -> Nat] : IsUpto(n, d)
  BY UptoExists
<1>2. ASSUME NEW j \in 1 .. 4 PROVE Cut(EncodeHeader(n), k)[j] \in 0 .. 127
  <2>1. (n \div Units[j]) % 10 \in 0 .. 9
    BY <1>1 DEF IsUpto
  <2>2. 48 + ((n \div Units[j]) % 10) \in 0 .. 127
    BY <2>1
  <2> QED BY <2>2, CutPlaces
<1> QED BY <1>2 DEF Cut, Header, header_length

LEMMA WholeIsUncut ==
    ASSUME NEW n \in Lengths PROVE Cut(EncodeHeader(n), 4) = EncodeHeader(n)
BY DEF Cut, EncodeHeader, header_length

\* However many bytes of a header come, atoi reads the number up to there.
LEMMA AtoiOfCut ==
    ASSUME NEW n \in Lengths, NEW k \in 1 .. 4
    PROVE  Atoi(Cut(EncodeHeader(n), k)) = n \div Units[k]
<1> DEFINE s == Cut(EncodeHeader(n), k)
           Digit(j) == n >= Units[j] \/ j = 4
<1>0. n \in Nat /\ n <= 9999
  BY DEF Lengths
<1>d. PICK d \in [0 .. 4 -> Nat] : IsUpto(n, d)
  BY UptoExists
<1>1. ASSUME NEW j \in 1 .. 4
      PROVE  /\ j > k => s[j] = 0
             /\ j <= k /\ Digit(j) => s[j] = 48 + (d[j] % 10)
             /\ j <= k /\ ~Digit(j) => s[j] = 32
             /\ ~Digit(j) => d[j] = 0
             /\ d[j] % 10 \in 0 .. 9
             /\ d[j] = 10 * d[j - 1] + (d[j] % 10)
             /\ d[j] = n \div Units[j]
  <2>1. d[j] = n \div Units[j]
    BY <1>d DEF IsUpto
  <2>2. /\ d[j] % 10 \in 0 .. 9
        /\ d[j] = 10 * d[j - 1] + (d[j] % 10)
        /\ n < Units[j] => d[j] = 0
    BY <1>d DEF IsUpto
  <2>3. Units[j] \in Int
    BY UnitsAre
  <2>4. ~Digit(j) => n < Units[j]
    BY <1>0, <2>3
  <2>5. /\ j > k => s[j] = 0
        /\ j <= k /\ Digit(j) => s[j] = 48 + ((n \div Units[j]) % 10)
        /\ j <= k /\ ~Digit(j) => s[j] = 32
    BY CutPlaces
  <2> HIDE DEF s, Digit
  <2> QED BY <2>1, <2>2, <2>4, <2>5
<1>3. \A i, j \in 1 .. 4 : i < j /\ Digit(i) => Digit(j)
  BY <1>0, UnitsAre
<1>5. s \in [1 .. 4 -> Int] /\ Digit(4)
  <2>1. s \in Header
    BY CutIsHeader
  <2> HIDE DEF s
  <2> QED BY <2>1 DEF Header, header_length
<1> HIDE DEF s, Digit
<1>a. \A j \in 1 .. 4 : j > k => s[j] = 0
  BY <1>1
<1>b. \A j \in 1 .. 4 : ~Digit(j) => d[j] = 0 /\ (j <= k => s[j] = 32)
  BY <1>1
\* Where the spaces end.
<1>6. PICK q \in 1 .. k + 1 : /\ \A j \in 1 .. q - 1 : ~Digit(j)
                              /\ q = k + 1 \/ Digit(q)
  BY <1>3
<1>7. q \in 1 .. 4 /\ k + 1 \in q .. 5
  <2>1. q = 5 => ~Digit(4)
    BY <1>6
  <2> QED BY <1>5, <1>6, <2>1
<1>8. \A j \in 1 .. q - 1 : s[j] = 32 /\ d[j] = 0
  <2> SUFFICES ASSUME NEW j \in 1 .. q - 1 PROVE s[j] = 32 /\ d[j] = 0
    OBVIOUS
  <2>1. j \in 1 .. 4 /\ j <= k
    BY <1>7
  <2>2. ~Digit(j)
    BY <1>6
  <2> QED BY <1>b, <2>1, <2>2
<1>9. \A j \in q .. k : s[j] = 48 + (d[j] % 10) /\ s[j] \in 48 .. 57
  <2> SUFFICES ASSUME NEW j \in q .. k
               PROVE  s[j] = 48 + (d[j] % 10) /\ s[j] \in 48 .. 57
    OBVIOUS
  <2>1. Digit(j) /\ j \in 1 .. 4 /\ j <= k
    BY <1>3, <1>6, <1>7
  <2>2. s[j] = 48 + (d[j] % 10)
    BY <1>1, <2>1
  <2>3. d[j] % 10 \in 0 .. 9
    BY <1>1, <2>1
  <2> QED BY <2>2, <2>3
<1>10. s[q] = 0 \/ s[q] \in 48 .. 57
  <2>1. CASE q = k + 1
    BY <1>a, <1>7, <2>1
  <2>2. CASE q <= k
    BY <1>7, <1>9, <2>2
  <2> QED BY <1>6, <2>1, <2>2
<1>11. SkipFrom(s, 1, Spaces) = q
  <2>1. s[q] \notin Spaces /\ \A j \in 1 .. q - 1 : s[j] \in Spaces
    BY <1>8, <1>10 DEF Spaces
  <2> QED BY <1>7, <2>1, SkipIs DEF header_length
<1>12. SkipFrom(s, q, Digits) = k + 1
  <2>1. k + 1 = 5 \/ s[k + 1] = 0
    BY <1>a
  <2>2. \A j \in q .. (k + 1) - 1 : s[j] \in Digits
    BY <1>9 DEF Digits
  <2>3. k + 1 = 5 \/ s[k + 1] \notin Digits
    BY <2>1 DEF Digits
  <2> QED BY <1>7, <2>2, <2>3, SkipIs DEF header_length
<1>13. Atoi(s) = Values(s, q)[k]
  <2>1. ~(s[q] \in {Plus, Minus})
    BY <1>10 DEF Plus, Minus
  <2>2. Atoi(s) = Values(s, q)[(k + 1) - 1]
    BY <1>11, <1>12, <2>1 DEF Atoi
  <2>3. (k + 1) - 1 = k
    OBVIOUS
  <2> QED BY <2>2, <2>3
<1> DEFINE v == Values(s, q)
<1>14. \A j \in 0 .. 4 : v[j] = IF j < q THEN 0 ELSE 10 * v[j - 1] + (s[j] - 48)
  BY <1>5, <1>7, ValuesAre DEF header_length
<1> HIDE DEF v
<1>15. ASSUME NEW j \in 1 .. 4, j <= k, v[j - 1] = d[j - 1] PROVE v[j] = d[j]
  <2>1. CASE j < q
    <3>1. v[j] = 0
      BY <1>14, <2>1
    <3>2. d[j] = 0
      BY <1>8, <2>1
    <3> QED BY <3>1, <3>2
  <2>2. CASE ~(j < q)
    <3>1. v[j] = 10 * d[j - 1] + (s[j] - 48)
      BY <1>14, <1>15, <2>2
    <3>2. s[j] = 48 + (d[j] % 10) /\ d[j] % 10 \in 0 .. 9
      <4>1. j \in q .. k
        BY <1>7, <1>15, <2>2
      <4>2. s[j] = 48 + (d[j] % 10)
        BY <1>9, <4>1
      <4>3. d[j] % 10 \in 0 .. 9
        BY <1>1
      <4> QED BY <4>2, <4>3
    <3>3. s[j] - 48 = d[j] % 10
      BY <3>2
    <3>4. d[j] = 10 * d[j - 1] + (d[j] % 10)
      BY <1>1
    <3> QED BY <3>1, <3>3, <3>4
  <2> QED BY <2>1, <2>2
<1>16. v[0] = d[0]
  <2>1. v[0] = 0
    BY <1>7, <1>14
  <2> QED BY <1>d, <2>1 DEF IsUpto
<1>17. v[1] = d[1]
  <2>1. v[1 - 1] = d[1 - 1]
    BY <1>16
  <2> QED BY <1>15, <2>1
<1>18. k >= 2 => v[2] = d[2]
  <2>1. v[2 - 1] = d[2 - 1]
    BY <1>17
  <2> QED BY <1>15, <2>1
<1>19. k >= 3 => v[3] = d[3]
  <2>1. k >= 3 => v[3 - 1] = d[3 - 1]
    BY <1>18
  <2> QED BY <1>15, <2>1
<1>20. k >= 4 => v[4] = d[4]
  <2>1. k >= 4 => v[4 - 1] = d[4 - 1]
    BY <1>19
  <2> QED BY <1>15, <2>1
<1>21. v[k] = d[k]
  BY <1>17, <1>18, <1>19, <1>20
<1>22. d[k] = n \div Units[k]
  BY <1>1
<1> QED BY <1>13, <1>21, <1>22 DEF v, s

\* A header from which the last bytes are missing is taken for a body that is
\* shorter by as many digits; a whole one for its own.
LEMMA DecodeOfCut ==
    ASSUME NEW n \in 0 .. max_body_length, NEW k \in 1 .. 4
    PROVE  LET decoded == DecodeHeader(Cut(EncodeHeader(n), k))
           IN  /\ decoded.ok = TRUE
               /\ k = 4 => decoded.body_length_ = n
               /\ k # 4 => decoded.body_length_ <= n \div 10
<1> DEFINE s == Cut(EncodeHeader(n), k)
<1>1. n \in Lengths
  BY MaxBodyAssumption DEF Lengths
<1>2. PICK d \in [0 .. 4 -> Nat] : IsUpto(n, d)
  BY <1>1, UptoExists
<1>3. s \in Header /\ Atoi(s) = n \div Units[k]
  BY <1>1, CutIsHeader, AtoiOfCut
<1> HIDE DEF s
<1>4. d[k] = n \div Units[k] /\ d[k] \in Nat /\ d[4] = n
  <2>1. d[k] \in Nat
    OBVIOUS
  <2>2. d[k] = n \div Units[k]
    <3>1. \A j \in 1 .. 4 : d[j] = n \div Units[j]
      BY <1>2 DEF IsUpto
    <3> QED BY <3>1
  <2>3. d[4] = n
    BY <1>2 DEF IsUpto
  <2> QED BY <2>1, <2>2, <2>3
<1>5. Atoi(s) = d[k]
  BY <1>3, <1>4
<1>6. k # 4 => d[k] <= n \div 10
  <2>1. \A j \in 1 .. 3 : d[j] <= n \div 10
    BY <1>2 DEF IsUpto
  <2>2. k # 4 => k \in 1 .. 3
    OBVIOUS
  <2> QED BY <2>1, <2>2
<1>7. n \div 10 <= n /\ n \div 10 \in Nat /\ n \in Nat /\ max_body_length \in Nat
  <2>1. n \in Nat /\ max_body_length \in Nat
    BY MaxBodyAssumption
  <2> QED BY <2>1
<1>8. d[k] <= max_body_length
  BY <1>4, <1>6, <1>7
<1>9. DecodeHeader(s) = [ok |-> TRUE, body_length_ |-> d[k]]
  BY <1>3, <1>4, <1>5, <1>7, <1>8, DecodeFits
<1>10. DecodeHeader(s).ok = TRUE /\ DecodeHeader(s).body_length_ = d[k]
  BY <1>9
<1> QED BY <1>4, <1>6, <1>10 DEF s
=============================================================================
