----------------------------- MODULE JsonText -----------------------------
(***************************************************************************)
(* json.gafq: the decoder that start_action runs on every message, and the *)
(* encoder.  A text is a sequence of symbols.  A symbol is a character, or *)
(* a run of characters that the code never has to take apart: a literal    *)
(* word, a digit, the four hexadecimal digits behind \u, a byte of UTF-8,  *)
(* the point of a number and its first digits.                             *)
(*                                                                         *)
(* A script value is a record with its type in t.  A table keeps what its  *)
(* number keys and its string keys map to; a nil is never kept.  A number  *)
(* is kept as the word that it was read from.  What an error says and      *)
(* where it is raised are left out.                                        *)
(***************************************************************************)
EXTENDS Integers, SequencesExt

CONSTANT HexGroups    \* the groups of four hexadecimal digits

\* Their values.
HexValue(g) ==
    CASE g = "0041" -> 65
      [] g = "00E9" -> 233
      [] g = "20AC" -> 8364
      [] g = "D83D" -> 55357
      [] g = "DE00" -> 56832

ASSUME HexGroupsAssumption ==
    HexGroups \subseteq {"0041", "00E9", "20AC", "D83D", "DE00"}

Nil == [t |-> "nil"]
Number(word) == [t |-> "number", v |-> word]
String(symbols) == [t |-> "string", v |-> symbols]
Boolean(b) == [t |-> "boolean", v |-> b]
Table(nums, strs) == [t |-> "table", nums |-> nums, strs |-> strs]
EmptyTable == Table(<<>>, <<>>)

\* f[key] = val, where nil takes the key away.
SetEntry(f, key, val) ==
    IF val.t = "nil" THEN Restrict(f, DOMAIN f \ {key}) ELSE (key :> val) @@ f

Controls == {"\t", "\r", "\n"}
SpaceChars == Controls \cup {" "}
DelimChars == SpaceChars \cup {"]", "}", ","}
\* Without the backspace and the form feed, which are like the others.
EscapeCharMap == ("\\" :> "\\") @@ ("\"" :> "\"") @@ ("\n" :> "n")
                 @@ ("\r" :> "r") @@ ("\t" :> "t")
EscapeCharMapInv == [c \in {"/"} \cup Range(EscapeCharMap) |->
                        IF c = "/" THEN "/"
                        ELSE CHOOSE d \in DOMAIN EscapeCharMap : EscapeCharMap[d] = c]

-----------------------------------------------------------------------------
(* Decoding.  Each parser returns the value and the index behind it.       *)

Ok(val, idx) == [ok |-> TRUE, val |-> val, idx |-> idx]
DecodeError == [ok |-> FALSE, val |-> Nil, idx |-> 0]

\* str:sub(i, i) is empty outside of str.
At(str, i) == IF i \in 1 .. Len(str) THEN str[i] ELSE ""

NextChar(str, idx, set) ==
    Min({i \in idx .. Len(str) : str[i] \in set} \cup {Len(str) + 1})
SkipSpaces(str, idx) ==
    Min({i \in idx .. Len(str) : str[i] \notin SpaceChars} \cup {Len(str) + 1})

CodepointToUtf8(n) ==
    [k \in 1 .. CASE n <= 127 -> 1 [] n <= 2047 -> 2
                  [] n <= 65535 -> 3 [] n <= 1114111 -> 4 |->
        ToString(
            CASE n <= 127 -> n
              [] n > 127 /\ n <= 2047 ->
                     <<(n \div 64) + 192, (n % 64) + 128>>[k]
              [] n > 2047 /\ n <= 65535 ->
                     <<(n \div 4096) + 224, ((n % 4096) \div 64) + 128,
                       (n % 64) + 128>>[k]
              [] n > 65535 ->
                     <<(n \div 262144) + 240, ((n % 262144) \div 4096) + 128,
                       ((n % 4096) \div 64) + 128, (n % 64) + 128>>[k])]

\* Mutant: the offset of the supplementary planes is forgotten.
PairNoOffset(high, low) == (high - 55296) * 1024 + (low - 56320)

\* The code point of a surrogate pair.
Pair(high, low) == (high - 55296) * 1024 + (low - 56320) + 65536

\* The first half of a pair: [dD][89aAbB]%x%x
High(g) == g \in HexGroups /\ HexValue(g) \in 55296 .. 56319

\* parse_string from its j-th symbol on, with what it has collected.
RECURSIVE StringFrom(_, _, _)
StringFrom(str, j, res) ==
    LET x == At(str, j)
        c == At(str, j + 1)
        g == At(str, j + 2)
        paired == High(g) /\ At(str, j + 3) = "\\" /\ At(str, j + 4) = "u"
                  /\ At(str, j + 5) \in HexGroups
    IN  CASE j > Len(str) \/ x \in Controls -> DecodeError
          [] x = "\"" -> Ok(String(res), j + 1)
          [] x = "\\" /\ c = "u" /\ g \notin HexGroups -> DecodeError
          [] x = "\\" /\ c = "u" /\ paired ->
                 StringFrom(str, j + 6, res \o CodepointToUtf8(
                     Pair(HexValue(g), HexValue(str[j + 5]))))
          [] x = "\\" /\ c = "u" /\ g \in HexGroups /\ ~paired ->
                 StringFrom(str, j + 3, res \o CodepointToUtf8(HexValue(g)))
          [] x = "\\" /\ c # "u" ->
                 IF c \in DOMAIN EscapeCharMapInv
                 THEN StringFrom(str, j + 2, Append(res, EscapeCharMapInv[c]))
                 ELSE DecodeError
          [] OTHER -> StringFrom(str, j + 1, Append(res, x))

ParseString(str, i) == StringFrom(str, i + 1, <<>>)

\* What makes a number need more than the 14 digits of %.14g, and what makes it
\* infinite.
Fraction == ".000000000000001"
Exponent == "e999"

\* The library's tonumber, on words that have a digit before the point.
ToNumber(word) ==
    LET unsigned == IF word[1] = "-" THEN Tail(word) ELSE word
        marks == SelectSeq(unsigned, LAMBDA x : x # "1")
    IN  /\ unsigned # <<>>
        /\ unsigned[1] = "1"
        /\ marks \in {<<>>, <<Fraction>>, <<Exponent>>, <<Fraction, Exponent>>}

ParseNumber(str, i) ==
    LET x == NextChar(str, i, DelimChars)
        s == SubSeq(str, i, x - 1)
    IN  IF ToNumber(s) THEN Ok(Number(s), x) ELSE DecodeError

ParseLiteral(str, i) ==
    LET x == NextChar(str, i, DelimChars)
        word == SubSeq(str, i, x - 1)
    IN  CASE word = <<"null">> -> Ok(Nil, x)
          [] word = <<"true">> -> Ok(Boolean(TRUE), x)
          [] word = <<"false">> -> Ok(Boolean(FALSE), x)
          [] OTHER -> DecodeError

\* The loops of parse_array and parse_object, from i on.
RECURSIVE Parse(_, _), ArrayFrom(_, _, _, _), ObjectFrom(_, _, _)
ArrayFrom(str, i, res, n) ==
    LET first == SkipSpaces(str, i) IN
    IF At(str, first) = "]" THEN Ok(res, first + 1)
    ELSE LET x == Parse(str, first)
             next == SkipSpaces(str, x.idx)
             set == Table(SetEntry(res.nums, n, x.val), <<>>)
         IN  CASE ~x.ok -> DecodeError
               [] x.ok /\ At(str, next) = "]" -> Ok(set, next + 1)
               [] x.ok /\ At(str, next) = "," -> ArrayFrom(str, next + 1, set, n + 1)
               [] OTHER -> DecodeError

ObjectFrom(str, i, res) ==
    LET first == SkipSpaces(str, i) IN
    IF At(str, first) = "}" THEN Ok(res, first + 1)
    ELSE IF At(str, first) # "\"" THEN DecodeError
    ELSE LET key == Parse(str, first)
             colon == SkipSpaces(str, key.idx)
             val == Parse(str, SkipSpaces(str, colon + 1))
             next == SkipSpaces(str, val.idx)
             set == Table(<<>>, SetEntry(res.strs, key.val.v, val.val))
         IN  CASE ~key.ok \/ At(str, colon) # ":" -> DecodeError
               [] ~val.ok -> DecodeError
               [] val.ok /\ At(str, next) = "}" -> Ok(set, next + 1)
               [] val.ok /\ At(str, next) = "," -> ObjectFrom(str, next + 1, set)
               [] OTHER -> DecodeError

\* char_func_map; n, t and f also begin words that are no literals.
Parse(str, idx) ==
    LET chr == At(str, idx) IN
    CASE chr = "\"" -> ParseString(str, idx)
      [] chr \in {"1", "-"} -> ParseNumber(str, idx)
      [] chr \in {"null", "true", "false", "n", "t", "f"} -> ParseLiteral(str, idx)
      [] chr = "[" -> ArrayFrom(str, idx + 1, EmptyTable, 1)
      [] chr = "{" -> ObjectFrom(str, idx + 1, EmptyTable)
      [] OTHER -> DecodeError

Decode(str) ==
    LET res == Parse(str, SkipSpaces(str, 1)) IN
    IF res.ok /\ SkipSpaces(str, res.idx) <= Len(str) THEN DecodeError ELSE res

-----------------------------------------------------------------------------
(* Encoding.                                                               *)

EncodeOk(text) == [ok |-> TRUE, text |-> text]
EncodeError == [ok |-> FALSE, text |-> <<>>]

EscapeChar(c) == <<"\\", EscapeCharMap[c]>>

\* Mutant: the backslash is not escaped.
EncodeStringPlain(symbols) ==
    <<"\"">> \o FlattenSeq([k \in 1 .. Len(symbols) |->
        IF symbols[k] \in DOMAIN EscapeCharMap \ {"\\"}
        THEN EscapeChar(symbols[k]) ELSE <<symbols[k]>>]) \o <<"\"">>

EncodeString(symbols) ==
    <<"\"">> \o FlattenSeq([k \in 1 .. Len(symbols) |->
        IF symbols[k] \in DOMAIN EscapeCharMap
        THEN EscapeChar(symbols[k]) ELSE <<symbols[k]>>]) \o <<"\"">>

\* table.concat(parts, ",")
Concat(parts) ==
    FlattenSeq([k \in 1 .. Len(parts) |-> IF k = 1 THEN parts[k] ELSE <<",">> \o parts[k]])

\* string.format("%.14g", val)
Rounded(word) ==
    SubSeq(word, 1, Min({k \in DOMAIN word : word[k] = Fraction} \cup {Len(word) + 1}) - 1)

\* Infinities are refused; no decoded number is a NaN.
EncodeNumber(word) ==
    IF Exponent \in Range(word) THEN EncodeError ELSE EncodeOk(Rounded(word))

\* What #val may be: the table is an array up to there.
Borders(nums) ==
    {b \in {0} \cup DOMAIN nums : b + 1 \notin DOMAIN nums /\ (b = 0 => nums = <<>>)}

\* n ~= #val.  Where a hole leaves the library a choice of borders, counts says
\* whether it takes the number of elements when that is one.
Sparse(nums, counts) ==
    LET n == Cardinality(DOMAIN nums)
    IN  n \notin Borders(nums) \/ (~counts /\ Borders(nums) # {n})

\* How far ipairs goes.
Run(nums) == Min({b \in 0 .. Cardinality(DOMAIN nums) : b + 1 \notin DOMAIN nums})

\* A table is an array when it has a first element or nothing at all.  Values
\* are trees here, so that the test for circular references never fails.
RECURSIVE EncodeValue(_, _)
EncodeValue(val, counts) ==
    CASE val.t = "nil" -> EncodeOk(<<"null">>)
      [] val.t = "boolean" -> EncodeOk(<<IF val.v THEN "true" ELSE "false">>)
      [] val.t = "number" -> EncodeNumber(val.v)
      [] val.t = "string" -> EncodeOk(EncodeString(val.v))
      [] val.t = "table" /\ (1 \in DOMAIN val.nums \/ val = EmptyTable) ->
             LET parts == [k \in 1 .. Run(val.nums) |-> EncodeValue(val.nums[k], counts)]
             IN  IF val.strs # <<>> \/ Sparse(val.nums, counts)
                    \/ \E k \in DOMAIN parts : ~parts[k].ok
                 THEN EncodeError
                 ELSE EncodeOk(<<"[">> \o Concat([k \in DOMAIN parts |-> parts[k].text])
                               \o <<"]">>)
      [] val.t = "table" /\ 1 \notin DOMAIN val.nums /\ val # EmptyTable ->
             LET keys == SetToSeq(DOMAIN val.strs)
                 parts == [k \in 1 .. Len(keys) |-> EncodeValue(val.strs[keys[k]], counts)]
             IN  IF DOMAIN val.nums # {} \/ \E k \in DOMAIN parts : ~parts[k].ok
                 THEN EncodeError
                 ELSE EncodeOk(<<"{">> \o Concat([k \in DOMAIN parts |->
                          EncodeString(keys[k]) \o <<":">> \o parts[k].text]) \o <<"}">>)
=============================================================================
