----------------------------- MODULE JsonReader -----------------------------
(***************************************************************************)
(* The decoder of json.gafq next to a reference: an automaton with a stack *)
(* that reads the same text one symbol at a time and says of each prefix   *)
(* whether it is a text of the language, and of which value.  The language *)
(* is JSON with a comma allowed behind the last element of an array or an  *)
(* object, which is what the decoder takes.                                *)
(***************************************************************************)
EXTENDS JsonText

CONSTANTS
    Outside,   \* symbols typed outside of strings
    Inside,    \* symbols typed inside of strings
    Seeds,     \* what texts begin with, and (bound) the symbols typed behind
    Beyond     \* bound: symbols typed after the text can no longer be right

VARIABLES
    str,       \* the text so far
    ref,       \* the automaton
    room       \* symbols that may still be typed

readerVars == <<str, ref, room>>

(***************************************************************************)
(* at: what is expected or being read; stack: the arrays and objects that  *)
(* are open, innermost last, with their elements and the pending key;      *)
(* word: the symbols of the string or number being read, isKey whether it  *)
(* is a key, high the first half of a pair; value: the value of a complete *)
(* text; dead: symbols since the text went wrong.                          *)
(***************************************************************************)
Start == [at |-> "value", stack |-> <<>>, word |-> <<>>, isKey |-> FALSE,
          high |-> 0, value |-> Nil, dead |-> 0]

Wrong(r) == [r EXCEPT !.at = "dead", !.dead = @ + 1]

Top(r) == r.stack[Len(r.stack)]
SetTop(r, frame) == [r EXCEPT !.stack[Len(r.stack)] = frame]

Open(r, kind) ==
    [r EXCEPT !.at = IF kind = "[" THEN "element" ELSE "key",
              !.stack = Append(@, [kind |-> kind, items |-> <<>>, key |-> <<>>])]

\* A value is complete: it is the text's, or an element of what is open.
Complete(r, val) ==
    IF r.stack = <<>> THEN [r EXCEPT !.at = "end", !.value = val]
    ELSE [SetTop(r, [Top(r) EXCEPT !.items =
                         Append(@, [key |-> Top(r).key, val |-> val])])
             EXCEPT !.at = "after"]

\* Elements are numbered from 1, and the last of several equal keys counts.
TableOf(frame) ==
    LET items == frame.items
        last(key) == Max({k \in DOMAIN items : items[k].key = key})
        keys == {items[k].key : k \in DOMAIN items}
    IN  IF frame.kind = "["
        THEN Table([k \in {j \in DOMAIN items : items[j].val # Nil} |-> items[k].val], <<>>)
        ELSE Table(<<>>, [key \in {q \in keys : items[last(q)].val # Nil} |->
                              items[last(key)].val])

Close(r) == Complete([r EXCEPT !.stack = Front(@)], TableOf(Top(r)))
Closes(r, c) == r.stack # <<>> /\ <<Top(r).kind, c>> \in {<<"[", "]">>, <<"{", "}">>}

EndString(r) ==
    IF r.isKey THEN [SetTop(r, [Top(r) EXCEPT !.key = r.word]) EXCEPT !.at = "colon"]
               ELSE Complete(r, String(r.word))

\* What Unicode says of the code points that the groups can make.
Utf8 == (65 :> <<"65">>) @@ (233 :> <<"195", "169">>)
        @@ (8364 :> <<"226", "130", "172">>)
        @@ (128512 :> <<"240", "159", "152", "128">>)

Unit(r, n) ==
    IF n \in 55296 .. 56319 THEN [r EXCEPT !.at = "string", !.high = n]
    ELSE [r EXCEPT !.at = "string", !.high = 0, !.word = @ \o Utf8[
              IF r.high = 0 THEN n
              ELSE 65536 + (r.high % 1024) * 1024 + (n % 1024)]]

\* Behind a complete value.
Behind(r, c) ==
    CASE c \in SpaceChars -> r
      [] c = "," /\ r.at = "after" ->
             [r EXCEPT !.at = IF Top(r).kind = "[" THEN "element" ELSE "key"]
      [] Closes(r, c) /\ r.at = "after" -> Close(r)
      [] OTHER -> Wrong(r)

\* Whether a number that has begun with word goes on with c.
GoesOn(word, c) ==
    \/ c = "1"
    \/ word # <<"-">> /\ c = Fraction /\ {Fraction, Exponent} \cap Range(word) = {}
    \/ word # <<"-">> /\ c = Exponent /\ Exponent \notin Range(word)

Step(r, c) ==
    CASE r.at \in {"value", "element", "key"} /\ c \in SpaceChars -> r
      [] r.at \in {"value", "element"} /\ c \in {"[", "{"} -> Open(r, c)
      [] r.at \in {"value", "element", "key"} /\ c = "\"" ->
             [r EXCEPT !.isKey = (r.at = "key"), !.at = "string", !.word = <<>>]
      [] r.at \in {"value", "element"} /\ c \in {"1", "-"} ->
             [r EXCEPT !.at = "number", !.word = <<c>>]
      [] r.at \in {"value", "element"} /\ c = "null" -> [r EXCEPT !.at = "literal"]
      [] r.at \in {"element", "key"} /\ Closes(r, c) -> Close(r)
      [] r.at = "colon" /\ c \in SpaceChars -> r
      [] r.at = "colon" /\ c = ":" -> [r EXCEPT !.at = "value"]
      [] r.at \in {"after", "end"} -> Behind(r, c)
      [] r.at = "number" /\ GoesOn(r.word, c) -> [r EXCEPT !.word = Append(@, c)]
      [] r.at = "number" /\ c \in DelimChars /\ r.word # <<"-">> ->
             Behind(Complete(r, Number(r.word)), c)
      [] r.at = "literal" /\ c \in DelimChars -> Behind(Complete(r, Nil), c)
      [] r.at = "string" /\ c = "\"" -> EndString(r)
      [] r.at = "string" /\ c = "\\" -> [r EXCEPT !.at = "escape"]
      [] r.at = "string" /\ c \notin Controls \cup {"\"", "\\"} ->
             [r EXCEPT !.word = Append(@, c)]
      [] r.at = "escape" /\ c = "u" -> [r EXCEPT !.at = "unit"]
      [] r.at = "escape" /\ c = "n" ->
             [r EXCEPT !.at = "string", !.word = Append(@, "\n")]
      [] r.at = "escape" /\ c \in {"\"", "\\"} ->
             [r EXCEPT !.at = "string", !.word = Append(@, c)]
      [] r.at = "unit" /\ c \in HexGroups -> Unit(r, HexValue(c))
      [] OTHER -> Wrong(r)

ReaderInit ==
    /\ \E seed \in Seeds : str = seed.begin /\ room = seed.typed
    /\ ref = FoldLeft(Step, Start, str)

\* What may be typed next.  Half a pair is always completed, and the point and
\* the exponent are typed behind a digit.
Typed(r) ==
    CASE r.high # 0 -> {CASE r.at = "string" -> "\\" [] r.at = "escape" -> "u"
                          [] r.at = "unit" -> "DE00"}
      [] r.high = 0 /\ r.at = "unit" -> (HexGroups \ {"DE00"}) \cup {"n"}
      [] r.high = 0 /\ r.at \in {"string", "escape"} -> Inside
      [] r.at = "number" /\ r.word # <<"-">> -> Outside \cup {Fraction, Exponent}
      [] OTHER -> Outside

TypeSymbol ==
    /\ room > 0
    /\ room' = room - 1
    /\ ref.dead <= Beyond
    /\ \E c \in Typed(ref) : str' = Append(str, c) /\ ref' = Step(ref, c)

-----------------------------------------------------------------------------
(* Properties.                                                             *)

\* A word that needs no delimiter at the end of the text.
Ended(r) ==
    CASE r.at = "literal" -> Complete(r, Nil)
      [] r.at = "number" /\ r.word # <<"-">> -> Complete(r, Number(r.word))
      [] OTHER -> r

\* json.decode takes exactly the texts of the language, however they nest and
\* wherever spaces stand, and makes of each the value it stands for: nothing
\* behind an error, nothing behind the end, and nothing half a text.
DecodeAgrees ==
    LET res == Decode(str) IN
    /\ res.ok <=> Ended(ref).at = "end"
    /\ res.ok => res.val = Ended(ref).value

\* Every array has all its elements, and every number is finite.
RECURSIVE Whole(_)
Whole(val) ==
    CASE val.t = "number" -> Exponent \notin Range(val.v)
      [] val.t = "table" ->
             /\ DOMAIN val.nums = 1 .. Cardinality(DOMAIN val.nums)
             /\ \A k \in DOMAIN val.nums : Whole(val.nums[k])
             /\ \A k \in DOMAIN val.strs : Whole(val.strs[k])
      [] OTHER -> TRUE

\* What is left of a value: of an array what comes before its first hole, and
\* of a number 14 digits.
RECURSIVE Kept(_)
Kept(val) ==
    CASE val.t = "number" -> Number(Rounded(val.v))
      [] val.t = "table" ->
             Table([k \in {j \in DOMAIN val.nums : 1 .. j \subseteq DOMAIN val.nums} |->
                        Kept(val.nums[k])],
                   [k \in DOMAIN val.strs |-> Kept(val.strs[k])])
      [] OTHER -> val

\* What was decoded can be encoded, if all of it is there and finite, and only
\* then for certain: with a null inside of an array the sparse test of
\* encode_table refuses unless the number of elements is a border, and then it
\* is up to the library.  Whatever json.encode does not refuse decodes to the
\* value, its numbers rounded and its arrays cut at their first hole.
EncodeReverses ==
    LET res == Decode(str) IN
    res.ok =>
        /\ \A counts \in BOOLEAN : Whole(res.val) => EncodeValue(res.val, counts).ok
        /\ EncodeValue(res.val, FALSE).ok => Whole(res.val)
        /\ \A counts \in BOOLEAN :
               LET text == EncodeValue(res.val, counts)
               IN  text.ok => /\ Decode(text.text).ok
                              /\ Decode(text.text).val = Kept(res.val)
=============================================================================
