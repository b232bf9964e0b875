------------------------------ MODULE MCCodecs ------------------------------
(***************************************************************************)
(* The two codecs that a message passes, for TLC: the header of socket_msg *)
(* with the code's own lengths, and the JSON text of the body.  They share *)
(* nothing, so each is explored from the other's initial state.            *)
(***************************************************************************)
EXTENDS Framing, JsonReader

\* Every length that fits, and some that are cut.
MCTextLengths == 0 .. max_body_length + 76

\* NUL, tab, space, +, -, 0, 1, 9 and a letter.
MCChars == {0, 9, 32, 43, 45, 48, 49, 57, 123}

MCOutside == {"[", "]", "{", "}", ",", ":", "\"", "1", "-", "null", "\n"}
MCInside == {"\"", "\\", "n", "u", "\n"}

\* Nothing; a string; an object that has a member; an array in an object; and
\* arrays with two holes, where the number of elements is a border if one more
\* element follows.
MCSeeds ==
    [begin : {<<>>, <<"\"">>, <<"{", "\"", "\"", ":", "1", ",">>,
              <<"{", "\"", "n", "\"", ":", "[">>}, typed : {7}]
    \cup
    [begin : {<<"[", "1", ",", "null", ",", "1", ",", "null", ",">>,
              <<"[", "1", ",", "1", ",", "null", ",", "1", ",", "1", ",", "null", ",">>},
     typed : {4}]

MCInit == Init /\ ReaderInit

MCNext ==
    \/ str = <<>> /\ Next /\ UNCHANGED readerVars
    \/ at = "begin" /\ text = Foreign /\ TypeSymbol /\ UNCHANGED vars

MCSpec == MCInit /\ [][MCNext]_<<vars, readerVars>>
=============================================================================
