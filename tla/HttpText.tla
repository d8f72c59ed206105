------------------------------ MODULE HttpText ------------------------------
(***************************************************************************)
(* The texts of the service: the query string of a request, as the part    *)
(* loop of parse_query takes it apart, and the strings of a JSON answer.   *)
(* Texts are sequences of ASCII codes.                                     *)
(***************************************************************************)
EXTENDS Naturals, Sequences, SequencesExt, FiniteSetsExt

CONSTANTS Bytes,      \* the codes that occur in values
          Keys,       \* the codes that occur in keys, each a key
          MaxValue    \* bound: the length of a value

Space == 32
Quote == 34
Percent == 37
Ampersand == 38
Plus == 43
Equals == 61
Backslash == 92

VARIABLES pairs,      \* the keys and values that a client means
          rest,       \* the parts of its query string that are still to come
          params      \* the map that parse_query builds

vars == <<pairs, rest, params>>

-----------------------------------------------------------------------------
\* Hexadecimal digits.
Digit(b) == b \in 48 .. 57
Lower(b) == b \in 97 .. 102
Upper(b) == b \in 65 .. 70

hex(b) == IF Digit(b) THEN b - 48 ELSE IF Lower(b) THEN b - 87 ELSE b - 55

IsHex(b) == Digit(b) \/ Lower(b) \/ Upper(b)

\* An escape that is cut off or has no digits stays as it is.
percent_decode(v) ==
    LET d[i \in 1 .. Len(v) + 1] ==
            IF i > Len(v) THEN <<>>
            ELSE IF v[i] = Plus THEN <<Space>> \o d[i + 1]
            ELSE IF v[i] = Percent /\ i + 2 <= Len(v) /\ IsHex(v[i + 1]) /\ IsHex(v[i + 2])
                 THEN <<16 * hex(v[i + 1]) + hex(v[i + 2])>> \o d[i + 3]
            ELSE <<v[i]>> \o d[i + 1]
    IN  d[1]

\* Where byte b first occurs in v; the position after the end if it does not.
Position(v, b) == Min({i \in DOMAIN v : v[i] = b} \cup {Len(v) + 1})

\* split_once('='), each half decoded; a part without '=' is a key.
KeyOf(part) == percent_decode(SubSeq(part, 1, Position(part, Equals) - 1))
ValueOf(part) == percent_decode(SubSeq(part, Position(part, Equals) + 1, Len(part)))

\* One turn of the loop of parse_query: insert replaces what the key had.
ParsePart ==
    /\ rest # <<>>
    /\ rest' = Tail(rest)
    /\ params' = [k \in DOMAIN params \cup {KeyOf(Head(rest))} |->
                     IF k = KeyOf(Head(rest)) THEN ValueOf(Head(rest)) ELSE params[k]]
    /\ UNCHANGED pairs

\* split('&'), without the empty parts.
Parts(v) ==
    LET cut == {0, Len(v) + 1} \cup {i \in DOMAIN v : v[i] = Ampersand}
        all == SetToSortSeq(
                  {r \in cut \X cut : r[1] + 1 < r[2] /\ \A i \in cut : i <= r[1] \/ i >= r[2]},
                  LAMBDA r, s : r[1] < s[1])
    IN  [k \in DOMAIN all |-> SubSeq(v, all[k][1] + 1, all[k][2] - 1)]

-----------------------------------------------------------------------------
(* json_escape *)

HexDigit(n) == IF n < 10 THEN 48 + n ELSE 87 + n

Control(b) == b < 32 \/ b = 127

\* \" \\ \n \r \t and \u00xx
Escaped(b) ==
    CASE b \in {Quote, Backslash} -> <<Backslash, b>>
      [] b = 10 -> <<Backslash, 110>>
      [] b = 13 -> <<Backslash, 114>>
      [] b = 9 -> <<Backslash, 116>>
      [] Control(b) /\ b \notin {9, 10, 13} ->
            <<Backslash, 117, 48, 48, HexDigit(b \div 16), HexDigit(b % 16)>>
      [] OTHER -> <<b>>

json_escape(v) == FoldLeft(LAMBDA out, b : out \o Escaped(b), <<>>, v)

\* What a JSON reader makes of the inside of a string.
ReadJson(s) ==
    LET r[i \in 1 .. Len(s) + 1] ==
            IF i > Len(s) THEN <<>>
            ELSE IF s[i] # Backslash THEN <<s[i]>> \o r[i + 1]
            ELSE CASE s[i + 1] \in {Quote, Backslash} -> <<s[i + 1]>> \o r[i + 2]
                   [] s[i + 1] = 110 -> <<10>> \o r[i + 2]
                   [] s[i + 1] = 114 -> <<13>> \o r[i + 2]
                   [] s[i + 1] = 116 -> <<9>> \o r[i + 2]
                   [] OTHER -> <<16 * hex(s[i + 4]) + hex(s[i + 5])>> \o r[i + 6]
    IN  r[1]

\* A JSON reader refuses a string with a bare quote or control character.
Readable(s) ==
    LET escaped == {i \in DOMAIN s : Cardinality({j \in 1 .. i - 1 :
                       \A k \in j .. i - 1 : s[k] = Backslash}) % 2 = 1}
    IN  \A i \in DOMAIN s : s[i] >= 32 /\ (s[i] = Quote => i \in escaped)

-----------------------------------------------------------------------------
(* The client *)

Reserved == {Percent, Ampersand, Plus, Equals}

\* Every reserved byte as %XX, a space as '+' or %20.
Encode(v, space) ==
    FoldLeft(LAMBDA out, b :
                out \o (CASE b = Space -> space
                          [] b \in Reserved \/ Control(b) ->
                                <<Percent, HexDigit(b \div 16), HexDigit(b % 16)>>
                          [] OTHER -> <<b>>),
             <<>>, v)

EncodedPair(p, space) == Encode(p[1], space) \o <<Equals>> \o Encode(p[2], space)

Values == UNION {[1 .. n -> Bytes] : n \in 0 .. MaxValue}

Init ==
    /\ pairs \in ({<<k>> : k \in Keys} \X Values) \X ({<<k>> : k \in Keys} \X Values)
    /\ \E space \in {<<Plus>>, <<Percent, 50, 48>>} :
          rest = Parts(EncodedPair(pairs[1], space) \o <<Ampersand>>
                       \o EncodedPair(pairs[2], space))
    /\ params = [k \in {} |-> <<>>]

Spec == Init /\ [][ParsePart]_vars

-----------------------------------------------------------------------------
\* A query string reads back as the client meant it: separators, signs and
\* spaces inside keys and values are never taken for syntax, and the last
\* value of a repeated key counts.
QueryReadsBack ==
    rest = <<>> =>
        /\ DOMAIN params = {pairs[1][1], pairs[2][1]}
        /\ params[pairs[2][1]] = pairs[2][2]
        /\ pairs[1][1] # pairs[2][1] => params[pairs[1][1]] = pairs[1][2]

\* Any text of an answer, quotes, backslashes and control characters included,
\* is a JSON string that reads back as the text.
JsonReadsBack ==
    LET s == json_escape(pairs[1][2]) IN Readable(s) /\ ReadJson(s) = pairs[1][2]
=============================================================================
