------------------------------ MODULE QueryText -----------------------------
(***************************************************************************)
(* What a typed query means (model.rs, SearchOptions::normalized_at): its  *)
(* tokens, with quotes and escapes; the tokens that are filters; and the   *)
(* rest, joined again into a text that terms() splits once more when the   *)
(* search is prepared.                                                     *)
(*                                                                         *)
(* A text is a sequence of symbols: a mark ("sp" is white space, "q1" and  *)
(* "q2" the quotes, "bs" the backslash) or a word that no rule looks into; *)
(* a run of digits is one symbol. Case is left out: keys and values are    *)
(* lowered.                                                                *)
(***************************************************************************)
EXTENDS Integers, Sequences, SequencesExt, FiniteSetsExt

CONSTANTS
    Typed,     \* queries as they are typed
    Meant,     \* lists of tokens to be written as queries
    Now,       \* now_epoch()
    MaxInt     \* i64::MAX

QueryAssumption == Now \in 0 .. MaxInt

VARIABLES
    query, meant,  \* the query, and the tokens it was written for or NoToken
    tokens,        \* tokens not looked at yet
    out,           \* the filters and terms found so far
    pc
vars == <<query, meant, tokens, out, pc>>

NoToken == << <<>> >>
Absent == -MaxInt - 2  \* None; below every i64

-----------------------------------------------------------------------------
(* Tokens *)

Quotes == {"q1", "q2"}
NoQuote == "none"

Cut(s) == IF s.current = <<>> THEN s
          ELSE [s EXCEPT !.tokens = Append(@, s.current), !.current = <<>>]

\* One character of tokenize_query.
ReadSymbol(s, ch) ==
    IF s.escaped THEN [s EXCEPT !.current = Append(@, ch), !.escaped = FALSE]
    ELSE IF ch = "bs" THEN [s EXCEPT !.escaped = TRUE]
    ELSE IF ch \in Quotes /\ s.quote = ch THEN [s EXCEPT !.quote = NoQuote]
    ELSE IF ch \in Quotes /\ s.quote = NoQuote THEN [s EXCEPT !.quote = ch]
    ELSE IF ch = "sp" /\ s.quote = NoQuote THEN Cut(s)
    ELSE [s EXCEPT !.current = Append(@, ch)]

tokenize_query(q) ==
    LET start == [tokens |-> <<>>, current |-> <<>>, quote |-> NoQuote, escaped |-> FALSE]
        s     == FoldLeft(ReadSymbol, start, q)
    IN  Cut(IF s.escaped THEN [s EXCEPT !.current = Append(@, "bs")] ELSE s).tokens

-----------------------------------------------------------------------------
(* Filters *)

RECURSIVE TrimStart(_, _)
TrimStart(t, marks) == IF t # <<>> /\ Head(t) \in marks THEN TrimStart(Tail(t), marks) ELSE t
Trim(t) == Reverse(TrimStart(Reverse(TrimStart(t, {"sp"})), {"sp"}))

\* split_filter_values: the parts between commas, trimmed and not empty.
split_filter_values(v) ==
    LET cuts == SetToSortSeq({0, Len(v) + 1} \cup {i \in DOMAIN v : v[i] = "comma"}, <)
        part(i) == Trim(SubSeq(v, cuts[i] + 1, cuts[i + 1] - 1))
    IN  {part(i) : i \in 1 .. Len(cuts) - 1} \ {<<>>}

normalize_ext(v) == TrimStart(Trim(v), {"dot"})

Kinds == {<<"file">>, <<"dir">>}
Units == [h |-> 1, d |-> 2, mo |-> 6]  \* seconds, scaled
Number == [one |-> 1, many |-> MaxInt, huge |-> MaxInt + 1]  \* runs of digits

\* count.saturating_mul(seconds)
Seconds(n, unit) == Min({n * Units[unit], MaxInt})

\* parse_relative_time: digits that fit, and a unit, days if there is none.
parse_relative_time(v) ==
    LET unit == Trim(Tail(v))
    IN  IF \/ Head(v) \notin DOMAIN Number
           \/ Number[Head(v)] > MaxInt
           \/ unit # <<>> /\ ~(Len(unit) = 1 /\ unit[1] \in DOMAIN Units)
          THEN Absent
          ELSE Max({Now - Seconds(Number[Head(v)], IF unit = <<>> THEN "d" ELSE unit[1]), -MaxInt - 1})

NoFilter == [field |-> "none", values |-> {}]
Field(name, excluded) == IF excluded THEN "not " \o name ELSE name
Listed(name, excluded, values) ==
    IF values = {} THEN NoFilter ELSE [field |-> Field(name, excluded), values |-> values]

\* parse_inline_filter
parse_inline_filter(t) ==
    LET negated == t[1] \in {"not", "minus"}
        rest    == IF negated THEN Tail(t) ELSE t
        colon   == SelectInSeq(rest, LAMBDA s : s = "colon")
        key     == SubSeq(rest, 1, colon - 1)
        value   == Trim(SubSeq(rest, colon + 1, Len(rest)))
    IN  IF colon = 0 \/ value = <<>> \/ Len(key) # 1 THEN NoFilter
        ELSE CASE key[1] = "ext" ->
                    Listed("ext", negated, {normalize_ext(v) : v \in split_filter_values(value)} \ {<<>>})
               [] key[1] = "kind" -> Listed("kind", negated, split_filter_values(value) \cap Kinds)
               [] key[1] \in {"path", "part"} -> Listed(key[1], negated, {value})
               [] key[1] = "mtime" ->
                    Listed("mtime", negated, {parse_relative_time(value)} \ {Absent})
               [] OTHER -> NoFilter

Fields == {Field(n, e) : n \in {"ext", "kind", "path", "part", "mtime"}, e \in BOOLEAN}

-----------------------------------------------------------------------------
(* The query *)

Escaped(t) == FoldLeft(LAMBDA u, s : u \o (IF s \in {"sp", "q1", "q2", "bs"} THEN <<"bs", s>> ELSE <<s>>), <<>>, t)
Quoted(t, q) == <<q>> \o FoldLeft(LAMBDA u, s : u \o (IF s \in {q, "bs"} THEN <<"bs", s>> ELSE <<s>>), <<>>, t) \o <<q>>
Joined(ts) == FoldLeft(LAMBDA u, t : IF u = <<>> THEN t ELSE u \o <<"sp">> \o t, <<>>, ts)

\* Tokens as a user writes them: escaped, or quoted from some symbol on.
Writings(t) ==
    {Escaped(t)} \cup {Escaped(SubSeq(t, 1, i)) \o Quoted(SubSeq(t, i + 1, Len(t)), q) :
                         i \in 0 .. Len(t), q \in Quotes}

Init ==
    /\ \/ query \in Typed /\ meant = NoToken
       \/ \E m \in Meant :
             /\ meant = m
             /\ \E w \in {f \in [DOMAIN m -> UNION {Writings(m[i]) : i \in DOMAIN m}] :
                            \A i \in DOMAIN m : f[i] \in Writings(m[i])} : query = Joined(w)
    /\ tokens = tokenize_query(query)
    /\ out = [filters |-> [f \in Fields |-> {}], terms |-> <<>>]
    /\ pc = "tokens"

\* A slip: a filter that cannot be read is dropped.
SlipTake(t) ==
    LET f == parse_inline_filter(t)
    IN  IF f = NoFilter
          THEN out' = IF Contains(t, "colon") THEN out ELSE [out EXCEPT !.terms = Append(@, t)]
          ELSE out' = [out EXCEPT !.filters[f.field] =
                         IF f.field \in {"mtime", "not mtime"} THEN f.values ELSE @ \cup f.values]

\* One token: a later time replaces an earlier one, other filters add up, and
\* what is no filter stays a term.
Take(t) ==
    LET f == parse_inline_filter(t)
    IN  IF f = NoFilter THEN out' = [out EXCEPT !.terms = Append(@, t)]
        ELSE out' = [out EXCEPT !.filters[f.field] =
                       IF f.field \in {"mtime", "not mtime"} THEN f.values ELSE @ \cup f.values]

Token ==
    /\ pc = "tokens" /\ tokens # <<>>
    /\ Take(Head(tokens))
    /\ tokens' = Tail(tokens)
    /\ UNCHANGED <<query, meant, pc>>

\* out.query is the terms joined by a space.
Normalized ==
    /\ pc = "tokens" /\ tokens = <<>>
    /\ pc' = "normalized"
    /\ UNCHANGED <<query, meant, tokens, out>>

Prepared == pc = "normalized" /\ UNCHANGED vars

Next == Token \/ Normalized \/ Prepared

Spec == Init /\ [][Next]_vars

\* terms(), of the normalized options.
Stripped(t) == IF t[1] = "tilde" THEN Tail(t) ELSE t
Terms == SelectSeq([i \in DOMAIN tokenize_query(Joined(out.terms)) |->
                      Stripped(tokenize_query(Joined(out.terms))[i])], LAMBDA t : t # <<>>)

-----------------------------------------------------------------------------
\* A token comes through as it was meant, white space, quotes, backslashes and
\* all, whichever way it is escaped or quoted and whatever stands beside it.
QuotingKept ==
    pc = "tokens" /\ meant # NoToken =>
        /\ Len(tokens) <= Len(meant)
        /\ tokens = SubSeq(meant, Len(meant) - Len(tokens) + 1, Len(meant))

Plain(t) == \A i \in DOMAIN t : t[i] \notin {"sp", "q1", "q2", "bs"}

\* Nothing that was typed is ignored: a plain token that sets no filter is
\* searched for as it is, a filter that cannot be read included, and after the
\* terms were joined and split again.
NothingIgnored ==
    pc = "normalized" /\ (\A i \in DOMAIN tokenize_query(query) : Plain(tokenize_query(query)[i]))
      => LET kept == SelectSeq(tokenize_query(query), LAMBDA t :
                       ~\E f \in Fields : parse_inline_filter(t).field = f)
         IN  Terms = SelectSeq([i \in DOMAIN kept |-> Stripped(kept[i])], LAMBDA t : t # <<>>)

\* mtime: never asks for the future, however large the number: the product and
\* the difference saturate.
TimesPast ==
    \A f \in {"mtime", "not mtime"} : \A t \in out.filters[f] : -MaxInt - 1 <= t /\ t <= Now
=============================================================================
