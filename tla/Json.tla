-------------------------------- MODULE Json --------------------------------
(***************************************************************************)
(* json.rs: the parser reads a text from left to right, the serializer     *)
(* writes a value.  A text is a sequence of symbols: the structural bytes, *)
(* classes of bytes, whole literals, and the four digits of a \u escape by *)
(* the code unit they name.  Numbers and strings are typed here one symbol *)
(* at a time; arrays and objects are grown, and then spoilt in one place.  *)
(***************************************************************************)
EXTENDS JsonNumbers, FiniteSets

CONSTANTS
  MaxDepth,     \* MAX_DEPTH
  MaxText,      \* bound on the symbols of a text that is typed
  MaxGrown      \* bound on the symbols of a text that is grown

VARIABLES
  alphabet,     \* which symbols this text is made of
  text          \* what has been typed

jsonVars == <<alphabet, text>>

\* "W" and "V" are whole strings, of the characters "w" and "v".
Words == {"W", "V"}
Spelling(word) == IF word = "W" THEN <<"w">> ELSE <<"v">>

Structural == {"[", "]", "{", "}", ",", ":", "null", "ws"} \cup Words

\* \uXXXX by its code unit: high and low surrogate, a character of two bytes, a control
\* character.
Units == {"uHigh", "uLow", "uTwo", "uCtl"}
Textual == {"quote", "n", "backslash", "ctl", "lead", "cont"} \cup Units

\* Characters: "two" is the one that lead and cont spell, "astral" the one of a surrogate
\* pair, "subst" is U+FFFD; the last two stand for their own bytes.
Plain == {"n", "v", "w", "astral", "subst"} \cup Units


JsonNull == [kind |-> "null"]
Str(s) == [kind |-> "str", chars |-> s]
Arr(vs) == [kind |-> "arr", items |-> vs]
Obj(f) == [kind |-> "obj", members |-> f]

Ws(t, i) == After(t, i, {"ws"})

-----------------------------------------------------------------------------
(***************************************************************************)
(* The parser: each reader takes the position it stands at.                *)
(***************************************************************************)

\* unicode_escape(), after \u: the character and the position behind it.
UnicodeEscape(t, i) ==
  CASE t[i] = "uHigh" ->
         IF Peek(t, i + 1) = "backslash" /\ Peek(t, i + 2) = "uLow"
         THEN <<"astral", i + 3>> ELSE <<"subst", i + 1>>
    [] t[i] = "uLow" -> <<"subst", i + 1>>
    [] t[i] = "uTwo" -> <<"two", i + 1>>
    [] t[i] = "uCtl" -> <<"ctl", i + 1>>

\* The character at i of a string, or <<>>: an escape, or one UTF-8 scalar.
Char(t, i) ==
  LET c == Peek(t, i)
      e == Peek(t, i + 1)
  IN  CASE c = "backslash" /\ e \in Units -> UnicodeEscape(t, i + 1)
        [] c = "backslash" /\ e = "n" -> <<"newline", i + 2>>
        [] c = "backslash" /\ e \in {"quote", "backslash"} -> <<e, i + 2>>
        [] c = "lead" /\ e = "cont" -> <<"two", i + 2>>
        [] c \in Plain -> <<c, i + 1>>
        [] OTHER -> <<>>

\* string(): out is what has been read.
RECURSIVE Chars(_, _, _)
Chars(t, i, out) ==
  IF Peek(t, i) = "quote" THEN Ok(out, i + 1)
  ELSE LET c == Char(t, i)
       IN  IF c = <<>> THEN Fail ELSE Chars(t, c[2], Append(out, c[1]))

ReadString(t, i) ==
  CASE Peek(t, i) \in Words -> Ok(Spelling(t[i]), i + 1)
    [] Peek(t, i) = "quote" -> Chars(t, i + 1, <<>>)
    [] OTHER -> Fail

\* value_at(), array() and object().
RECURSIVE ReadValue(_, _, _), ReadItems(_, _, _, _), ReadMembers(_, _, _, _)

ReadValue(t, i, depth) ==
  LET inside == Ws(t, i + 1)
  IN  IF depth > MaxDepth THEN Fail
      ELSE CASE Peek(t, i) = "null" -> Ok(JsonNull, i + 1)
             [] ReadString(t, i).ok -> Ok(Str(ReadString(t, i).value), ReadString(t, i).next)
             [] Peek(t, i) \in Digits \cup {"-"} -> ReadNumber(t, i)
             [] Peek(t, i) = "[" ->
                  IF Peek(t, inside) = "]" THEN Ok(Arr(<<>>), inside + 1)
                  ELSE ReadItems(t, inside, depth, <<>>)
             [] Peek(t, i) = "{" ->
                  IF Peek(t, inside) = "}" THEN Ok(Obj(<<>>), inside + 1)
                  ELSE ReadMembers(t, inside, depth, <<>>)
             [] OTHER -> Fail

ReadItems(t, i, depth, out) ==
  LET r == ReadValue(t, Ws(t, i), depth + 1)
      end == Ws(t, r.next)
  IN  IF ~r.ok THEN Fail
      ELSE CASE Peek(t, end) = "," -> ReadItems(t, end + 1, depth, Append(out, r.value))
             [] Peek(t, end) = "]" -> Ok(Arr(Append(out, r.value)), end + 1)
             [] OTHER -> Fail

\* out maps the keys read to their values: BTreeMap::insert replaces.
With(f, key, v) == [k \in DOMAIN f \cup {key} |-> IF k = key THEN v ELSE f[k]]

ReadMembers(t, i, depth, out) ==
  LET at == Ws(t, i)
      key == ReadString(t, at)
      colon == Ws(t, key.next)
      r == IF key.ok /\ Peek(t, colon) = ":"
           THEN ReadValue(t, Ws(t, colon + 1), depth + 1) ELSE Fail
      end == Ws(t, r.next)
  IN  IF ~r.ok THEN Fail
      ELSE LET all == With(out, key.value, r.value)
           IN  CASE Peek(t, end) = "," -> ReadMembers(t, end + 1, depth, all)
                 [] Peek(t, end) = "}" -> Ok(Obj(all), end + 1)
                 [] OTHER -> Fail

\* parse().
Parse(t) ==
  LET r == ReadValue(t, Ws(t, 1), 0)
  IN  IF r.ok /\ Ws(t, r.next) = Len(t) + 1 THEN r ELSE Fail

-----------------------------------------------------------------------------
(***************************************************************************)
(* The serializer.                                                         *)
(***************************************************************************)

\* write_string().
WriteChar(c) ==
  CASE c \in {"quote", "backslash"} -> <<"backslash", c>>
    [] c = "newline" -> <<"backslash", "n">>
    [] c = "ctl" -> <<"backslash", "uCtl">>
    [] c = "two" -> <<"lead", "cont">>
    [] OTHER -> <<c>>

WriteString(s) ==
  <<"quote">> \o FlattenSeq([i \in DOMAIN s |-> WriteChar(s[i])]) \o <<"quote">>

Joined(texts) ==
  FlattenSeq([i \in DOMAIN texts |-> IF i = 1 THEN texts[i] ELSE <<",">> \o texts[i]])

\* write_value(); the members of an object come in the order of their keys.
RECURSIVE Stringify(_)
Stringify(v) ==
  CASE v.kind = "null" -> <<"null">>
    [] v.kind = "num" -> FormatNumber(v.double)
    [] v.kind = "str" -> WriteString(v.chars)
    [] v.kind = "arr" ->
         <<"[">> \o Joined([i \in DOMAIN v.items |-> Stringify(v.items[i])]) \o <<"]">>
    [] v.kind = "obj" ->
         LET keys == SetToSeq(DOMAIN v.members)
         IN  <<"{">>
             \o Joined([i \in DOMAIN keys |->
                          WriteString(keys[i]) \o <<":">> \o Stringify(v.members[keys[i]])])
             \o <<"}">>

-----------------------------------------------------------------------------
(***************************************************************************)
(* The grammar of JSON, stated without a reading order: what a text        *)
(* denotes by every way to split it.                                       *)
(***************************************************************************)
Blank(t) == \A i \in DOMAIN t : t[i] = "ws"

Trim(t) ==
  LET ink == {i \in DOMAIN t : t[i] # "ws"}
  IN  IF ink = {} THEN <<>>
      ELSE Cut(t, CHOOSE i \in ink : \A j \in ink : i <= j,
                  CHOOSE i \in ink : \A j \in ink : i >= j)

\* The characters that a text between quotes spells, the longest escape first.
RECURSIVE Spelled(_)
Spelled(t) ==
  IF t = <<>> THEN {<<>>}
  ELSE LET Spells(prefix, c) ==
             IF IsPrefix(prefix, t) THEN {<<c>> \o s : s \in Spelled(Rest(t, Len(prefix) + 1))}
             ELSE {}
           pair == <<"backslash", "uHigh", "backslash", "uLow">>
       IN  UNION { Spells(pair, "astral"),
                   IF IsPrefix(pair, t) THEN {} ELSE Spells(<<"backslash", "uHigh">>, "subst"),
                   Spells(<<"backslash", "uLow">>, "subst"),
                   Spells(<<"backslash", "uTwo">>, "two"),
                   Spells(<<"backslash", "uCtl">>, "ctl"),
                   Spells(<<"backslash", "n">>, "newline"),
                   Spells(<<"backslash", "quote">>, "quote"),
                   Spells(<<"backslash", "backslash">>, "backslash"),
                   Spells(<<"lead", "cont">>, "two"),
                   UNION {Spells(<<c>>, c) : c \in Plain} }

Strings(t) ==
  {Spelling(w) : w \in {x \in Words : t = <<x>>}} \cup
  IF Len(t) >= 2 /\ t[1] = "quote" /\ t[Len(t)] = "quote"
  THEN Spelled(Cut(t, 2, Len(t) - 1)) ELSE {}

RECURSIVE Denotes(_, _), Listed(_, _), Paired(_, _)

Denotes(source, depth) ==
  LET t == Trim(source)
      inner == Cut(t, 2, Len(t) - 1)
      Between(l, r) == Len(t) >= 2 /\ t[1] = l /\ t[Len(t)] = r
  IN  IF depth > MaxDepth \/ t = <<>> THEN {}
      ELSE UNION {
        {JsonNull : x \in {t} \cap {<<"null">>}},
        IF IsNumber(t) THEN {Num(Double(t))} ELSE {},
        {Str(s) : s \in Strings(t)},
        IF Between("[", "]")
        THEN IF Blank(inner) THEN {Arr(<<>>)} ELSE {Arr(vs) : vs \in Listed(inner, depth + 1)}
        ELSE {},
        IF Between("{", "}")
        THEN IF Blank(inner) THEN {Obj(<<>>)}
             ELSE {Obj([k \in {p[i][1] : i \in DOMAIN p} |->
                          p[CHOOSE i \in DOMAIN p :
                              /\ p[i][1] = k
                              /\ \A j \in DOMAIN p : p[j][1] = k => j <= i][2]])
                     : p \in Paired(inner, depth + 1)}
        ELSE {} }

Listed(t, depth) ==
  {<<v>> : v \in Denotes(t, depth)}
  \cup UNION { {<<v>> \o vs : v \in Denotes(Cut(t, 1, i - 1), depth), vs \in Listed(Rest(t, i + 1), depth)}
               : i \in {j \in DOMAIN t : t[j] = ","} }

Paired(t, depth) ==
  LET Member(m) == UNION { {<<k, v>> : k \in Strings(Trim(Cut(m, 1, i - 1))), v \in Denotes(Rest(m, i + 1), depth)}
                           : i \in {j \in DOMAIN m : m[j] = ":"} }
  IN  {<<p>> : p \in Member(t)}
      \cup UNION { {<<p>> \o ps : p \in Member(Cut(t, 1, i - 1)), ps \in Paired(Rest(t, i + 1), depth)}
                   : i \in {j \in DOMAIN t : t[j] = ","} }

-----------------------------------------------------------------------------
JsonInit == alphabet = {} /\ text = <<>>

Choose ==
  /\ alphabet = {}
  /\ alphabet' \in {Structural, Numeric, Textual}
  /\ text' = CASE alphabet' = Textual -> <<"quote">>
               [] alphabet' = Structural -> <<"null">>
               [] OTHER -> <<>>

Type ==
  /\ alphabet \in {Numeric, Textual}
  /\ Len(text) < MaxText
  /\ \E s \in alphabet : text' = Append(text, s)
  /\ UNCHANGED alphabet

Shapes ==
  { <<"W">>, <<"[", "]">>, <<"[", "null", "]">>, <<"[", "null", ",", "null", "]">>,
    <<"{", "}">>, <<"{", "W", ":", "null", "}">>,
    <<"{", "W", ":", "null", ",", "V", ":", "null", "}">>,
    <<"{", "W", ":", "null", ",", "W", ":", "V", "}">> }

Spliced(t, i, j, piece) == SubSeq(t, 1, i - 1) \o piece \o SubSeq(t, j, Len(t))

Grow ==
  /\ alphabet = Structural
  /\ \E i \in {k \in DOMAIN text : text[k] = "null"}, shape \in Shapes :
       /\ Len(text) + Len(shape) <= MaxGrown
       /\ text' = Spliced(text, i, i + 1, shape)
  /\ UNCHANGED alphabet

\* A symbol is lost, doubled or changed, or one slips in.
Spoil ==
  /\ alphabet = Structural
  /\ \E i \in DOMAIN text, j \in {0, 1} :
       \E piece \in {<<>>} \cup {<<s>> : s \in Structural} :
         text' = Spliced(text, i, i + j, piece)
  /\ alphabet' = {"spoilt"}

JsonNext == Choose \/ Type \/ Grow \/ Spoil

\* What JSON can keep of a value: no infinite number, and a zero without sign.
RECURSIVE Kept(_)
Kept(v) ==
  CASE v.kind = "num" ->
         IF IsInfinite(v.double) THEN JsonNull
         ELSE IF IsZero(v.double) THEN Num([v.double EXCEPT !.negative = FALSE])
         ELSE v
    [] v.kind = "arr" -> Arr([i \in DOMAIN v.items |-> Kept(v.items[i])])
    [] v.kind = "obj" -> Obj([k \in DOMAIN v.members |-> Kept(v.members[k])])
    [] OTHER -> v

\* parse() and stringify(): a text is accepted exactly if it is JSON no deeper than the
\* limit, it is read as the value it denotes, a repeated key by its last member, and
\* what is written for a value is read as this value again, but for a number too large
\* for a double, which comes back as null, and the sign of minus zero: rows of JSON text
\* survive any number of reads and writes.
ReadsAndWritesJson ==
  LET r == Parse(text)
      written == Stringify(r.value)
  IN  /\ Denotes(text, 0) = IF r.ok THEN {r.value} ELSE {}
      /\ r.ok => Parse(written) = Ok(Kept(r.value), Len(written) + 1)

=============================================================================
