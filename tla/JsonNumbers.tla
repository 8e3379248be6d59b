---------------------------- MODULE JsonNumbers -----------------------------
(***************************************************************************)
(* json.rs: how the parser reads a number, how the serializer writes one,  *)
(* and what a number is.  A double is its sign, its decimal digits without *)
(* zeros at either end, and its power: 0.d1d2... times ten to the power.   *)
(***************************************************************************)
EXTENDS Integers, SequencesExt

CONSTANT Nearest(_)     \* the double nearest to a decimal, by its shortest digits

Numeric == {"-", "0", "1", ".", "e", "+"}
Digits == {"0", "1"}

Fail == [ok |-> FALSE]
Ok(v, i) == [ok |-> TRUE, value |-> v, next |-> i]

Num(x) == [kind |-> "num", double |-> x]

Peek(t, i) == IF i <= Len(t) THEN t[i] ELSE "end"

\* The first position from i on that holds none of these symbols.
After(t, i, symbols) ==
  CHOOSE j \in i .. Len(t) + 1 :
    /\ Peek(t, j) \notin symbols
    /\ \A k \in i .. j - 1 : t[k] \in symbols

\* Plausible bug: digits may follow a leading zero.
IntPartLoosely(t, i) == After(t, i, Digits)

\* The integer part of a number: 0 alone, or digits; i itself when there is none.
IntPart(t, i) == IF Peek(t, i) = "0" THEN i + 1 ELSE After(t, i, Digits)

\* The decimal that the text of a number writes; minus zero keeps its sign.
Decimal(t) ==
  LET exp == After(t, 1, Numeric \ {"e"})
      point == After(t, 1, Digits \cup {"-"})
      negative == t[1] = "-"
      DigitsOf(part) == SelectSeq(part, LAMBDA c : c \in Digits)
      mantissa == DigitsOf(SubSeq(t, 1, exp - 1))
      whole == Len(DigitsOf(SubSeq(t, 1, point - 1)))
      size == FoldLeft(LAMBDA n, c : 10 * n + (IF c = "1" THEN 1 ELSE 0), 0,
                       DigitsOf(SubSeq(t, exp, Len(t))))
      ink == {i \in DOMAIN mantissa : mantissa[i] # "0"}
      first == CHOOSE i \in ink : \A j \in ink : i <= j
      last == CHOOSE i \in ink : \A j \in ink : i >= j
  IN  IF ink = {} THEN [negative |-> negative, digits |-> <<>>, power |-> 0]
      ELSE [negative |-> negative,
            digits |-> SubSeq(mantissa, first, last),
            power |-> whole + 1 - first + (IF Peek(t, exp + 1) = "-" THEN -size ELSE size)]

\* text.parse::<f64>().
Double(t) == Nearest(Decimal(t))

\* number().
ReadNumber(t, i) ==
  LET int == IF t[i] = "-" THEN i + 1 ELSE i
      dot == IntPart(t, int)
      frac == IF Peek(t, dot) = "." THEN After(t, dot + 1, Digits) ELSE dot
      sign == IF Peek(t, frac) = "e" THEN frac + 1 ELSE frac
      exp == IF sign > frac /\ Peek(t, sign) \in {"+", "-"} THEN sign + 1 ELSE sign
      end == IF sign > frac THEN After(t, exp, Digits) ELSE frac
  IN  IF \/ dot = int
         \/ frac = dot + 1
         \/ sign > frac /\ end = exp
      THEN Fail
      ELSE Ok(Num(Double(SubSeq(t, i, end - 1))), end)

IsInfinite(x) == x.digits = <<"infinity">>
IsZero(x) == x.digits = <<>>

\* format_number(): an integer without fraction, anything else by Display, which writes
\* no exponent.
FormatNumber(x) ==
  LET n == Len(x.digits)
      Zeros(k) == [i \in 1 .. k |-> "0"]
      plain == IF x.power <= 0 THEN <<"0", ".">> \o Zeros(-x.power) \o x.digits
               ELSE IF x.power >= n THEN x.digits \o Zeros(x.power - n)
               ELSE SubSeq(x.digits, 1, x.power) \o <<".">> \o SubSeq(x.digits, x.power + 1, n)
  IN  CASE IsInfinite(x) -> <<"null">>
        [] IsZero(x) -> <<"0">>
        [] OTHER -> (IF x.negative THEN <<"-">> ELSE <<>>) \o plain

\* The doubles, for decimals of the digits 0 and 1: 1.1...e308 is finite, 1e309 is not,
\* 1e-323 is more than half of the least double, 1.1...e-324 is less.  Exact for up to
\* fifteen digits and above 1e-307; longer and smaller ones are rounded by f64.
NearestDouble(d) ==
  CASE IsZero(d) -> d
    [] d.power > 309 -> [d EXCEPT !.digits = <<"infinity">>, !.power = 0]
    [] d.power < -322 -> [d EXCEPT !.digits = <<>>, !.power = 0]
    [] OTHER -> d

-----------------------------------------------------------------------------
(***************************************************************************)
(* The grammar: a sign, an integer without leading zero, a fraction, an    *)
(* exponent, in every way to cut the text.                                 *)
(***************************************************************************)
Cut(t, i, j) == SubSeq(t, i, j)
Rest(t, i) == SubSeq(t, i, Len(t))

AreDigits(t) == t # <<>> /\ \A i \in DOMAIN t : t[i] \in Digits

IsInteger(t) == AreDigits(t) /\ (t[1] = "0" => Len(t) = 1)

IsNumber(t) ==
  \E i \in 0 .. Len(t) : \E j \in i .. Len(t) : \E k \in j .. Len(t) :
    LET sign == Cut(t, 1, i)
        int == Cut(t, i + 1, j)
        frac == Cut(t, j + 1, k)
        exp == Rest(t, k + 1)
    IN  /\ sign \in {<<>>, <<"-">>}
        /\ IsInteger(int)
        /\ frac # <<>> => Head(frac) = "." /\ AreDigits(Tail(frac))
        /\ exp # <<>> =>
             \E s \in {<<"e">>, <<"e", "+">>, <<"e", "-">>} :
               IsPrefix(s, exp) /\ AreDigits(Rest(exp, Len(s) + 1))

=============================================================================
