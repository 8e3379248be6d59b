--------------------------- MODULE BoundaryProofs ---------------------------
(***************************************************************************)
(* Theorems about what the process reads and believes: the requests on a   *)
(* connection, how long it reads them, the digests and the Base64 of what  *)
(* is signed, the signed tokens and deliveries they carry.                 *)
(***************************************************************************)
EXTENDS HttpConn, Signatures, Crypto, SequenceTheorems, WellFoundedInduction, TLAPS

-----------------------------------------------------------------------------
(***************************************************************************)
(* Short sequences.                                                        *)
(***************************************************************************)

\* A second element behind a first.
LEMMA SecondKey ==
  ASSUME NEW s \in Seq(Nat), Len(s) = 1, NEW e \in Nat
  PROVE  Append(s, e) \in Seq(Nat) /\ Len(Append(s, e)) = 2 /\ Append(s, e)[1] = s[1]
  <1>1. Append(s, e) \in Seq(Nat)  OBVIOUS
  <1>2. Len(Append(s, e)) = Len(s) + 1  BY AppendProperties
  <1>3. Len(Append(s, e)) = 2  BY <1>2
  <1>4. \A i \in 1 .. Len(s) : Append(s, e)[i] = s[i]  BY AppendProperties
  <1>5. Append(s, e)[1] = s[1]  BY <1>4
  <1> QED  BY <1>1, <1>3, <1>5

\* Of two elements the second is left when the first goes.
LEMMA FirstKeyGoes ==
  ASSUME NEW s \in Seq(Nat), Len(s) = 2
  PROVE  Tail(s) \in Seq(Nat) /\ Len(Tail(s)) = 1 /\ Tail(s)[1] = s[2]
  <1>1. ASSUME s = <<>> PROVE FALSE
    <2>1. Len(<<>>) = 0  OBVIOUS
    <2> QED  BY <1>1, <2>1
  <1>2. /\ Tail(s) \in Seq(Nat) /\ Len(Tail(s)) = Len(s) - 1
        /\ \A i \in 1 .. Len(Tail(s)) : Tail(s)[i] = s[i + 1]
    BY <1>1, HeadTailProperties
  <1>3. Len(Tail(s)) = 1  BY <1>2
  <1>4. Tail(s)[1] = s[1 + 1]  BY <1>2, <1>3
  <1>5. Tail(s)[1] = s[2]  BY <1>4
  <1> QED  BY <1>2, <1>3, <1>5

\* The first two of three.
LEMMA TakeTwo ==
  ASSUME NEW a, NEW b, NEW c
  PROVE  SubSeq(<<a, b, c>>, 1, 2) = <<a, b>>
  <1> DEFINE t == <<a, b, c>>  two == SubSeq(t, 1, 2)
  <1>1. t \in Seq({a, b, c}) /\ Len(t) = 3  OBVIOUS
  <1>2. two \in Seq({a, b, c}) /\ Len(two) = 2 /\ two[1] = t[1] /\ two[2] = t[2]
    <2>1. \A i \in 1 .. 2 : t[i] \in {a, b, c}  OBVIOUS
    <2> HIDE DEF t
    <2> QED  BY <2>1, SubSeqProperties, Z3
  <1> HIDE DEF two
  <1>3. two = <<two[1], two[2]>>  BY <1>2
  <1> QED  BY <1>2, <1>3 DEF two

-----------------------------------------------------------------------------
(***************************************************************************)
(* FlattenSeq, by which the wire is defined, is a recursive function.  What*)
(* holds of it for every length holds because no length is the least for   *)
(* which it does not.                                                      *)
(***************************************************************************)

Less == {p \in Nat \X Nat : p[1] < p[2]}

\* Of natural numbers with a property there is a least one.
LEMMA LeastNumber ==
  ASSUME NEW S \in SUBSET Nat, S # {}
  PROVE  \E n \in S : \A m \in S : n <= m
  <1>1. IsWellFoundedOn(Less, Nat)
    BY NatLessThanWellFounded DEF OpToRel, Less
  <1>2. PICK n \in S : \A m \in S : <<m, n>> \notin Less
    <2> HIDE DEF Less
    <2> QED
      BY <1>1, WFMin
  <1>3. \A m \in S : ~(m < n)
    BY <1>2 DEF Less
  <1> QED
    BY <1>2, <1>3

\* f joins the first n of s up.
JoinsUp(f, s, n) ==
  f = [i \in 1 .. n |-> IF i = 1 THEN s[i] ELSE f[i - 1] \o s[i]]

\* There is such a function.
LEMMA JoinsExist ==
  ASSUME NEW s, NEW n \in Nat
  PROVE  \E f : JoinsUp(f, s, n)
  <1> SUFFICES ASSUME ~\E f : JoinsUp(f, s, n) PROVE FALSE
    OBVIOUS
  <1> DEFINE Bad == {m \in Nat : ~\E f : JoinsUp(f, s, m)}
  <1>1. PICK m \in Bad : \A k \in Bad : m <= k
    <2>1. Bad \in SUBSET Nat /\ Bad # {}
      OBVIOUS
    <2> HIDE DEF Bad
    <2> QED
      BY <2>1, LeastNumber
  <1>2. m # 0
    <2>1. JoinsUp([i \in 1 .. 0 |-> 0], s, 0)
      BY DEF JoinsUp
    <2> QED
      BY <2>1
  <1>3. m - 1 \in Nat /\ m \in Nat
    BY <1>2
  <1>4. PICK f : JoinsUp(f, s, m - 1)
    <2>1. m - 1 \notin Bad
      BY <1>1, <1>3
    <2> QED
      BY <1>3, <2>1
  <1> DEFINE g == [i \in 1 .. m |-> IF i = m THEN IF m = 1 THEN s[m] ELSE f[m - 1] \o s[m]
                                    ELSE f[i]]
  <1>5. ASSUME NEW i \in 1 .. m
        PROVE  g[i] = IF i = 1 THEN s[i] ELSE g[i - 1] \o s[i]
    <2>1. CASE i = m
      BY <1>2, <1>3, <2>1
    <2>2. CASE i # m
      <3>1. i \in 1 .. m - 1 /\ g[i] = f[i] /\ (i # 1 => g[i - 1] = f[i - 1])
        BY <1>3, <2>2
      <3> QED
        BY <1>4, <3>1 DEF JoinsUp
    <2> QED
      BY <2>1, <2>2
  <1>6. JoinsUp(g, s, m)
    BY <1>5 DEF JoinsUp
  <1> QED
    BY <1>1, <1>6

\* Two of them agree as far as the sequences do.
LEMMA JoinsAgree ==
  ASSUME NEW a, NEW b, NEW m \in Nat, NEW n \in Nat, m <= n,
         \A i \in 1 .. m : a[i] = b[i],
         NEW f, JoinsUp(f, a, m), NEW g, JoinsUp(g, b, n)
  PROVE  \A i \in 1 .. m : f[i] = g[i]
  <1> SUFFICES ASSUME NEW j \in 1 .. m, f[j] # g[j] PROVE FALSE
    OBVIOUS
  <1> DEFINE Bad == {i \in 1 .. m : f[i] # g[i]}
  <1>1. PICK i \in Bad : \A k \in Bad : i <= k
    <2>1. Bad \in SUBSET Nat /\ Bad # {}
      OBVIOUS
    <2> HIDE DEF Bad
    <2> QED
      BY <2>1, LeastNumber
  <1>2. /\ i \in 1 .. m /\ i \in 1 .. n /\ i \in Nat
    OBVIOUS
  <1>3. /\ f[i] = IF i = 1 THEN a[i] ELSE f[i - 1] \o a[i]
        /\ g[i] = IF i = 1 THEN b[i] ELSE g[i - 1] \o b[i]
    BY <1>2 DEF JoinsUp
  <1>4. CASE i = 1
    BY <1>2, <1>3, <1>4
  <1>5. CASE i # 1
    <2>1. i - 1 \in 1 .. m /\ ~(i <= i - 1)
      BY <1>2, <1>5
    <2>2. f[i - 1] = g[i - 1]
      BY <1>1, <2>1
    <2> QED
      BY <1>1, <1>2, <1>3, <1>5, <2>1, <2>2
  <1> QED
    BY <1>4, <1>5

\* FlattenSeq is the last value of one.
LEMMA FlattenIs ==
  ASSUME NEW s, Len(s) \in Nat \ {0}
  PROVE  \E f : JoinsUp(f, s, Len(s)) /\ FlattenSeq(s) = f[Len(s)]
  <1> DEFINE f == CHOOSE f : JoinsUp(f, s, Len(s))
  <1>1. JoinsUp(f, s, Len(s))
    BY JoinsExist
  <1>2. FlattenSeq(s) = f[Len(s)]
    BY DEF FlattenSeq, JoinsUp
  <1> QED
    BY <1>1, <1>2

\* The first n of s, one after the other.
Joined(s, n) == FlattenSeq(SubSeq(s, 1, n))

\* None, and all.
LEMMA JoinedNone ==
  ASSUME NEW s PROVE Joined(s, 0) = <<>>
  BY SubSeqEmpty DEF Joined, FlattenSeq

\* All the pieces joined are the whole.
LEMMA JoinedAll ==
  ASSUME NEW T, NEW s \in Seq(T)
  PROVE  Joined(s, Len(s)) = FlattenSeq(s)
  BY SubSeqFull DEF Joined

\* w is u followed by v.
IsConcat(w, u, v) == w = u \o v

\* The last value is the one before it and the last of the sequence.
LEMMA JoinsMore ==
  ASSUME NEW a, NEW b, NEW n \in Nat, n # 0, \A i \in 1 .. n : a[i] = b[i],
         NEW f, JoinsUp(f, a, n), NEW g, JoinsUp(g, b, n + 1)
  PROVE  IsConcat(g[n + 1], f[n], b[n + 1])
  <1>1. n + 1 \in 1 .. n + 1 /\ n + 1 # 1 /\ (n + 1) - 1 = n /\ n \in 1 .. n /\ n <= n + 1
        /\ n + 1 \in Nat
    OBVIOUS
  <1>2. \A i \in 1 .. n + 1 : g[i] = IF i = 1 THEN b[i] ELSE g[i - 1] \o b[i]
    BY DEF JoinsUp
  <1>3. g[n + 1] = IF n + 1 = 1 THEN b[n + 1] ELSE g[(n + 1) - 1] \o b[n + 1]
    BY <1>1, <1>2
  <1>4. \A i \in 1 .. n : f[i] = g[i]
    BY <1>1, JoinsAgree
  <1> QED
    BY <1>1, <1>3, <1>4 DEF IsConcat

\* One more at the end is joined to what there is.
LEMMA FlattenMore ==
  ASSUME NEW a, NEW b, NEW n \in Nat, n # 0, Len(a) = n, Len(b) = n + 1,
         \A i \in 1 .. n : a[i] = b[i]
  PROVE  IsConcat(FlattenSeq(b), FlattenSeq(a), b[n + 1])
  <1>1. PICK f : JoinsUp(f, a, n) /\ FlattenSeq(a) = f[n]
    BY FlattenIs
  <1>2. PICK g : JoinsUp(g, b, n + 1) /\ FlattenSeq(b) = g[n + 1]
    BY FlattenIs
  <1>3. IsConcat(g[n + 1], f[n], b[n + 1])
    BY <1>1, <1>2, JoinsMore
  <1> QED
    BY <1>1, <1>2, <1>3

\* What is joined next goes to the end.
LEMMA JoinedMore ==
  ASSUME NEW T, NEW s \in Seq(Seq(T)), NEW n \in Nat, n < Len(s)
  PROVE  Joined(s, n + 1) = Joined(s, n) \o s[n + 1]
  <1> DEFINE before == SubSeq(s, 1, n)
             after == SubSeq(s, 1, n + 1)
  <1>1. /\ Len(before) = n /\ Len(after) = n + 1
        /\ \A i \in 1 .. n : before[i] = after[i]
        /\ after[n + 1] = s[n + 1] /\ s[n + 1] \in Seq(T)
    OBVIOUS
  <1>2. Joined(s, n) = FlattenSeq(before) /\ Joined(s, n + 1) = FlattenSeq(after)
    BY DEF Joined
  <1> HIDE DEF before, after
  <1>3. CASE n = 0
    <2>1. FlattenSeq(after) = after[1]
      <3>1. Len(after) = 1 /\ Len(after) \in Nat \ {0}
        BY <1>1, <1>3
      <3>2. PICK f : JoinsUp(f, after, 1) /\ FlattenSeq(after) = f[1]
        BY <3>1, FlattenIs
      <3> QED
        BY <3>2 DEF JoinsUp
    <2>2. Joined(s, n) = <<>>
      BY <1>3, JoinedNone
    <2>3. <<>> \o s[n + 1] = s[n + 1]
      BY <1>1, ConcatEmptySeq
    <2> QED
      BY <1>1, <1>2, <1>3, <2>1, <2>2, <2>3
  <1>4. CASE n # 0
    <2>1. IsConcat(FlattenSeq(after), FlattenSeq(before), after[n + 1])
      BY <1>1, <1>4, FlattenMore
    <2> QED
      BY <1>1, <1>2, <2>1 DEF IsConcat
  <1> QED
    BY <1>3, <1>4

\* Sequences are joined to one of the same elements.
LEMMA JoinedIsSeq ==
  ASSUME NEW T, NEW s \in Seq(Seq(T)), NEW n \in 0 .. Len(s)
  PROVE  Joined(s, n) \in Seq(T)
  <1> SUFFICES ASSUME Joined(s, n) \notin Seq(T) PROVE FALSE
    OBVIOUS
  <1> DEFINE Bad == {m \in 0 .. Len(s) : Joined(s, m) \notin Seq(T)}
  <1>1. PICK m \in Bad : \A k \in Bad : m <= k
    <2>1. Bad \in SUBSET Nat /\ Bad # {}
      OBVIOUS
    <2> HIDE DEF Bad
    <2> QED
      BY <2>1, LeastNumber
  <1>2. m # 0
    BY JoinedNone, EmptySeq
  <1>3. m - 1 \in Nat /\ m - 1 < Len(s) /\ ~(m <= m - 1) /\ (m - 1) + 1 = m /\ m \in 1 .. Len(s)
    BY <1>2
  <1>4. Joined(s, m - 1) \in Seq(T)
    BY <1>1, <1>3
  <1>5. Joined(s, m) = Joined(s, m - 1) \o s[m]
    BY <1>3, JoinedMore
  <1>6. s[m] \in Seq(T)
    BY <1>3
  <1> QED
    BY <1>1, <1>4, <1>5, <1>6, ConcatProperties

\* What is joined stays where it is when more is joined to it.
JoinedKept(s, n, k) ==
  /\ Len(Joined(s, n)) <= Len(Joined(s, k))
  /\ \A i \in 1 .. Len(Joined(s, n)) : Joined(s, k)[i] = Joined(s, n)[i]

\* The first n pieces joined are a beginning of the first m, for m from n on.
LEMMA JoinedStays ==
  ASSUME NEW T, NEW s \in Seq(Seq(T)), NEW n \in 0 .. Len(s), NEW m \in n .. Len(s)
  PROVE  JoinedKept(s, n, m)
  <1> SUFFICES ASSUME ~JoinedKept(s, n, m) PROVE FALSE
    OBVIOUS
  <1> DEFINE Bad == {k \in n .. Len(s) : ~JoinedKept(s, n, k)}
  <1>1. PICK k \in Bad : \A j \in Bad : k <= j
    <2>1. Bad \in SUBSET Nat /\ Bad # {}
      OBVIOUS
    <2> HIDE DEF Bad
    <2> QED
      BY <2>1, LeastNumber
  <1>2. Joined(s, n) \in Seq(T) /\ Len(Joined(s, n)) \in Nat
    BY JoinedIsSeq, LenProperties
  <1>3. k # n
    BY <1>2 DEF JoinedKept
  <1>4. PICK j \in Nat : /\ j = k - 1 /\ k = j + 1 /\ j < Len(s) /\ ~(k <= j)
                         /\ j \in n .. Len(s) /\ j \in 0 .. Len(s) /\ k \in 1 .. Len(s)
    BY <1>3
  <1>5. JoinedKept(s, n, j)
    BY <1>1, <1>4
  <1>6. ~JoinedKept(s, n, k)
    OBVIOUS
  <1> HIDE DEF Bad
  <1>7. Joined(s, k) = Joined(s, j) \o s[k]
    BY <1>4, JoinedMore
  <1>8. s[k] \in Seq(T) /\ Joined(s, j) \in Seq(T)
    BY <1>4, JoinedIsSeq
  <1>9. /\ Len(Joined(s, k)) = Len(Joined(s, j)) + Len(s[k])
        /\ Len(s[k]) \in Nat /\ Len(Joined(s, j)) \in Nat
        /\ \A i \in 1 .. Len(Joined(s, j)) : Joined(s, k)[i] = Joined(s, j)[i]
    BY <1>7, <1>8
  <1>10. JoinedKept(s, n, k)
    BY <1>2, <1>5, <1>9 DEF JoinedKept
  <1> QED
    BY <1>6, <1>10

\* The place of each octet of a piece in the whole.
LEMMA JoinedAt ==
  ASSUME NEW T, NEW s \in Seq(Seq(T)), NEW n \in Nat, n < Len(s)
  PROVE  /\ Len(Joined(s, n)) \in Nat
         /\ Len(Joined(s, n + 1)) = Len(Joined(s, n)) + Len(s[n + 1])
         /\ Len(Joined(s, n + 1)) <= Len(FlattenSeq(s))
         /\ \A j \in 1 .. Len(s[n + 1]) :
              FlattenSeq(s)[Len(Joined(s, n)) + j] = s[n + 1][j]
  <1>1. n \in 0 .. Len(s) /\ n + 1 \in 0 .. Len(s) /\ Len(s) \in n + 1 .. Len(s) /\ n + 1 \in 1 .. Len(s)
    OBVIOUS
  <1>2. Joined(s, n) \in Seq(T) /\ s[n + 1] \in Seq(T)
    BY <1>1, JoinedIsSeq
  <1>3. Joined(s, n + 1) = Joined(s, n) \o s[n + 1]
    BY JoinedMore
  <1>4. FlattenSeq(s) = Joined(s, Len(s))
    BY JoinedAll
  <1>5. /\ Len(Joined(s, n + 1)) <= Len(FlattenSeq(s))
        /\ \A i \in 1 .. Len(Joined(s, n + 1)) : FlattenSeq(s)[i] = Joined(s, n + 1)[i]
    BY <1>1, <1>4, JoinedStays DEF JoinedKept
  <1>6. /\ Len(Joined(s, n)) \in Nat /\ Len(s[n + 1]) \in Nat
        /\ Len(Joined(s, n + 1)) = Len(Joined(s, n)) + Len(s[n + 1])
        /\ \A j \in 1 .. Len(s[n + 1]) : Joined(s, n + 1)[Len(Joined(s, n)) + j] = s[n + 1][j]
    BY <1>2, <1>3
  <1> QED
    BY <1>5, <1>6

-----------------------------------------------------------------------------
(***************************************************************************)
(* Where everything is on the wire: the line, the fields and the body of a *)
(* request, each chunk of a body, each request of a conversation.          *)
(***************************************************************************)

\* The pieces of a request, its chunks as they are sent, and the length of its head.
PiecesOf(r) ==
  ToSet(r.fields) \cup {r.line, r.end, Eol} \cup ({"size"} \X Nat)
  \cup UNION {ToSet(c) : c \in ToSet(r.chunks)}

ChunkWires(r) ==
  [i \in DOMAIN r.chunks |-> << <<"size", Len(r.chunks[i])>> >> \o r.chunks[i] \o <<r.end>>]

HeadLen(r) == r.blank + Len(r.fields) + 2

\* The parts of a legible request are sequences of its pieces.
LEMMA RequestTyped ==
  ASSUME NEW r, Legible(r)
  PROVE  /\ r.blank \in Nat
         /\ r.fields \in Seq(PiecesOf(r))
         /\ r.chunks \in Seq(Seq(PiecesOf(r)))
         /\ BodyOf(r) \in Seq(PiecesOf(r))
  <1> DEFINE T == PiecesOf(r)
  <1>1. r.blank \in Nat /\ r.fields \in Seq(ToSet(r.fields)) /\ r.chunks \in Seq(ToSet(r.chunks))
        /\ \A c \in ToSet(r.chunks) : c \in Seq(ToSet(c))
    BY DEF Legible
  <1>2. ToSet(r.fields) \subseteq T /\ \A c \in ToSet(r.chunks) : ToSet(c) \subseteq T
    BY DEF PiecesOf
  <1> HIDE DEF T
  <1>3. r.fields \in Seq(T)
    BY <1>1, <1>2, SeqMonotonic
  <1>4. ToSet(r.chunks) \subseteq Seq(T)
    BY <1>1, <1>2, SeqMonotonic
  <1>5. r.chunks \in Seq(Seq(T))
    BY <1>1, <1>4, SeqMonotonic
  <1>6. BodyOf(r) \in Seq(T)
    <2>1. Len(r.chunks) \in 0 .. Len(r.chunks)
      BY <1>5, LenProperties
    <2>2. Joined(r.chunks, Len(r.chunks)) \in Seq(T)
      BY <1>5, <2>1, JoinedIsSeq
    <2> QED
      BY <1>5, <2>2, JoinedAll DEF BodyOf
  <1> QED
    BY <1>1, <1>3, <1>5, <1>6 DEF T

\* One chunk on the wire.
LEMMA OneChunk ==
  ASSUME NEW T, NEW size \in T, NEW c \in Seq(T), NEW end \in T
  PROVE  LET w == <<size>> \o c \o <<end>>
         IN  /\ w \in Seq(T)
             /\ Len(w) = Len(c) + 2
             /\ w[1] = size
             /\ \A j \in 1 .. Len(c) : w[j + 1] = c[j]
             /\ w[Len(c) + 2] = end
  <1> DEFINE v == <<size>> \o c
  <1>1. /\ <<size>> \in Seq(T) /\ Len(<<size>>) = 1 /\ <<size>>[1] = size
        /\ <<end>> \in Seq(T) /\ Len(<<end>>) = 1 /\ <<end>>[1] = end
        /\ Len(c) \in Nat
    OBVIOUS
  <1>2. v \in Seq(T) /\ Len(v) = 1 + Len(c)
        /\ \A i \in 1 .. 1 + Len(c) : v[i] = IF i <= 1 THEN <<size>>[i] ELSE c[i - 1]
    BY <1>1, ConcatProperties
  <1> HIDE DEF v
  <1>3. v \o <<end>> \in Seq(T) /\ Len(v \o <<end>>) = Len(c) + 2
        /\ \A i \in 1 .. Len(c) + 2 : (v \o <<end>>)[i] = IF i <= 1 + Len(c) THEN v[i] ELSE <<end>>[i - (1 + Len(c))]
    BY <1>1, <1>2, ConcatProperties
  <1>4. (v \o <<end>>)[1] = size /\ (v \o <<end>>)[Len(c) + 2] = end
    BY <1>1, <1>2, <1>3
  <1>5. \A j \in 1 .. Len(c) : (v \o <<end>>)[j + 1] = c[j]
    BY <1>1, <1>2, <1>3
  <1> QED
    BY <1>3, <1>4, <1>5 DEF v

\* The i-th chunk on the wire.
LEMMA ChunkTyped ==
  ASSUME NEW r, Legible(r), NEW i \in 1 .. Len(r.chunks)
  PROVE  LET w == ChunkWires(r)[i]
             c == r.chunks[i]
         IN  /\ c \in Seq(PiecesOf(r)) /\ w \in Seq(PiecesOf(r))
             /\ Len(w) = Len(c) + 2 /\ w[1] = <<"size", Len(c)>> /\ w[Len(c) + 2] = r.end
             /\ \A j \in 1 .. Len(c) : w[j + 1] = c[j]
  <1> DEFINE T == PiecesOf(r)
             c == r.chunks[i]
             size == <<"size", Len(c)>>
  <1>1. r.chunks \in Seq(Seq(T))
    BY RequestTyped
  <1>2. r.end \in T /\ \A n \in Nat : <<"size", n>> \in T
    BY DEF PiecesOf
  <1> HIDE DEF T
  <1>3. c \in Seq(T) /\ Len(c) \in Nat
    BY <1>1, ElementOfSeq, LenProperties
  <1>4. size \in T
    BY <1>2, <1>3
  <1>5. ChunkWires(r)[i] = <<size>> \o c \o <<r.end>>
    BY <1>1, LenProperties DEF ChunkWires
  <1> HIDE DEF c, size
  <1>6. LET w == <<size>> \o c \o <<r.end>>
        IN  /\ w \in Seq(T) /\ Len(w) = Len(c) + 2 /\ w[1] = size /\ w[Len(c) + 2] = r.end
            /\ \A j \in 1 .. Len(c) : w[j + 1] = c[j]
    BY <1>2, <1>3, <1>4, OneChunk
  <1> QED
    BY <1>3, <1>5, <1>6 DEF T, c, size

\* All of them.
LEMMA ChunksTyped ==
  ASSUME NEW r, Legible(r)
  PROVE  ChunkWires(r) \in Seq(Seq(PiecesOf(r))) /\ Len(ChunkWires(r)) = Len(r.chunks)
  <1> DEFINE T == PiecesOf(r)
             W(i) == << <<"size", Len(r.chunks[i])>> >> \o r.chunks[i] \o <<r.end>>
  <1>1. Len(r.chunks) \in Nat /\ DOMAIN r.chunks = 1 .. Len(r.chunks)
    BY RequestTyped, LenProperties
  <1>2. ChunkWires(r) = [i \in 1 .. Len(r.chunks) |-> W(i)]
    BY <1>1 DEF ChunkWires
  <1>3. \A i \in 1 .. Len(r.chunks) : ChunkWires(r)[i] \in Seq(T)
    BY ChunkTyped
  <1> HIDE DEF T, W
  <1>4. \A i \in 1 .. Len(r.chunks) : W(i) \in Seq(T)
    BY <1>2, <1>3
  <1>5. ChunkWires(r) \in Seq(Seq(T)) /\ Len(ChunkWires(r)) = Len(r.chunks)
    BY <1>1, <1>2, <1>4
  <1> QED
    BY <1>5 DEF T

\* A body goes out as it is or, with a coding, in chunks.
LEMMA BodyWireForms ==
  ASSUME NEW r, Legible(r)
  PROVE  /\ BodyWire(r) \in Seq(PiecesOf(r))
         /\ Codings(r.fields) = <<>> => BodyWire(r) = BodyOf(r)
         /\ Codings(r.fields) # <<>> =>
              BodyWire(r) = FlattenSeq(ChunkWires(r)) \o << <<"size", 0>>, Eol >>
  <1> DEFINE T == PiecesOf(r)
  <1>1. Codings(r.fields) = <<>> => BodyWire(r) = BodyOf(r)
    BY DEF BodyWire
  <1>2. Codings(r.fields) # <<>> =>
          BodyWire(r) = FlattenSeq(ChunkWires(r)) \o << <<"size", 0>>, Eol >>
    BY DEF BodyWire, ChunkWires
  <1>3. FlattenSeq(ChunkWires(r)) \in Seq(T)
    <2>1. ChunkWires(r) \in Seq(Seq(T))
      BY ChunksTyped
    <2> HIDE DEF T
    <2>2. Len(ChunkWires(r)) \in 0 .. Len(ChunkWires(r))
      BY <2>1, LenProperties
    <2> QED
      BY <2>1, <2>2, JoinedIsSeq, JoinedAll
  <1>4. << <<"size", 0>>, Eol >> \in Seq(T)
    <2>1. <<"size", 0>> \in T /\ Eol \in T
      BY DEF PiecesOf
    <2> HIDE DEF T
    <2> QED
      BY <2>1
  <1>5. BodyOf(r) \in Seq(T)
    BY RequestTyped
  <1> QED
    BY <1>1, <1>2, <1>3, <1>4, <1>5, ConcatProperties

\* Two sequences, one after the other.
LEMMA Glue ==
  ASSUME NEW T, NEW s \in Seq(T), NEW t \in Seq(T), NEW w, IsConcat(w, s, t)
  PROVE  /\ w \in Seq(T) /\ Len(w) = Len(s) + Len(t)
         /\ \A i \in 1 .. Len(s) : w[i] = s[i]
         /\ \A i \in 1 .. Len(t) : w[Len(s) + i] = t[i]
  BY DEF IsConcat

\* Where everything is in a request.
LEMMA WireLayout ==
  ASSUME NEW r, Legible(r)
  PROVE  /\ Wire(r) \in Seq(PiecesOf(r))
         /\ Len(Wire(r)) = HeadLen(r) + Len(BodyWire(r))
         /\ \A j \in 1 .. r.blank : Wire(r)[j] = Eol
         /\ Wire(r)[r.blank + 1] = r.line
         /\ \A j \in 1 .. Len(r.fields) : Wire(r)[r.blank + 1 + j] = r.fields[j]
         /\ Wire(r)[HeadLen(r)] = Eol
         /\ \A j \in 1 .. Len(BodyWire(r)) : Wire(r)[HeadLen(r) + j] = BodyWire(r)[j]
  <1> DEFINE T == PiecesOf(r)
             b == r.blank
             n == Len(r.fields)
             blanks == [i \in 1 .. b |-> Eol]
             one == blanks \o <<r.line>>
             two == one \o r.fields
             three == two \o <<Eol>>
  <1>1. /\ b \in Nat /\ r.fields \in Seq(T) /\ n \in Nat
        /\ BodyWire(r) \in Seq(T) /\ Len(BodyWire(r)) \in Nat
    BY RequestTyped, BodyWireForms, LenProperties
  <1>2. r.line \in T /\ Eol \in T
    BY DEF PiecesOf
  <1>3. Wire(r) = three \o BodyWire(r)
    BY DEF Wire
  <1> HIDE DEF T
  <1>4. /\ blanks \in Seq(T) /\ Len(blanks) = b /\ \A i \in 1 .. b : blanks[i] = Eol
        /\ <<r.line>> \in Seq(T) /\ Len(<<r.line>>) = 1 /\ <<r.line>>[1] = r.line
        /\ <<Eol>> \in Seq(T) /\ Len(<<Eol>>) = 1 /\ <<Eol>>[1] = Eol
    <2> HIDE DEF b
    <2> QED
      BY <1>1, <1>2
  <1> HIDE DEF b, n, blanks
  <1>5. /\ one \in Seq(T) /\ Len(one) = b + 1 /\ one[b + 1] = r.line
        /\ \A i \in 1 .. b : one[i] = Eol
    <2>1. IsConcat(one, blanks, <<r.line>>)
      BY DEF IsConcat
    <2>2. blanks \in Seq(T) /\ <<r.line>> \in Seq(T)
      BY <1>4
    <2>3. /\ one \in Seq(T) /\ Len(one) = Len(blanks) + Len(<<r.line>>)
          /\ \A i \in 1 .. Len(blanks) : one[i] = blanks[i]
          /\ \A i \in 1 .. Len(<<r.line>>) : one[Len(blanks) + i] = <<r.line>>[i]
      BY <2>1, <2>2, Glue
    <2> QED
      BY <1>1, <1>4, <2>3
  <1> HIDE DEF one
  <1>6. /\ two \in Seq(T) /\ Len(two) = b + 1 + n
        /\ \A i \in 1 .. b + 1 : two[i] = one[i]
        /\ \A i \in 1 .. n : two[b + 1 + i] = r.fields[i]
    <2>1. IsConcat(two, one, r.fields)
      BY DEF IsConcat
    <2>2. one \in Seq(T) /\ r.fields \in Seq(T)
      BY <1>1, <1>5
    <2>3. /\ two \in Seq(T) /\ Len(two) = Len(one) + Len(r.fields)
          /\ \A i \in 1 .. Len(one) : two[i] = one[i]
          /\ \A i \in 1 .. Len(r.fields) : two[Len(one) + i] = r.fields[i]
      BY <2>1, <2>2, Glue
    <2> QED
      BY <1>1, <1>5, <2>3 DEF n
  <1> HIDE DEF two
  <1>7. /\ three \in Seq(T) /\ Len(three) = b + n + 2 /\ three[b + n + 2] = Eol
        /\ \A i \in 1 .. b + 1 + n : three[i] = two[i]
    <2>1. IsConcat(three, two, <<Eol>>)
      BY DEF IsConcat
    <2>2. two \in Seq(T) /\ <<Eol>> \in Seq(T)
      BY <1>4, <1>6
    <2>3. /\ three \in Seq(T) /\ Len(three) = Len(two) + Len(<<Eol>>)
          /\ \A i \in 1 .. Len(two) : three[i] = two[i]
          /\ \A i \in 1 .. Len(<<Eol>>) : three[Len(two) + i] = <<Eol>>[i]
      BY <2>1, <2>2, Glue
    <2>4. (b + 1 + n) + 1 = b + n + 2
      BY <1>1
    <2> QED
      BY <1>1, <1>4, <1>6, <2>3, <2>4
  <1> HIDE DEF three
  <1>8. /\ Wire(r) \in Seq(T) /\ Len(Wire(r)) = b + n + 2 + Len(BodyWire(r))
        /\ \A i \in 1 .. b + n + 2 : Wire(r)[i] = three[i]
        /\ \A i \in 1 .. Len(BodyWire(r)) : Wire(r)[b + n + 2 + i] = BodyWire(r)[i]
    <2>1. IsConcat(Wire(r), three, BodyWire(r))
      BY <1>3 DEF IsConcat
    <2>2. three \in Seq(T) /\ BodyWire(r) \in Seq(T)
      BY <1>1, <1>3, <1>7
    <2>3. /\ Wire(r) \in Seq(T) /\ Len(Wire(r)) = Len(three) + Len(BodyWire(r))
          /\ \A i \in 1 .. Len(three) : Wire(r)[i] = three[i]
          /\ \A i \in 1 .. Len(BodyWire(r)) : Wire(r)[Len(three) + i] = BodyWire(r)[i]
      BY <2>1, <2>2, Glue
    <2> QED
      BY <1>7, <2>3
  <1>9. HeadLen(r) = b + n + 2
    BY <1>1 DEF HeadLen, b, n
  <1>10. \A i \in 1 .. b + 1 : Wire(r)[i] = one[i]
    BY <1>1, <1>6, <1>7, <1>8
  <1>11. \A j \in 1 .. b : Wire(r)[j] = Eol
    BY <1>1, <1>5, <1>10
  <1>12. Wire(r)[b + 1] = r.line
    BY <1>1, <1>5, <1>10
  <1>13. \A i \in 1 .. n : Wire(r)[b + 1 + i] = two[b + 1 + i]
    <2> TAKE i \in 1 .. n
    <2>1. b + 1 + i \in 1 .. b + 1 + n /\ b + 1 + i \in 1 .. b + n + 2
      BY <1>1
    <2> QED
      BY <1>7, <1>8, <2>1
  <1>14. Wire(r)[b + n + 2] = Eol
    BY <1>1, <1>7, <1>8
  <1> QED
    BY <1>6, <1>8, <1>9, <1>11, <1>12, <1>13, <1>14 DEF T, b, n

\* Where the chunks are in a body, and what ends them.
LEMMA ChunkLayout ==
  ASSUME NEW r, Legible(r), Codings(r.fields) # <<>>
  PROVE  LET all == Len(Joined(ChunkWires(r), Len(r.chunks)))
         IN  /\ all \in Nat /\ Len(BodyWire(r)) = all + 2
             /\ BodyWire(r)[all + 1] = <<"size", 0>> /\ BodyWire(r)[all + 2] = Eol
             /\ \A k \in Nat : k < Len(r.chunks) =>
                  LET c == r.chunks[k + 1]
                      at == Len(Joined(ChunkWires(r), k))
                  IN  /\ at \in Nat /\ Len(c) \in Nat
                      /\ Len(Joined(ChunkWires(r), k + 1)) = at + Len(c) + 2
                      /\ at + Len(c) + 2 <= all
                      /\ BodyWire(r)[at + 1] = <<"size", Len(c)>>
                      /\ \A j \in 1 .. Len(c) : BodyWire(r)[at + 1 + j] = c[j]
                      /\ BodyWire(r)[at + Len(c) + 2] = r.end
  <1> DEFINE T == PiecesOf(r)
             s == ChunkWires(r)
             w == FlattenSeq(s)
             tail == << <<"size", 0>>, Eol >>
  <1>1. /\ s \in Seq(Seq(T)) /\ Len(s) = Len(r.chunks) /\ Len(s) \in Nat
    BY ChunksTyped, LenProperties
  <1>2. BodyWire(r) = w \o tail
    BY BodyWireForms
  <1>3. tail \in Seq(T) /\ Len(tail) = 2 /\ tail[1] = <<"size", 0>> /\ tail[2] = Eol
    <2>1. <<"size", 0>> \in T /\ Eol \in T
      BY DEF PiecesOf
    <2> HIDE DEF T
    <2> QED
      BY <2>1
  <1> HIDE DEF T, tail
  <1>4. w \in Seq(T) /\ w = Joined(s, Len(s)) /\ Len(w) \in Nat
    <2>1. Len(s) \in 0 .. Len(s)
      BY <1>1
    <2> QED
      BY <1>1, <2>1, JoinedIsSeq, JoinedAll, LenProperties
  <1>5. /\ Len(BodyWire(r)) = Len(w) + 2
        /\ \A i \in 1 .. Len(w) : BodyWire(r)[i] = w[i]
        /\ \A i \in 1 .. 2 : BodyWire(r)[Len(w) + i] = tail[i]
    <2> HIDE DEF w
    <2>1. IsConcat(BodyWire(r), w, tail)
      BY <1>2 DEF IsConcat
    <2>2. w \in Seq(T) /\ tail \in Seq(T)
      BY <1>2, <1>3, <1>4
    <2>3. /\ Len(BodyWire(r)) = Len(w) + Len(tail)
          /\ \A i \in 1 .. Len(w) : BodyWire(r)[i] = w[i]
          /\ \A i \in 1 .. Len(tail) : BodyWire(r)[Len(w) + i] = tail[i]
      BY <2>1, <2>2, Glue
    <2> QED
      BY <1>3, <2>3
  <1>6. BodyWire(r)[Len(w) + 1] = <<"size", 0>> /\ BodyWire(r)[Len(w) + 2] = Eol
    <2> HIDE DEF w
    <2> QED
      BY <1>3, <1>4, <1>5
  <1>7. ASSUME NEW k \in Nat, k < Len(r.chunks)
        PROVE  LET c == r.chunks[k + 1]
                   at == Len(Joined(s, k))
               IN  /\ at \in Nat /\ Len(c) \in Nat
                   /\ Len(Joined(s, k + 1)) = at + Len(c) + 2
                   /\ at + Len(c) + 2 <= Len(w)
                   /\ BodyWire(r)[at + 1] = <<"size", Len(c)>>
                   /\ \A j \in 1 .. Len(c) : BodyWire(r)[at + 1 + j] = c[j]
                   /\ BodyWire(r)[at + Len(c) + 2] = r.end
    <2> DEFINE c == r.chunks[k + 1]
               at == Len(Joined(s, k))
               v == s[k + 1]
    <2>1. k + 1 \in 1 .. Len(r.chunks)
      BY <1>1, <1>7
    <2>2. /\ c \in Seq(PiecesOf(r)) /\ Len(v) = Len(c) + 2 /\ v[1] = <<"size", Len(c)>>
          /\ v[Len(c) + 2] = r.end /\ \A j \in 1 .. Len(c) : v[j + 1] = c[j]
      <3> DEFINE x == k + 1
      <3>1. x \in 1 .. Len(r.chunks)
        BY <2>1
      <3> HIDE DEF x
      <3>2. LET y == r.chunks[x]
                z == ChunkWires(r)[x]
            IN  /\ y \in Seq(PiecesOf(r)) /\ Len(z) = Len(y) + 2 /\ z[1] = <<"size", Len(y)>>
                /\ z[Len(y) + 2] = r.end /\ \A j \in 1 .. Len(y) : z[j + 1] = y[j]
        BY <3>1, ChunkTyped, ZenonT(30)
      <3> QED
        BY <3>2 DEF x
    <2>3. Len(c) \in Nat
      BY <2>2, LenProperties
    <2>4. /\ at \in Nat
          /\ Len(Joined(s, k + 1)) = at + Len(v)
          /\ Len(Joined(s, k + 1)) <= Len(w)
          /\ \A j \in 1 .. Len(v) : w[at + j] = v[j]
      <3> HIDE DEF s
      <3> QED
        BY <1>1, <1>7, JoinedAt DEF s
    <2> HIDE DEF w, s, c, at, v
    <2>5. at + Len(c) + 2 <= Len(w) /\ Len(Joined(s, k + 1)) = at + Len(c) + 2
      BY <2>2, <2>3, <2>4
    <2>6. \A j \in 1 .. Len(c) + 2 : BodyWire(r)[at + j] = v[j]
      <3> TAKE j \in 1 .. Len(c) + 2
      <3>1. at + j \in 1 .. Len(w) /\ j \in 1 .. Len(v)
        BY <1>4, <2>2, <2>3, <2>4, <2>5
      <3> QED
        BY <1>5, <2>4, <3>1
    <2>7. BodyWire(r)[at + 1] = v[1] /\ BodyWire(r)[at + (Len(c) + 2)] = v[Len(c) + 2]
      BY <2>3, <2>6
    <2>8. \A j \in 1 .. Len(c) : BodyWire(r)[at + 1 + j] = v[j + 1]
      BY <2>3, <2>4, <2>6
    <2>9. at + (Len(c) + 2) = at + Len(c) + 2
      BY <2>3, <2>4
    <2> QED
      BY <2>2, <2>3, <2>4, <2>5, <2>7, <2>8, <2>9 DEF c, at
  <1> QED
    BY <1>1, <1>4, <1>5, <1>6, <1>7

\* The requests of a conversation as they are sent, and where the one after n begins.
Wires(talk) == [i \in DOMAIN talk |-> Wire(talk[i])]
From(talk, n) == Len(Joined(Wires(talk), n))

\* A conversation is a sequence of legible requests, and each goes out as a sequence.
LEMMA TalkTyped ==
  ASSUME NEW talk \in Conversations
  PROVE  /\ Len(talk) \in Nat /\ DOMAIN talk = 1 .. Len(talk)
         /\ \A i \in 1 .. Len(talk) : Legible(talk[i])
  <1>1. talk \in Seq(ToSet(talk)) /\ \A r \in ToSet(talk) : Legible(r)
    BY ConversationsAssumption
  <1>2. Len(talk) \in Nat /\ DOMAIN talk = 1 .. Len(talk)
    BY <1>1, LenProperties
  <1> QED
    BY <1>1, <1>2 DEF ToSet

\* A conversation has one wire text for each request, a sequence of symbols.
LEMMA WiresTyped ==
  ASSUME NEW talk \in Conversations
  PROVE  /\ \E T : Wires(talk) \in Seq(Seq(T))
         /\ Len(Wires(talk)) = Len(talk)
         /\ \A i \in 1 .. Len(talk) : Wires(talk)[i] = Wire(talk[i])
  <1> DEFINE T == UNION {PiecesOf(talk[i]) : i \in 1 .. Len(talk)}
             W(i) == Wire(talk[i])
  <1>1. Len(talk) \in Nat /\ DOMAIN talk = 1 .. Len(talk)
    BY TalkTyped
  <1>2. ASSUME NEW i \in 1 .. Len(talk)
        PROVE  Wire(talk[i]) \in Seq(T)
    <2>1. Wire(talk[i]) \in Seq(PiecesOf(talk[i]))
      BY TalkTyped, WireLayout
    <2>2. PiecesOf(talk[i]) \subseteq T
      OBVIOUS
    <2> HIDE DEF T
    <2> QED
      BY <2>1, <2>2, SeqMonotonic
  <1> HIDE DEF T
  <1>3. Wires(talk) = [i \in 1 .. Len(talk) |-> W(i)]
    BY <1>1 DEF Wires
  <1>4. \A i \in 1 .. Len(talk) : W(i) \in Seq(T)
    BY <1>2
  <1>5. \A i \in 1 .. Len(talk) : Wires(talk)[i] = Wire(talk[i])
    BY <1>3
  <1> HIDE DEF W
  <1>6. Wires(talk) \in Seq(Seq(T)) /\ Len(Wires(talk)) = Len(talk)
    BY <1>1, <1>3, <1>4
  <1> QED
    BY <1>5, <1>6

\* All of a conversation.
Stream(talk) == FlattenSeq(Wires(talk))

\* It begins at 0 and ends with the stream.
LEMMA StreamIs == stream = Stream(conversation)
  BY DEF stream, Stream, Wires

\* The first request begins where the stream begins.
LEMMA TalkBegins ==
  ASSUME NEW talk \in Conversations PROVE From(talk, 0) = 0
  BY JoinedNone, EmptySeq DEF From

\* After the last request the stream ends.
LEMMA TalkEnds ==
  ASSUME NEW talk \in Conversations
  PROVE  From(talk, Len(talk)) = Len(Stream(talk)) /\ Len(Stream(talk)) \in Nat
  <1>1. PICK T : Wires(talk) \in Seq(Seq(T)) /\ Len(Wires(talk)) = Len(talk)
    BY WiresTyped
  <1>2. Stream(talk) = Joined(Wires(talk), Len(talk))
    BY <1>1, JoinedAll DEF Stream
  <1>3. Stream(talk) \in Seq(T)
    <2>1. Len(talk) \in 0 .. Len(Wires(talk))
      BY <1>1, LenProperties
    <2> QED
      BY <1>1, <1>2, <2>1, JoinedIsSeq
  <1> QED
    BY <1>2, <1>3, LenProperties DEF From

\* Where a request of a conversation is.
LEMMA TalkLayout ==
  ASSUME NEW talk \in Conversations, NEW n \in Nat, n < Len(talk)
  PROVE  LET r == talk[n + 1]
             w == Wire(r)
         IN  /\ Legible(r)
             /\ From(talk, n) \in Nat /\ Len(w) \in Nat
             /\ From(talk, n + 1) = From(talk, n) + Len(w)
             /\ From(talk, n + 1) <= Len(Stream(talk))
             /\ \A j \in 1 .. Len(w) : Stream(talk)[From(talk, n) + j] = w[j]
  <1>1. PICK T : Wires(talk) \in Seq(Seq(T)) /\ Len(Wires(talk)) = Len(talk)
                 /\ \A i \in 1 .. Len(talk) : Wires(talk)[i] = Wire(talk[i])
    BY WiresTyped
  <1>2. n + 1 \in 1 .. Len(talk)
    BY TalkTyped
  <1>3. Legible(talk[n + 1]) /\ Wires(talk)[n + 1] = Wire(talk[n + 1])
    BY <1>1, <1>2, TalkTyped
  <1>4. Len(Wire(talk[n + 1])) \in Nat
    BY <1>3, WireLayout, LenProperties
  <1>5. /\ Len(Joined(Wires(talk), n)) \in Nat
        /\ Len(Joined(Wires(talk), n + 1)) = Len(Joined(Wires(talk), n)) + Len(Wires(talk)[n + 1])
        /\ Len(Joined(Wires(talk), n + 1)) <= Len(Stream(talk))
        /\ \A j \in 1 .. Len(Wires(talk)[n + 1]) :
             Stream(talk)[Len(Joined(Wires(talk), n)) + j] = Wires(talk)[n + 1][j]
    BY <1>1, JoinedAt DEF Stream
  <1> QED
    BY <1>3, <1>4, <1>5 DEF From

\* What the reader finds: in the head of a request, and behind it.
LEMMA HeadPieces ==
  ASSUME NEW talk \in Conversations, NEW n \in Nat, n < Len(talk)
  PROVE  LET r == talk[n + 1]
             at == From(talk, n)
         IN  /\ at \in Nat /\ r.blank \in Nat /\ Len(r.fields) \in Nat /\ Len(BodyWire(r)) \in Nat
             /\ HeadLen(r) = r.blank + Len(r.fields) + 2
             /\ From(talk, n + 1) = at + HeadLen(r) + Len(BodyWire(r))
             /\ From(talk, n + 1) <= Len(Stream(talk))
             /\ \A j \in 1 .. r.blank : Stream(talk)[at + j] = Eol
             /\ Stream(talk)[at + r.blank + 1] = r.line
             /\ \A j \in 1 .. Len(r.fields) : Stream(talk)[at + r.blank + 1 + j] = r.fields[j]
             /\ Stream(talk)[at + HeadLen(r)] = Eol
             /\ \A j \in 1 .. Len(BodyWire(r)) : Stream(talk)[at + HeadLen(r) + j] = BodyWire(r)[j]
  <1> DEFINE r == talk[n + 1]
             at == From(talk, n)
             w == Wire(r)
             s == Stream(talk)
  <1>1. /\ Legible(r) /\ at \in Nat /\ Len(w) \in Nat
        /\ From(talk, n + 1) = at + Len(w) /\ From(talk, n + 1) <= Len(s)
        /\ \A j \in 1 .. Len(w) : s[at + j] = w[j]
    BY TalkLayout
  <1> HIDE DEF r, at, w, s
  <1>2. /\ r.blank \in Nat /\ Len(r.fields) \in Nat /\ Len(BodyWire(r)) \in Nat
    BY <1>1, RequestTyped, BodyWireForms, LenProperties
  <1>3. /\ Len(w) = HeadLen(r) + Len(BodyWire(r))
        /\ \A j \in 1 .. r.blank : w[j] = Eol
        /\ w[r.blank + 1] = r.line
        /\ \A j \in 1 .. Len(r.fields) : w[r.blank + 1 + j] = r.fields[j]
        /\ w[HeadLen(r)] = Eol
        /\ \A j \in 1 .. Len(BodyWire(r)) : w[HeadLen(r) + j] = BodyWire(r)[j]
    BY <1>1, WireLayout DEF w
  <1>4. HeadLen(r) = r.blank + Len(r.fields) + 2 /\ HeadLen(r) \in Nat
    BY <1>2 DEF HeadLen
  <1> DEFINE b == r.blank
             m == Len(r.fields)
             l == Len(BodyWire(r))
             h == HeadLen(r)
             k == Len(w)
  <1>5. /\ b \in Nat /\ m \in Nat /\ l \in Nat /\ h = b + m + 2 /\ k = h + l /\ at \in Nat
    BY <1>1, <1>2, <1>3, <1>4
  <1> HIDE DEF b, m, l, h, k
  <1>6. /\ b + 1 \in 1 .. k /\ h \in 1 .. k
        /\ \A j \in 1 .. m : b + 1 + j \in 1 .. k /\ at + b + 1 + j = at + (b + 1 + j)
        /\ \A j \in 1 .. l : h + j \in 1 .. k /\ at + h + j = at + (h + j)
    BY <1>5
  <1>7. /\ r.blank + 1 \in 1 .. Len(w) /\ HeadLen(r) \in 1 .. Len(w)
        /\ \A j \in 1 .. Len(r.fields) :
             r.blank + 1 + j \in 1 .. Len(w) /\ at + r.blank + 1 + j = at + (r.blank + 1 + j)
        /\ \A j \in 1 .. Len(BodyWire(r)) :
             HeadLen(r) + j \in 1 .. Len(w) /\ at + HeadLen(r) + j = at + (HeadLen(r) + j)
    BY <1>6 DEF b, m, l, h, k
  <1>8. \A j \in 1 .. r.blank : s[at + j] = Eol
    <2> TAKE j \in 1 .. r.blank
    <2>1. j \in 1 .. Len(w)
      <3>1. j \in 1 .. b
        BY DEF b
      <3>2. j \in 1 .. k
        BY <1>5, <3>1
      <3> QED
        BY <3>2 DEF k
    <2> QED
      BY <1>1, <1>3, <2>1
  <1>9. s[at + (r.blank + 1)] = r.line /\ s[at + HeadLen(r)] = Eol
    <2>1. r.blank + 1 \in 1 .. Len(w) /\ HeadLen(r) \in 1 .. Len(w)
      BY <1>7
    <2> QED
      BY <1>1, <1>3, <2>1
  <1>10. ASSUME NEW j \in 1 .. Len(r.fields) PROVE s[at + r.blank + 1 + j] = r.fields[j]
    <2>1. r.blank + 1 + j \in 1 .. Len(w) /\ at + r.blank + 1 + j = at + (r.blank + 1 + j)
      BY <1>7
    <2>2. s[at + (r.blank + 1 + j)] = w[r.blank + 1 + j]
      BY <1>1, <2>1
    <2> QED
      BY <1>3, <2>1, <2>2
  <1>11. ASSUME NEW j \in 1 .. Len(BodyWire(r)) PROVE s[at + HeadLen(r) + j] = BodyWire(r)[j]
    <2>1. HeadLen(r) + j \in 1 .. Len(w) /\ at + HeadLen(r) + j = at + (HeadLen(r) + j)
      BY <1>7
    <2>2. s[at + (HeadLen(r) + j)] = w[HeadLen(r) + j]
      BY <1>1, <2>1
    <2> QED
      BY <1>3, <2>1, <2>2
  <1>12. at + (r.blank + 1) = at + r.blank + 1
         /\ at + (HeadLen(r) + Len(BodyWire(r))) = at + HeadLen(r) + Len(BodyWire(r))
    <2>1. at + (b + 1) = at + b + 1 /\ at + (h + l) = at + h + l
      BY <1>5
    <2> QED
      BY <2>1 DEF b, h, l
  <1> QED
    BY <1>1, <1>2, <1>3, <1>4, <1>8, <1>9, <1>10, <1>11, <1>12 DEF r, at, s

-----------------------------------------------------------------------------
(***************************************************************************)
(* The reader's invariant: where in the conversation it is.  All requests  *)
(* before the one it reads have been handed over as they were sent; of that*)
(* one it holds what it has read, and is behind the piece it read last.    *)
(***************************************************************************)

\* The request after the first n.
Req(n) == conversation[n + 1]
Start(n) == From(conversation, n)

\* Where the client and the reader are.
PlaceInv ==
  /\ conversation \in Conversations
  /\ sent \in 0 .. Len(stream) /\ pos \in 0 .. sent

\* The first n requests have been handed over; all but the last let the connection stay.
Served(n) ==
  /\ n \in 0 .. Len(conversation)
  /\ handled = [i \in 1 .. n |-> [fields |-> conversation[i].fields,
                                  body |-> BodyOf(conversation[i])]]
  /\ \A j \in 1 .. n : WellFormed(conversation[j])
  /\ \A j \in 1 .. n - 1 : Stays(conversation[j])

Answered(n) == answers = [i \in 1 .. n |-> 200]

\* The first n requests have been served, and the connection is open for the next.
Open(n) ==
  /\ Served(n) /\ Answered(n)
  /\ n > 0 => Stays(conversation[n])

\* Before the request line.
InHead(n) ==
  /\ phase = "head" /\ Open(n)
  /\ fields = <<>> /\ body = <<>>
  /\ used \in Nat /\ pos = Start(n) + used
  /\ IF n = Len(conversation) THEN used = 0 ELSE used <= Req(n).blank

\* Of the request the line has been read, and its first k fields.
LineRead(n) == Req(n).line \in {<<"line", "1.1">>, <<"line", "1.0">>} /\ version = Req(n).line[2]

FieldsRead(n, k) ==
  /\ k \in 0 .. Len(Req(n).fields)
  /\ fields = SubSeq(Req(n).fields, 1, k)
  /\ \A i \in 1 .. k : Req(n).fields[i][1] \in FieldNames
  /\ used = Req(n).blank + 1 + k /\ pos = Start(n) + used

InFields(n) ==
  /\ phase = "fields" /\ Open(n) /\ n < Len(conversation)
  /\ LineRead(n) /\ body = <<>>
  /\ \E k \in Nat : FieldsRead(n, k)

\* The fields of a request agree on how its body ends.
Framed(r) ==
  LET lens == Lengths(r.fields)  te == Codings(r.fields) IN
  /\ lens = <<>> \/ te = <<>>
  /\ te # <<>> => te[1] = Chunked
  /\ \A l \in ToSet(lens) : l = lens[1]
  /\ lens # <<>> => lens[1] = <<"content-length", Len(BodyOf(r))>> /\ Len(BodyOf(r)) <= MaxBody
  /\ lens = <<>> /\ te = <<>> => BodyOf(r) = <<>>

\* The whole head has been read, and read_body has not refused it.
HeadRead(n) ==
  /\ Open(n) /\ n < Len(conversation)
  /\ LineRead(n) /\ fields = Req(n).fields
  /\ \A f \in ToSet(Req(n).fields) : f[1] \in FieldNames
  /\ Framed(Req(n))
  /\ used = HeadLen(Req(n)) /\ used <= MaxHead

\* In a body with a length.
InOctets(n) ==
  /\ phase = "octets" /\ HeadRead(n)
  /\ Lengths(fields) # <<>>
  /\ \E k \in Nat :
       /\ k < Len(BodyOf(Req(n)))
       /\ body = SubSeq(BodyOf(Req(n)), 1, k)
       /\ want = Len(BodyOf(Req(n))) - k
       /\ pos = Start(n) + HeadLen(Req(n)) + k

\* The first k chunks have been read; the reader is j pieces on.
ChunksRead(n, k, j) ==
  /\ HeadRead(n) /\ Codings(fields) # <<>>
  /\ k \in 0 .. Len(Req(n).chunks) /\ Len(body) <= MaxBody
  /\ k > 0 => Req(n).end = Eol
  /\ pos = Start(n) + HeadLen(Req(n)) + Len(Joined(ChunkWires(Req(n)), k)) + j

\* Before the size of a chunk, in the chunk, behind it, and before the last line.
AtSize(n) ==
  /\ phase = "size"
  /\ \E k \in Nat : ChunksRead(n, k, 0) /\ body = Joined(Req(n).chunks, k)

InChunk(n) ==
  /\ phase = "octets"
  /\ \E k, m \in Nat :
       LET c == Req(n).chunks[k + 1] IN
       /\ k < Len(Req(n).chunks) /\ m < Len(c)
       /\ ChunksRead(n, k, m + 1)
       /\ body = Joined(Req(n).chunks, k) \o SubSeq(c, 1, m)
       /\ want = Len(c) - m /\ Len(body) + want <= MaxBody

AtChunkEnd(n) ==
  /\ phase = "crlf"
  /\ \E k \in Nat :
       /\ k < Len(Req(n).chunks)
       /\ ChunksRead(n, k, Len(Req(n).chunks[k + 1]) + 1)
       /\ body = Joined(Req(n).chunks, k + 1)

AtTrailer(n) ==
  /\ phase = "trailer"
  /\ ChunksRead(n, Len(Req(n).chunks), 1) /\ body = BodyOf(Req(n))

\* A request has been handed over and is not answered yet.
AtHandler(n) ==
  /\ phase = "handler"
  /\ Served(n + 1) /\ Answered(n)
  /\ LineRead(n) /\ fields = Req(n).fields
  /\ pos = Start(n + 1)

\* The last answer, to the request after the first n, says that it is refused.
Refusal(n) ==
  /\ n < Len(conversation) /\ ~WellFormed(Req(n))
  /\ \E status : status \notin {200, 408}
                  /\ answers = Append([i \in 1 .. n |-> 200], status)

\* No more is read.
Over(n) ==
  /\ phase = "closed" /\ Served(n)
  /\ (\A i \in DOMAIN answers : answers[i] \in {200, 408}) \/ Refusal(n)

\* All the places there are.
ReaderAt(n) ==
  \/ InHead(n) \/ InFields(n)
  \/ InOctets(n) \/ AtSize(n) \/ InChunk(n) \/ AtChunkEnd(n) \/ AtTrailer(n)
  \/ AtHandler(n) \/ Over(n)

ReaderInv == PlaceInv /\ \E n \in Nat : ReaderAt(n)

-----------------------------------------------------------------------------

\* No step reads past what has arrived, or changes the conversation.
LEMMA PlaceKept ==
  ASSUME PlaceInv, [Next]_vars PROVE PlaceInv' /\ UNCHANGED conversation
  <1>1. Len(stream) \in Nat /\ sent \in Nat /\ pos \in Nat
    BY StreamIs, TalkEnds DEF PlaceInv
  <1>2. CASE UNCHANGED vars
    <2>1. UNCHANGED <<conversation, sent, pos>>
      BY <1>2 DEF vars, client
    <2> QED
      BY <2>1 DEF PlaceInv, stream
  <1>3. CASE Send
    BY <1>1, <1>3 DEF Send, PlaceInv, stream
  <1>4. CASE StopSending \/ Tick
    BY <1>4 DEF StopSending, Tick, client, PlaceInv, stream
  <1>5. CASE ReadLine \/ ReadBody \/ TimeOut \/ EndOfStream \/ Answer \/ WriteFails
    <2>1. UNCHANGED client
      BY <1>5 DEF ReadLine, ReadBody, TimeOut, EndOfStream, Answer, WriteFails, BlankLine,
        RequestLine, BadRequestLine, Field, BadField, EndOfHead, TooLong, Octet, ChunkEnd,
        BadChunk, ChunkSize, ChunkTooLarge, Trailer, Fail
    <2>2. UNCHANGED pos \/ (pos < sent /\ pos' = pos + 1)
      BY <1>5 DEF ReadLine, ReadBody, TimeOut, EndOfStream, Answer, WriteFails, BlankLine,
        RequestLine, BadRequestLine, Field, BadField, EndOfHead, TooLong, Octet, ChunkEnd,
        BadChunk, ChunkSize, ChunkTooLarge, Trailer, ReadsNext, Available
    <2> QED
      BY <1>1, <2>1, <2>2 DEF client, PlaceInv, stream
  <1> QED
    BY <1>2, <1>3, <1>4, <1>5 DEF Next

\* Nothing is left to read behind the last request.
LEMMA NotBehind ==
  ASSUME PlaceInv, Available, NEW n \in Nat, n <= Len(conversation),
         n = Len(conversation) => pos = Start(n)
  PROVE  n < Len(conversation)
  <1>1. Len(stream) \in Nat /\ sent \in Nat /\ pos \in Nat /\ Len(stream) = Start(Len(conversation))
    BY StreamIs, TalkEnds DEF PlaceInv, Start
  <1>2. pos < Len(stream)
    BY <1>1 DEF PlaceInv, Available
  <1>3. Len(conversation) \in Nat
    BY TalkTyped DEF PlaceInv
  <1> QED
    BY <1>1, <1>2, <1>3

\* The pieces of the request that is read.
LEMMA PieceOfHead ==
  ASSUME PlaceInv, NEW n \in Nat, n < Len(conversation)
  PROVE  LET r == Req(n) IN
         /\ Legible(r) /\ Start(n) \in Nat /\ r.blank \in Nat /\ Len(r.fields) \in Nat
         /\ HeadLen(r) = r.blank + Len(r.fields) + 2
         /\ \A j \in Nat : pos = Start(n) + j =>
              /\ j < r.blank => Piece = Eol
              /\ j = r.blank => Piece = r.line
         /\ \A j \in Nat : pos = Start(n) + (r.blank + 1 + j) =>
              /\ j < Len(r.fields) => Piece = r.fields[j + 1]
              /\ j = Len(r.fields) => Piece = Eol
  <1> DEFINE r == Req(n)
             s == Stream(conversation)
             at == Start(n)
  <1>1. /\ at \in Nat /\ r.blank \in Nat /\ Len(r.fields) \in Nat
        /\ HeadLen(r) = r.blank + Len(r.fields) + 2
        /\ \A j \in 1 .. r.blank : s[at + j] = Eol
        /\ s[at + r.blank + 1] = r.line
        /\ \A j \in 1 .. Len(r.fields) : s[at + r.blank + 1 + j] = r.fields[j]
        /\ s[at + HeadLen(r)] = Eol
    BY HeadPieces DEF PlaceInv, Start, Req
  <1>2. Legible(r)
    BY TalkLayout DEF PlaceInv, Req
  <1>3. Piece = s[pos + 1]
    BY StreamIs DEF Piece
  <1> HIDE DEF r, s, at
  <1>4. ASSUME NEW j \in Nat, pos = at + j
        PROVE  (j < r.blank => Piece = Eol) /\ (j = r.blank => Piece = r.line)
    <2>1. pos + 1 = at + (j + 1)
      BY <1>1, <1>4
    <2>2. j < r.blank => j + 1 \in 1 .. r.blank
      BY <1>1
    <2>3. j = r.blank => pos + 1 = at + r.blank + 1
      BY <1>1, <1>4
    <2> QED
      BY <1>1, <1>3, <2>1, <2>2, <2>3
  <1>5. ASSUME NEW j \in Nat, pos = at + (r.blank + 1 + j)
        PROVE  /\ j < Len(r.fields) => Piece = r.fields[j + 1]
               /\ j = Len(r.fields) => Piece = Eol
    <2>1. pos + 1 = at + r.blank + 1 + (j + 1)
      <3> DEFINE b == r.blank
      <3>1. at \in Nat /\ b \in Nat /\ pos = at + (b + 1 + j)
        BY <1>1, <1>5
      <3> HIDE DEF b
      <3>2. pos + 1 = at + b + 1 + (j + 1)
        BY <3>1
      <3> QED
        BY <3>2 DEF b
    <2>2. j < Len(r.fields) => j + 1 \in 1 .. Len(r.fields)
      BY <1>1
    <2>3. j = Len(r.fields) => pos + 1 = at + HeadLen(r)
      <3> DEFINE b == r.blank
                 l == Len(r.fields)
      <3>1. at \in Nat /\ b \in Nat /\ l \in Nat /\ pos = at + (b + 1 + j) /\ HeadLen(r) = b + l + 2
        BY <1>1, <1>5
      <3> HIDE DEF b, l
      <3>2. j = l => pos + 1 = at + HeadLen(r)
        BY <3>1
      <3> QED
        BY <3>2 DEF l
    <2>4. j < Len(r.fields) => s[at + r.blank + 1 + (j + 1)] = r.fields[j + 1]
      BY <1>1, <2>2
    <2> QED
      BY <1>1, <1>3, <2>1, <2>3, <2>4
  <1> QED
    BY <1>1, <1>2, <1>4, <1>5 DEF r, at

\* The pieces of its body.
LEMMA PieceOfBody ==
  ASSUME PlaceInv, NEW n \in Nat, n < Len(conversation)
  PROVE  LET r == Req(n) IN
         /\ Start(n) \in Nat /\ HeadLen(r) \in Nat /\ Len(BodyWire(r)) \in Nat
         /\ Start(n + 1) = Start(n) + HeadLen(r) + Len(BodyWire(r))
         /\ \A j \in Nat : j < Len(BodyWire(r)) /\ pos = Start(n) + HeadLen(r) + j
                             => Piece = BodyWire(r)[j + 1]
  <1> DEFINE r == Req(n)
             s == Stream(conversation)
             at == Start(n)
             w == BodyWire(r)
  <1>1. /\ at \in Nat /\ r.blank \in Nat /\ Len(r.fields) \in Nat /\ Len(w) \in Nat
        /\ HeadLen(r) = r.blank + Len(r.fields) + 2
        /\ Start(n + 1) = at + HeadLen(r) + Len(w)
        /\ \A j \in 1 .. Len(w) : s[at + HeadLen(r) + j] = w[j]
    BY HeadPieces DEF PlaceInv, Start, Req
  <1>2. Piece = s[pos + 1]
    BY StreamIs DEF Piece
  <1> HIDE DEF r, s, at, w
  <1>3. HeadLen(r) \in Nat
    BY <1>1
  <1>4. ASSUME NEW j \in Nat, j < Len(w), pos = at + HeadLen(r) + j
        PROVE  Piece = w[j + 1]
    <2> DEFINE h == HeadLen(r)
               l == Len(w)
    <2>1. at \in Nat /\ h \in Nat /\ l \in Nat /\ j < l /\ pos = at + h + j
      BY <1>1, <1>3, <1>4
    <2> HIDE DEF h, l
    <2>2. pos + 1 = at + h + (j + 1) /\ j + 1 \in 1 .. l
      BY <2>1
    <2>3. pos + 1 = at + HeadLen(r) + (j + 1)
      BY <2>2 DEF h
    <2>4. j + 1 \in 1 .. Len(w)
      BY <2>2 DEF l
    <2> QED
      BY <1>1, <1>2, <2>3, <2>4
  <1> QED
    BY <1>1, <1>3, <1>4 DEF r, at, w

-----------------------------------------------------------------------------
(***************************************************************************)
(* Each step of the reader, from each place it can be at.                  *)
(***************************************************************************)

\* What a step within a request leaves as it is.
LEMMA OpenKept ==
  ASSUME NEW n, Open(n), UNCHANGED <<conversation, handled, answers>>
  PROVE  Open(n)' /\ UNCHANGED <<Req(n), Start(n)>>
  BY DEF Open, Served, Answered, Req, Start

\* A step that leaves client, head, handlers and answers alone keeps what was read of a head.
LEMMA HeadKept ==
  ASSUME NEW n, HeadRead(n), UNCHANGED <<client, head, handled, answers>>
  PROVE  HeadRead(n)' /\ UNCHANGED <<Req(n), Start(n), fields, conversation>>
  <1>1. UNCHANGED <<conversation, fields, used, version>>
    BY DEF client, head
  <1>2. Open(n)' /\ UNCHANGED <<Req(n), Start(n)>>
    BY <1>1, OpenKept DEF HeadRead
  <1> QED
    BY <1>1, <1>2 DEF HeadRead, LineRead

\* A connection that ends, with an answer that refuses the request or without.
LEMMA Ends ==
  ASSUME NEW n \in Nat, Open(n), NEW status, phase' = "closed",
         UNCHANGED <<conversation, handled>>,
         answers' = IF status = 0 THEN answers ELSE Append(answers, status),
         status \notin {0, 408} =>
           status # 200 /\ n < Len(conversation) /\ ~WellFormed(Req(n))
  PROVE  Over(n)'
  <1>1. Served(n)'
    BY DEF Open, Served
  <1>2. answers = [i \in 1 .. n |-> 200]
    BY DEF Open, Answered
  <1>3. CASE status \in {0, 408}
    <2>1. \A i \in DOMAIN answers' : answers'[i] \in {200, 408}
      BY <1>2, <1>3
    <2> QED
      BY <1>1, <2>1 DEF Over
  <1>4. CASE status \notin {0, 408}
    <2>1. Refusal(n)'
      BY <1>2, <1>4 DEF Refusal, Req
    <2> QED
      BY <1>1, <2>1 DEF Over
  <1> QED
    BY <1>3, <1>4

\* A refusal with a status the request deserves, or a silent close, ends the connection rightly.
LEMMA FailEnds ==
  ASSUME NEW n \in Nat, Open(n), NEW status, Fail(status),
         status \notin {0, 408} =>
           status # 200 /\ n < Len(conversation) /\ ~WellFormed(Req(n))
  PROVE  Over(n)'
  BY Ends DEF Fail, client

\* A client that is late or stops.
LEMMA WaitsOrStops ==
  ASSUME NEW n \in Nat, Open(n), TimeOut \/ EndOfStream
  PROVE  Over(n)'
  <1>1. PICK status \in {0, 408} : Fail(status)
    BY DEF TimeOut, EndOfStream
  <1> QED
    BY <1>1, FailEnds

\* The reader stays where it is while others take steps.
LEMMA Stutters ==
  ASSUME NEW n \in Nat, ReaderAt(n),
         UNCHANGED <<conversation, pos, phase, head, body, want, handled, answers>>
  PROVE  ReaderAt(n)'
  <1>1. UNCHANGED <<conversation, pos, phase, used, fields, version, body, want, handled, answers>>
        /\ UNCHANGED <<Req(n), Start(n), Start(n + 1)>>
    BY DEF head, Req, Start
  <1>2. Open(n) => Open(n)'
    BY OpenKept
  <1>3. HeadRead(n) => HeadRead(n)'
    BY <1>1, <1>2 DEF HeadRead, LineRead
  <1>4. InHead(n) => InHead(n)'
    BY <1>1, <1>2 DEF InHead
  <1>5. InFields(n) => InFields(n)'
    BY <1>1, <1>2 DEF InFields, LineRead, FieldsRead
  <1>6. InOctets(n) => InOctets(n)'
    BY <1>1, <1>3 DEF InOctets
  <1>7. \A k, j : ChunksRead(n, k, j) => ChunksRead(n, k, j)'
    BY <1>1, <1>3 DEF ChunksRead
  <1>8. AtSize(n) => AtSize(n)'
    BY <1>1, <1>7 DEF AtSize
  <1>9. InChunk(n) => InChunk(n)'
    BY <1>1, <1>7 DEF InChunk
  <1>10. AtChunkEnd(n) => AtChunkEnd(n)'
    BY <1>1, <1>7 DEF AtChunkEnd
  <1>11. AtTrailer(n) => AtTrailer(n)'
    BY <1>1, <1>7 DEF AtTrailer
  <1>12. AtHandler(n) => AtHandler(n)'
    BY <1>1 DEF AtHandler, Served, Answered, LineRead
  <1>13. Over(n) => Over(n)'
    BY <1>1 DEF Over, Served, Refusal
  <1> QED
    BY <1>4, <1>5, <1>6, <1>8, <1>9, <1>10, <1>11, <1>12, <1>13 DEF ReaderAt

\* What a request that is not well formed may lack.
LEMMA IllFormed ==
  ASSUME NEW r, Legible(r),
         \/ r.line \notin {<<"line", "1.1">>, <<"line", "1.0">>}
         \/ \E k \in Nat : k < Len(r.fields) /\ r.fields[k + 1][1] \notin FieldNames
         \/ r.blank >= MaxHead \/ r.blank + Len(r.fields) + 1 >= MaxHead
         \/ Codings(r.fields) # <<>> /\ HeadLen(r) >= MaxHead
         \/ Codings(r.fields) # <<>> /\ r.chunks # <<>> /\ r.end # Eol
         \/ Len(BodyOf(r)) > MaxBody
  PROVE  ~WellFormed(r)
  <1> SUFFICES ASSUME WellFormed(r) PROVE FALSE
    OBVIOUS
  <1>1. r.blank \in Nat /\ Len(r.fields) \in Nat /\ Len(BodyOf(r)) \in Nat
        /\ DOMAIN r.fields = 1 .. Len(r.fields)
    BY RequestTyped, LenProperties
  <1>2. /\ r.line \in {<<"line", "1.1">>, <<"line", "1.0">>}
        /\ \A f \in ToSet(r.fields) : f[1] \in FieldNames
        /\ r.blank + Len(r.fields) + 2 + (IF Codings(r.fields) = <<>> THEN 0 ELSE 1) <= MaxHead
        /\ Codings(r.fields) # <<>> => (r.chunks # <<>> => r.end = Eol)
        /\ Len(BodyOf(r)) <= MaxBody
    BY DEF WellFormed
  <1>3. MaxHead \in Nat /\ MaxBody \in Nat
    BY HttpAssumption
  <1>4. \A k \in Nat : k < Len(r.fields) => r.fields[k + 1] \in ToSet(r.fields)
    BY <1>1 DEF ToSet
  <1> DEFINE b == r.blank
             m == Len(r.fields)
             l == Len(BodyOf(r))
  <1>5. /\ b \in Nat /\ m \in Nat /\ l \in Nat /\ l <= MaxBody
        /\ b + m + 2 + (IF Codings(r.fields) = <<>> THEN 0 ELSE 1) <= MaxHead
    BY <1>1, <1>2
  <1>6. HeadLen(r) = b + m + 2
    BY DEF HeadLen
  <1> HIDE DEF b, m, l
  <1>7. ~(b >= MaxHead) /\ ~(b + m + 1 >= MaxHead) /\ ~(l > MaxBody)
    BY <1>3, <1>5
  <1>8. Codings(r.fields) # <<>> => ~(b + m + 2 >= MaxHead)
    BY <1>3, <1>5
  <1> QED
    BY <1>2, <1>4, <1>6, <1>7, <1>8 DEF b, m, l

\* Blank lines, and the request line.
LEMMA HeadStep ==
  ASSUME PlaceInv, NEW n \in Nat, InHead(n), ReadLine \/ ReadBody
  PROVE  \E m \in Nat : ReaderAt(m)'
  <1>1. /\ phase = "head" /\ Open(n) /\ fields = <<>> /\ body = <<>>
        /\ used \in Nat /\ pos = Start(n) + used
        /\ IF n = Len(conversation) THEN used = 0 ELSE used <= Req(n).blank
    BY DEF InHead
  <1>2. \/ BlankLine \/ RequestLine \/ BadRequestLine \/ TooLong
    BY <1>1 DEF ReadLine, ReadBody, Field, BadField, EndOfHead, Octet, ChunkEnd, BadChunk, ChunkSize,
      ChunkTooLarge, Trailer, ReadsNext
  <1>3. Available
    BY <1>2 DEF BlankLine, RequestLine, BadRequestLine, TooLong, ReadsNext
  <1>4. n <= Len(conversation)
    BY <1>1, TalkTyped DEF Open, Served, PlaceInv
  <1>5. n < Len(conversation) /\ Len(conversation) \in Nat /\ Start(n) \in Nat
    <2>1. n = Len(conversation) => pos = Start(n)
      BY <1>1, TalkEnds DEF PlaceInv, Start
    <2>2. n < Len(conversation)
      BY <1>3, <1>4, <2>1, NotBehind
    <2> QED
      BY <2>2, TalkTyped, PieceOfHead DEF PlaceInv
  <1>6. /\ Legible(Req(n)) /\ Req(n).blank \in Nat /\ used <= Req(n).blank
        /\ used < Req(n).blank => Piece = Eol
        /\ used = Req(n).blank => Piece = Req(n).line
    <2>1. n # Len(conversation)
      BY <1>5
    <2> QED
      BY <1>1, <1>5, <2>1, PieceOfHead
  <1>7. Req(n).line # Eol
    BY <1>6 DEF Legible
  <1>8. CASE BlankLine
    <2>1. used < Req(n).blank
      BY <1>1, <1>6, <1>7, <1>8 DEF BlankLine
    <2>2. Open(n)' /\ UNCHANGED <<Req(n), Start(n), conversation>>
      BY <1>1, <1>8, OpenKept DEF BlankLine, client
    <2>3. phase' = "head" /\ fields' = <<>> /\ body' = <<>> /\ used' = used + 1 /\ pos' = pos + 1
      BY <1>1, <1>8 DEF BlankLine, ReadsNext
    <2>4. used' \in Nat /\ pos' = Start(n) + used'
      <3> DEFINE at == Start(n)
      <3>1. at \in Nat /\ pos = at + used
        BY <1>1, <1>5
      <3> HIDE DEF at
      <3>2. used + 1 \in Nat /\ pos + 1 = at + (used + 1)
        BY <1>1, <3>1
      <3> QED
        BY <2>3, <3>2 DEF at
    <2>5. used + 1 <= Req(n).blank
      BY <1>1, <1>6, <2>1
    <2>6. InHead(n)'
      BY <1>5, <2>2, <2>3, <2>4, <2>5 DEF InHead
    <2> QED
      BY <2>6 DEF ReaderAt
  <1>9. CASE RequestLine
    <2>1. Piece # Eol /\ used = Req(n).blank /\ Piece = Req(n).line
      BY <1>1, <1>6, <1>9 DEF RequestLine, Eol
    <2>2. Open(n)' /\ UNCHANGED <<Req(n), Start(n), conversation>>
      BY <1>1, <1>9, OpenKept DEF RequestLine, client
    <2>3. /\ phase' = "fields" /\ fields' = <<>> /\ body' = <<>> /\ used' = used + 1 /\ pos' = pos + 1
          /\ version' = Piece[2] /\ Piece \in {<<"line", "1.1">>, <<"line", "1.0">>}
      BY <1>1, <1>9 DEF RequestLine, ReadsNext
    <2>4. LineRead(n)'
      BY <2>1, <2>2, <2>3 DEF LineRead
    <2>5. Len(Req(n).fields) \in Nat
      BY <1>5, PieceOfHead
    <2>6. used' = Req(n).blank + 1 + 0 /\ pos' = Start(n) + used'
      <3> DEFINE at == Start(n)
                 b == Req(n).blank
      <3>1. at \in Nat /\ pos = at + b /\ b \in Nat /\ used = b
        BY <1>1, <1>5, <1>6, <2>1
      <3> HIDE DEF at, b
      <3>2. used + 1 = b + 1 + 0 /\ pos + 1 = at + (used + 1)
        BY <3>1
      <3> QED
        BY <2>3, <3>2 DEF at, b
    <2>7. FieldsRead(n, 0)'
      <3>1. SubSeq(Req(n).fields, 1, 0) = <<>> /\ 0 \in 0 .. Len(Req(n).fields)
        BY <2>5, SubSeqEmpty
      <3> QED
        BY <2>2, <2>3, <2>6, <3>1 DEF FieldsRead
    <2>8. InFields(n)'
      BY <1>5, <2>2, <2>3, <2>4, <2>7 DEF InFields
    <2> QED
      BY <2>8 DEF ReaderAt
  <1>10. CASE BadRequestLine
    <2>1. Req(n).line \notin {<<"line", "1.1">>, <<"line", "1.0">>}
      BY <1>1, <1>6, <1>10 DEF BadRequestLine
    <2>2. PICK status \in {400, 505} : Fail(status)
      BY <1>10 DEF BadRequestLine
    <2>3. ~WellFormed(Req(n))
      BY <1>6, <2>1, IllFormed
    <2>4. Over(n)'
      BY <1>1, <1>5, <2>2, <2>3, FailEnds
    <2> QED
      BY <2>4 DEF ReaderAt
  <1>11. CASE TooLong
    <2>1. Req(n).blank >= MaxHead
      BY <1>1, <1>6, <1>11, HttpAssumption DEF TooLong, Fits
    <2>2. ~WellFormed(Req(n))
      BY <1>6, <2>1, IllFormed
    <2>3. Over(n)'
      BY <1>1, <1>5, <1>11, <2>2, FailEnds DEF TooLong
    <2> QED
      BY <2>3 DEF ReaderAt
  <1> QED
    BY <1>2, <1>8, <1>9, <1>10, <1>11

\* A refusal by read_body is right, and without one the fields agree.
LEMMA FramingRight ==
  ASSUME NEW r, Legible(r), fields = r.fields
  PROVE  /\ Framing = 0 => Framed(r)
         /\ Framing # 0 => Framing \notin {200, 408} /\ ~WellFormed(r)
  <1> DEFINE lens == Lengths(r.fields)
             te == Codings(r.fields)
             l == Len(BodyOf(r))
  <1>1. Framing = IF te # <<>> /\ lens # <<>> THEN 400
                  ELSE IF te # <<>> THEN IF te[1] # Chunked THEN 501 ELSE 0
                  ELSE IF lens = <<>> THEN 0
                  ELSE IF \E x \in ToSet(lens) : x # lens[1] THEN 400
                  ELSE IF lens[1][2] = NotANumber THEN 400
                  ELSE IF lens[1][2] > MaxBody THEN 413 ELSE 0
    BY DEF Framing
  <1>2. /\ te = <<>> /\ lens = <<>> => BodyOf(r) = <<>>
        /\ te = <<>> /\ lens # <<>> /\ (\A x \in ToSet(lens) : x = lens[1])
             /\ lens[1][2] # NotANumber
             => lens[1] = <<"content-length", l>>
    BY DEF Legible
  <1>3. WellFormed(r) =>
          /\ lens = <<>> \/ te = <<>>
          /\ te # <<>> => te[1] = Chunked
          /\ \A x \in ToSet(lens) : x = lens[1]
          /\ lens # <<>> => lens[1] = <<"content-length", l>>
          /\ l <= MaxBody
    BY DEF WellFormed
  <1>4. Framed(r) =
          (/\ lens = <<>> \/ te = <<>>
           /\ te # <<>> => te[1] = Chunked
           /\ \A x \in ToSet(lens) : x = lens[1]
           /\ lens # <<>> => lens[1] = <<"content-length", l>> /\ l <= MaxBody
           /\ lens = <<>> /\ te = <<>> => BodyOf(r) = <<>>)
    BY DEF Framed
  <1>5. l \in Nat /\ MaxBody \in Nat /\ l # NotANumber
    BY RequestTyped, LenProperties, HttpAssumption DEF NotANumber
  <1>6. lens = <<>> => ToSet(lens) = {}
    BY DEF ToSet
  <1> HIDE DEF lens, te, l
  <1>7. CASE te # <<>>
    BY <1>1, <1>3, <1>4, <1>6, <1>7
  <1>8. CASE te = <<>> /\ lens = <<>>
    BY <1>1, <1>2, <1>4, <1>6, <1>8
  <1>9. CASE te = <<>> /\ lens # <<>>
    <2>1. CASE \E x \in ToSet(lens) : x # lens[1]
      <3>1. ~WellFormed(r)
        BY <1>3, <1>9, <2>1
      <3> QED
        BY <1>1, <1>9, <2>1, <3>1
    <2>2. CASE lens[1][2] = NotANumber
      <3>1. ~WellFormed(r)
        BY <1>3, <1>5, <1>9, <2>2
      <3> QED
        BY <1>1, <1>9, <2>2, <3>1
    <2>3. CASE (\A x \in ToSet(lens) : x = lens[1]) /\ lens[1][2] # NotANumber
      <3>1. lens[1] = <<"content-length", l>> /\ lens[1][2] = l
        BY <1>2, <1>9, <2>3
      <3>2. Framing = IF l > MaxBody THEN 413 ELSE 0
        BY <1>1, <1>5, <1>9, <2>3, <3>1
      <3>3. l > MaxBody => ~WellFormed(r)
        BY <1>3, <1>5
      <3>4. ~(l > MaxBody) => Framed(r)
        BY <1>4, <1>5, <1>9, <2>3, <3>1
      <3> QED
        BY <3>2, <3>3, <3>4
    <2> QED
      BY <2>1, <2>2, <2>3
  <1> QED
    BY <1>7, <1>8, <1>9

\* What makes a request well formed, once its body has been read.
LEMMA WellRead ==
  ASSUME NEW r, Framed(r), r.line \in {<<"line", "1.1">>, <<"line", "1.0">>},
         \A f \in ToSet(r.fields) : f[1] \in FieldNames,
         r.blank + Len(r.fields) + 2 + (IF Codings(r.fields) = <<>> THEN 0 ELSE 1) <= MaxHead,
         Codings(r.fields) # <<>> => (r.chunks # <<>> => r.end = Eol),
         Len(BodyOf(r)) <= MaxBody
  PROVE  WellFormed(r)
  BY DEF Framed, WellFormed

\* A request that has been read is handed over.
LEMMA HandsOver ==
  ASSUME NEW n \in Nat, Open(n), n < Len(conversation), Len(conversation) \in Nat,
         LineRead(n), fields = Req(n).fields,
         UNCHANGED <<conversation, fields, version, answers>>, WellFormed(Req(n)),
         HandOver, body' = BodyOf(Req(n)), phase' = "handler", pos' = Start(n + 1)
  PROVE  ReaderAt(n)'
  <1>1. /\ n \in 0 .. Len(conversation)
        /\ handled = [i \in 1 .. n |-> [fields |-> conversation[i].fields,
                                        body |-> BodyOf(conversation[i])]]
        /\ \A j \in 1 .. n : WellFormed(conversation[j])
        /\ \A j \in 1 .. n - 1 : Stays(conversation[j])
        /\ n > 0 => Stays(conversation[n])
    BY DEF Open, Served
  <1> DEFINE H(i) == [fields |-> conversation[i].fields, body |-> BodyOf(conversation[i])]
  <1>2. handled' = Append([i \in 1 .. n |-> H(i)], H(n + 1))
    BY <1>1 DEF HandOver, Req
  <1> HIDE DEF H
  <1>3. handled' = [i \in 1 .. n + 1 |-> H(i)]
    BY <1>2
  <1>4. \A j \in 1 .. n + 1 : WellFormed(conversation[j])
    BY <1>1 DEF Req
  <1>5. \A j \in 1 .. (n + 1) - 1 : Stays(conversation[j])
    BY <1>1
  <1>6. n + 1 \in 0 .. Len(conversation)
    OBVIOUS
  <1>7. Served(n + 1)'
    BY <1>3, <1>4, <1>5, <1>6 DEF Served, H
  <1>8. Answered(n)' /\ LineRead(n)' /\ (fields = Req(n).fields)' /\ Start(n + 1)' = Start(n + 1)
    BY DEF Open, Answered, LineRead, Req, Start
  <1> QED
    BY <1>7, <1>8 DEF AtHandler, ReaderAt

\* The fields, and the end of the head.
LEMMA FieldsStep ==
  ASSUME PlaceInv, NEW n \in Nat, InFields(n), ReadLine \/ ReadBody
  PROVE  \E m \in Nat : ReaderAt(m)'
  <1> DEFINE r == Req(n)
             at == Start(n)
             b == r.blank
             m == Len(r.fields)
  <1>1. PICK k \in Nat : FieldsRead(n, k)
    BY DEF InFields
  <1>2. /\ phase = "fields" /\ Open(n) /\ n < Len(conversation)
        /\ LineRead(n) /\ body = <<>>
    BY DEF InFields
  <1>3. /\ k \in 0 .. m /\ fields = SubSeq(r.fields, 1, k)
        /\ \A i \in 1 .. k : r.fields[i][1] \in FieldNames
        /\ used = b + 1 + k /\ pos = at + used
    BY <1>1 DEF FieldsRead
  <1>4. Field \/ BadField \/ EndOfHead \/ TooLong
    BY <1>2 DEF ReadLine, ReadBody, BlankLine, RequestLine, BadRequestLine, Octet, ChunkEnd,
      BadChunk, ChunkSize, ChunkTooLarge, Trailer, ReadsNext
  <1>5. at \in Nat /\ b \in Nat /\ m \in Nat /\ k <= m /\ used = b + 1 + k /\ pos = at + (b + 1 + k)
    BY <1>2, <1>3, PieceOfHead
  <1>6. /\ Legible(r) /\ at \in Nat /\ b \in Nat /\ m \in Nat
        /\ HeadLen(r) = b + m + 2
        /\ Len(conversation) \in Nat
        /\ r.fields \in Seq(PiecesOf(r)) /\ DOMAIN r.fields = 1 .. m
    BY <1>2, PieceOfHead, TalkTyped, RequestTyped, LenProperties DEF PlaceInv
  <1>7. (k < m => Piece = r.fields[k + 1]) /\ (k = m => Piece = Eol)
    <2>1. pos = Start(n) + (Req(n).blank + 1 + k)
      BY <1>3
    <2> QED
      BY <1>2, <2>1, PieceOfHead
  <1>8. k < m => r.fields[k + 1] # Eol /\ k + 1 \in 1 .. m
    <2>1. k < m => k + 1 \in DOMAIN r.fields
      BY <1>6
    <2> QED
      BY <1>6, <2>1 DEF Legible, ToSet
  <1> HIDE DEF r, at, b, m
  <1>9. CASE Field
    <2>1. k < m
      <3>1. Eol[1] \notin FieldNames
        BY DEF Eol, FieldNames
      <3> QED
        BY <1>7, <1>5, <1>9, <3>1 DEF Field
    <2>2. UNCHANGED <<conversation, handled, answers, phase, version, body>>
          /\ fields' = Append(fields, Piece) /\ used' = used + 1 /\ pos' = pos + 1
          /\ Piece[1] \in FieldNames
      BY <1>9 DEF Field, ReadsNext, client
    <2>3. Open(n)' /\ UNCHANGED <<Req(n), Start(n)>>
      BY <1>2, <2>2, OpenKept
    <2>4. fields' = SubSeq(r.fields, 1, k + 1)
      BY <1>3, <1>6, <1>7, <1>8, <2>1, <2>2
    <2>5. used' = b + 1 + (k + 1) /\ pos' = at + used' /\ k + 1 \in 0 .. m
      BY <1>5, <2>1, <2>2
    <2>6. \A i \in 1 .. k + 1 : r.fields[i][1] \in FieldNames
      BY <1>3, <1>7, <2>1, <2>2
    <2>7. FieldsRead(n, k + 1)'
      BY <2>3, <2>4, <2>5, <2>6 DEF FieldsRead, r, at, b, m
    <2>8. InFields(n)'
      BY <1>2, <2>2, <2>3, <2>7 DEF InFields, LineRead
    <2> QED
      BY <2>8 DEF ReaderAt
  <1>10. CASE BadField
    <2>1. k < m /\ r.fields[k + 1][1] \notin FieldNames
      BY <1>7, <1>5, <1>10 DEF BadField
    <2>2. ~WellFormed(r)
      BY <1>6, <2>1, IllFormed DEF m
    <2>3. Over(n)'
      BY <1>2, <1>10, <2>2, FailEnds DEF BadField, r
    <2> QED
      BY <2>3 DEF ReaderAt
  <1>11. CASE TooLong
    <2>1. b + m + 1 >= MaxHead
      BY <1>3, <1>6, <1>11, HttpAssumption DEF TooLong, Fits
    <2>2. ~WellFormed(r)
      BY <1>6, <2>1, IllFormed DEF b, m
    <2>3. Over(n)'
      BY <1>2, <1>11, <2>2, FailEnds DEF TooLong, r
    <2> QED
      BY <2>3 DEF ReaderAt
  <1>12. CASE EndOfHead
    <2>1. /\ phase = "fields" /\ pos' = pos + 1 /\ used < MaxHead /\ Piece = Eol
          /\ used' = used + 1
          /\ UNCHANGED <<client, conversation, fields, version>>
      BY <1>12 DEF EndOfHead, ReadsNext, Fits, client
    <2>2. k = m
      BY <1>7, <1>8, <1>5, <2>1
    <2>3. fields = r.fields
      BY <1>3, <1>6, <2>2 DEF m
    <2>4. \A f \in ToSet(r.fields) : f[1] \in FieldNames
      BY <1>3, <1>6, <2>2 DEF ToSet
    <2>5. used' = HeadLen(r) /\ used' <= MaxHead /\ b + m + 2 <= MaxHead
          /\ pos' = at + HeadLen(r) /\ HeadLen(r) \in Nat
      <3>1. HeadLen(r) = b + m + 2
        BY <1>6
      <3> QED
        BY <1>5, <2>1, <2>2, <3>1, HttpAssumption
    <2>6. CASE Framing # 0
      <3>1. phase' = "closed" /\ answers' = Append(answers, Framing) /\ UNCHANGED handled
        BY <1>12, <2>6 DEF EndOfHead
      <3>2. Framing \notin {200, 408} /\ ~WellFormed(r)
        BY <1>6, <2>3, <2>6, FramingRight
      <3>3. Over(n)'
        BY <1>2, <2>1, <2>6, <3>1, <3>2, Ends DEF r
      <3> QED
        BY <3>3 DEF ReaderAt
    <2>7. CASE Framing = 0
      <3>1. Framed(r)
        BY <1>6, <2>3, <2>7, FramingRight
      <3>2. UNCHANGED <<body, answers>>
        BY <1>12, <2>7 DEF EndOfHead
      <3>3. ASSUME UNCHANGED handled PROVE HeadRead(n)' /\ UNCHANGED <<Req(n), Start(n)>>
        <4>1. Open(n)' /\ UNCHANGED <<Req(n), Start(n)>>
          BY <1>2, <2>1, <3>2, <3>3, OpenKept
        <4>2. (fields = Req(n).fields)'
          BY <2>1, <2>3, <4>1 DEF r
        <4>3. (used = HeadLen(Req(n)) /\ used <= MaxHead)'
          BY <2>5, <4>1 DEF r
        <4> QED
          BY <1>2, <2>1, <2>4, <3>1, <4>1, <4>2, <4>3 DEF HeadRead, LineRead, r
      <3>4. /\ Start(n + 1) = at + HeadLen(r) + Len(BodyWire(r)) /\ Len(BodyWire(r)) \in Nat
            /\ Codings(r.fields) = <<>> => BodyWire(r) = BodyOf(r)
            /\ Len(BodyOf(r)) \in Nat
        BY <1>2, <1>6, PieceOfBody, BodyWireForms, RequestTyped, LenProperties DEF r, at
      <3>5. ASSUME Codings(r.fields) = <<>>, BodyOf(r) = <<>>, phase' = "handler", HandOver
            PROVE  ReaderAt(n)'
        <4>1. pos' = Start(n + 1)
          BY <1>6, <2>5, <3>4, <3>5
        <4>2. b + m + 2 + (IF Codings(r.fields) = <<>> THEN 0 ELSE 1) <= MaxHead
          BY <1>6, <2>5, <3>5
        <4>3. Len(BodyOf(r)) <= MaxBody
          BY <3>5, HttpAssumption
        <4>4. r.line \in {<<"line", "1.1">>, <<"line", "1.0">>}
          BY <1>2 DEF LineRead, r
        <4>5. WellFormed(r)
          BY <2>4, <3>1, <3>5, <4>2, <4>3, <4>4, WellRead DEF b, m
        <4> QED
          BY <1>2, <1>6, <2>1, <2>3, <3>2, <3>5, <4>1, <4>5, HandsOver DEF r
      <3>6. CASE Lengths(fields) # <<>>
        <4>1. /\ Codings(r.fields) = <<>>
              /\ Lengths(r.fields)[1] = <<"content-length", Len(BodyOf(r))>>
          BY <2>3, <3>1, <3>6 DEF Framed
        <4>2. /\ want' = Len(BodyOf(r))
              /\ phase' = IF want' = 0 THEN "handler" ELSE "octets"
              /\ IF want' = 0 THEN HandOver ELSE UNCHANGED handled
          BY <1>12, <2>3, <2>7, <3>6, <4>1 DEF EndOfHead
        <4>3. CASE want' = 0
          <5>1. BodyOf(r) = <<>>
            BY <1>6, <4>2, <4>3, RequestTyped, EmptySeq
          <5> QED
            BY <3>5, <4>1, <4>2, <4>3, <5>1
        <4>4. CASE want' # 0
          <5>1. HeadRead(n)' /\ UNCHANGED <<Req(n), Start(n)>>
            BY <3>3, <4>2, <4>4
          <5>2. /\ 0 < Len(BodyOf(r)) /\ body' = SubSeq(BodyOf(r), 1, 0)
                /\ want' = Len(BodyOf(r)) - 0 /\ pos' = at + HeadLen(r) + 0
            <6>1. /\ at \in Nat /\ HeadLen(r) \in Nat /\ pos' = at + HeadLen(r)
                  /\ Len(BodyOf(r)) \in Nat /\ want' = Len(BodyOf(r)) /\ want' # 0
                  /\ body' = <<>>
              BY <1>2, <1>6, <2>5, <3>2, <3>4, <4>2, <4>4
            <6>2. SubSeq(BodyOf(r), 1, 0) = <<>>
              BY SubSeqEmpty
            <6> QED
              BY <6>1, <6>2
          <5>3. InOctets(n)'
            BY <2>1, <3>6, <4>2, <4>4, <5>1, <5>2 DEF InOctets, r, at
          <5> QED
            BY <5>3 DEF ReaderAt
        <4> QED
          BY <4>3, <4>4
      <3>7. CASE Lengths(fields) = <<>> /\ Codings(fields) # <<>>
        <4>1. phase' = "size" /\ UNCHANGED handled
          BY <1>12, <2>7, <3>7 DEF EndOfHead
        <4>2. HeadRead(n)' /\ UNCHANGED <<Req(n), Start(n)>>
          BY <3>3, <4>1
        <4>3. Joined(ChunkWires(r), 0) = <<>> /\ Joined(r.chunks, 0) = <<>>
          BY JoinedNone
        <4>4. pos' = at + HeadLen(r) + Len(Joined(ChunkWires(r), 0)) + 0
          BY <1>6, <2>5, <4>3
        <4>5. body' = Joined(r.chunks, 0) /\ Len(body') <= MaxBody
          BY <1>2, <3>2, <4>3, HttpAssumption
        <4>6. 0 \in 0 .. Len(r.chunks)
          BY <1>6, RequestTyped, LenProperties
        <4>7. ChunksRead(n, 0, 0)'
          BY <2>1, <3>7, <4>2, <4>4, <4>5, <4>6 DEF ChunksRead, r, at
        <4>8. AtSize(n)'
          BY <4>1, <4>2, <4>5, <4>7 DEF AtSize, r
        <4> QED
          BY <4>8 DEF ReaderAt
      <3>8. CASE Lengths(fields) = <<>> /\ Codings(fields) = <<>>
        <4>1. phase' = "handler" /\ HandOver
          BY <1>12, <2>7, <3>8 DEF EndOfHead
        <4>2. Codings(r.fields) = <<>> /\ BodyOf(r) = <<>>
          BY <2>3, <3>1, <3>8 DEF Framed
        <4> QED
          BY <3>5, <4>1, <4>2
      <3> QED
        BY <3>6, <3>7, <3>8
    <2> QED
      BY <2>6, <2>7
  <1> QED
    BY <1>4, <1>9, <1>10, <1>11, <1>12

\* A body read to its end makes the request one that is handed over.
LEMMA BodyHandsOver ==
  ASSUME NEW n \in Nat, HeadRead(n), Len(conversation) \in Nat, Legible(Req(n)),
         HandOver, body' = BodyOf(Req(n)), phase' = "handler", pos' = Start(n + 1),
         UNCHANGED <<conversation, fields, version, answers>>,
         Len(BodyOf(Req(n))) <= MaxBody,
         Codings(fields) # <<>> =>
           (Req(n).chunks # <<>> => Req(n).end = Eol) /\ used < MaxHead
  PROVE  ReaderAt(n)'
  <1> DEFINE r == Req(n)
             b == r.blank
             m == Len(r.fields)
  <1>1. /\ Open(n) /\ n < Len(conversation) /\ LineRead(n) /\ fields = r.fields
        /\ \A f \in ToSet(r.fields) : f[1] \in FieldNames
        /\ Framed(r)
        /\ used = b + m + 2 /\ used <= MaxHead
    BY DEF HeadRead, HeadLen
  <1>2. b \in Nat /\ m \in Nat
    BY RequestTyped, LenProperties
  <1> HIDE DEF r, b, m
  <1>3. b + m + 2 + (IF Codings(r.fields) = <<>> THEN 0 ELSE 1) <= MaxHead
    BY <1>1, <1>2, HttpAssumption
  <1>4. WellFormed(r)
    <2>1. r.line \in {<<"line", "1.1">>, <<"line", "1.0">>}
      BY <1>1 DEF LineRead, r
    <2>2. r.blank + Len(r.fields) + 2 + (IF Codings(r.fields) = <<>> THEN 0 ELSE 1) <= MaxHead
      BY <1>3 DEF b, m
    <2>3. (Codings(r.fields) # <<>> => (r.chunks # <<>> => r.end = Eol)) /\ Len(BodyOf(r)) <= MaxBody
      BY <1>1 DEF r
    <2> QED
      BY <1>1, <2>1, <2>2, <2>3, WellRead
  <1> QED
    BY <1>1, <1>4, HandsOver DEF r

\* A prefix grows by the element after it.
LEMMA PrefixGrows ==
  ASSUME NEW T, NEW s \in Seq(T), NEW k \in Nat, k < Len(s)
  PROVE  /\ Append(SubSeq(s, 1, k), s[k + 1]) = SubSeq(s, 1, k + 1)
         /\ k + 1 = Len(s) => SubSeq(s, 1, k + 1) = s
         /\ SubSeq(s, 1, k) \in Seq(T) /\ Len(SubSeq(s, 1, k)) = k
  OBVIOUS

\* An octet of a body with a length.
LEMMA OctetsStep ==
  ASSUME PlaceInv, NEW n \in Nat, InOctets(n), ReadLine \/ ReadBody
  PROVE  \E m \in Nat : ReaderAt(m)'
  <1> DEFINE r == Req(n)
             at == Start(n)
             h == HeadLen(r)
             w == BodyOf(r)
             l == Len(w)
  <1>1. PICK k \in Nat : k < l /\ body = SubSeq(w, 1, k) /\ want = l - k /\ pos = at + h + k
    BY DEF InOctets
  <1>2. phase = "octets" /\ HeadRead(n) /\ Lengths(fields) # <<>>
    BY DEF InOctets
  <1>3. n < Len(conversation) /\ fields = r.fields /\ Framed(r)
    BY <1>2 DEF HeadRead
  <1>4. Codings(r.fields) = <<>> /\ l <= MaxBody
    BY <1>2, <1>3 DEF Framed
  <1>5. Legible(r) /\ Len(conversation) \in Nat
    BY <1>3, PieceOfHead, TalkTyped DEF PlaceInv
  <1>6. w \in Seq(PiecesOf(r)) /\ l \in Nat /\ BodyWire(r) = w
    BY <1>4, <1>5, RequestTyped, BodyWireForms, LenProperties
  <1>7. /\ at \in Nat /\ h \in Nat
        /\ Start(n + 1) = at + h + l
        /\ Piece = w[k + 1]
    <2>1. /\ at \in Nat /\ h \in Nat
          /\ Start(n + 1) = at + h + Len(BodyWire(r))
          /\ k < Len(BodyWire(r)) /\ pos = at + h + k => Piece = BodyWire(r)[k + 1]
      BY <1>3, PieceOfBody
    <2> QED
      BY <1>1, <1>6, <2>1
  <1> HIDE DEF r, at, h, w, l
  <1>8. Octet
    BY <1>2 DEF ReadLine, ReadBody, BlankLine, RequestLine, BadRequestLine, Field, BadField,
      EndOfHead, TooLong, ChunkEnd, BadChunk, ChunkSize, ChunkTooLarge, Trailer, ReadsNext
  <1>9. /\ pos' = pos + 1 /\ body' = Append(body, Piece) /\ want' = want - 1
        /\ UNCHANGED <<client, conversation, head, fields, version, answers>>
        /\ want' > 0 => UNCHANGED <<phase, handled>>
        /\ ~(want' > 0) => phase' = "handler" /\ HandOver
    BY <1>2, <1>8 DEF Octet, ReadsNext, client, head
  <1>10. /\ body' = SubSeq(w, 1, k + 1)
         /\ k + 1 = l => body' = w
    BY <1>1, <1>6, <1>7, <1>9, PrefixGrows DEF l
  <1>11. want' = l - (k + 1) /\ pos' = at + h + (k + 1) /\ k + 1 <= l
    BY <1>1, <1>6, <1>7, <1>9
  <1>12. CASE k + 1 < l
    <2>1. want' > 0
      BY <1>6, <1>11, <1>12
    <2>2. HeadRead(n)' /\ UNCHANGED <<Req(n), Start(n), fields>>
      BY <1>2, <1>9, <2>1, HeadKept
    <2>3. InOctets(n)'
      BY <1>2, <1>9, <1>10, <1>11, <1>12, <2>1, <2>2 DEF InOctets, r, at, h, w, l
    <2> QED
      BY <2>3 DEF ReaderAt
  <1>13. CASE k + 1 = l
    <2>1. ~(want' > 0) /\ pos' = Start(n + 1)
      BY <1>6, <1>7, <1>11, <1>13
    <2>2. ReaderAt(n)'
      BY <1>2, <1>3, <1>4, <1>5, <1>9, <1>10, <1>13, <2>1, BodyHandsOver DEF r, w, l
    <2> QED
      BY <2>2
  <1> QED
    BY <1>6, <1>11, <1>12, <1>13

\* What a chunked body that is read looks like.
LEMMA ChunkedBody ==
  ASSUME PlaceInv, NEW n \in Nat, HeadRead(n), Codings(fields) # <<>>
  PROVE  LET r == Req(n) IN
         /\ n < Len(conversation) /\ Len(conversation) \in Nat /\ Legible(r)
         /\ fields = r.fields /\ Codings(r.fields) # <<>> /\ Lengths(fields) = <<>>
         /\ Start(n) \in Nat /\ HeadLen(r) \in Nat
         /\ Len(r.chunks) \in Nat
         /\ Start(n + 1) = Start(n) + HeadLen(r) + Len(BodyWire(r))
  <1>1. n < Len(conversation) /\ fields = Req(n).fields /\ Framed(Req(n))
    BY DEF HeadRead
  <1>2. Legible(Req(n)) /\ Len(conversation) \in Nat
    BY <1>1, PieceOfHead, TalkTyped DEF PlaceInv
  <1>3. Lengths(fields) = <<>>
    BY <1>1 DEF Framed
  <1> QED
    BY <1>1, <1>2, <1>3, PieceOfBody, RequestTyped, LenProperties

\* The next piece, j pieces into the body.
LEMMA PieceAt ==
  ASSUME PlaceInv, NEW n \in Nat, n < Len(conversation), NEW i \in Nat, NEW j \in Nat,
         i + j < Len(BodyWire(Req(n))), pos = Start(n) + HeadLen(Req(n)) + i + j
  PROVE  Piece = BodyWire(Req(n))[i + j + 1]
  <1> DEFINE at == Start(n)
             h == HeadLen(Req(n))
  <1>1. /\ at \in Nat /\ h \in Nat
        /\ i + j < Len(BodyWire(Req(n))) /\ pos = at + h + (i + j)
             => Piece = BodyWire(Req(n))[(i + j) + 1]
    BY PieceOfBody
  <1>2. pos = at + h + i + j
    OBVIOUS
  <1> HIDE DEF at, h
  <1>3. pos = at + h + (i + j)
    BY <1>1, <1>2
  <1> QED
    BY <1>1, <1>3

\* The chunks of a body, joined one after the other.
LEMMA ChunksJoined ==
  ASSUME NEW r, Legible(r), NEW k \in Nat, k < Len(r.chunks)
  PROVE  LET c == r.chunks[k + 1] IN
         /\ c \in Seq(PiecesOf(r)) /\ Len(c) \in Nat
         /\ Joined(r.chunks, k) \in Seq(PiecesOf(r))
         /\ Joined(r.chunks, k + 1) = Joined(r.chunks, k) \o c
         /\ Len(Joined(r.chunks, k + 1)) = Len(Joined(r.chunks, k)) + Len(c)
         /\ Len(Joined(r.chunks, k)) \in Nat
         /\ Len(Joined(r.chunks, k + 1)) <= Len(BodyOf(r)) /\ Len(BodyOf(r)) \in Nat
  <1>1. r.chunks \in Seq(Seq(PiecesOf(r))) /\ Len(BodyOf(r)) \in Nat
    BY RequestTyped, LenProperties
  <1>2. k + 1 \in 1 .. Len(r.chunks) /\ k \in 0 .. Len(r.chunks)
    BY <1>1, LenProperties
  <1>3. r.chunks[k + 1] \in Seq(PiecesOf(r)) /\ Len(r.chunks[k + 1]) \in Nat
    BY <1>1, <1>2, ElementOfSeq, LenProperties
  <1>4. Joined(r.chunks, k) \in Seq(PiecesOf(r))
    BY <1>1, <1>2, JoinedIsSeq
  <1>5. Joined(r.chunks, k + 1) = Joined(r.chunks, k) \o r.chunks[k + 1]
    BY <1>1, JoinedMore
  <1>6. /\ Len(Joined(r.chunks, k)) \in Nat
        /\ Len(Joined(r.chunks, k + 1)) = Len(Joined(r.chunks, k)) + Len(r.chunks[k + 1])
        /\ Len(Joined(r.chunks, k + 1)) <= Len(BodyOf(r))
    BY <1>1, JoinedAt DEF BodyOf
  <1> QED
    BY <1>1, <1>3, <1>4, <1>5, <1>6

\* A step within a chunked body keeps the head; what it must show is the place and the body.
LEMMA ChunksGoOn ==
  ASSUME NEW n \in Nat, NEW k, NEW j, NEW i, NEW q, ChunksRead(n, k, j),
         UNCHANGED <<client, head, handled, answers>>,
         i \in 0 .. Len(Req(n).chunks), Len(body') <= MaxBody,
         i > 0 => Req(n).end = Eol,
         pos' = Start(n) + HeadLen(Req(n)) + Len(Joined(ChunkWires(Req(n)), i)) + q
  PROVE  ChunksRead(n, i, q)' /\ UNCHANGED <<Req(n)>>
  <1>1. HeadRead(n)' /\ UNCHANGED <<Req(n), Start(n), fields, conversation>>
    BY HeadKept DEF ChunksRead
  <1> QED
    BY <1>1 DEF ChunksRead

\* The size of a chunk, or of the end.
LEMMA SizeStep ==
  ASSUME PlaceInv, NEW n \in Nat, AtSize(n), ReadLine \/ ReadBody
  PROVE  \E m \in Nat : ReaderAt(m)'
  <1> DEFINE r == Req(n)
             at == Start(n)
             h == HeadLen(r)
             w == BodyWire(r)
  <1>1. PICK k \in Nat : ChunksRead(n, k, 0) /\ body = Joined(r.chunks, k)
    BY DEF AtSize
  <1> DEFINE i == Len(Joined(ChunkWires(r), k))
             c == r.chunks[k + 1]
             last == Len(r.chunks)
  <1>2. /\ phase = "size" /\ HeadRead(n) /\ Codings(fields) # <<>>
        /\ k \in 0 .. last /\ Len(body) <= MaxBody /\ (k > 0 => r.end = Eol)
        /\ pos = at + h + i + 0
    BY <1>1 DEF AtSize, ChunksRead
  <1>3. /\ n < Len(conversation) /\ Len(conversation) \in Nat /\ Legible(r)
        /\ Codings(r.fields) # <<>>
        /\ at \in Nat /\ h \in Nat /\ last \in Nat
    BY <1>2, ChunkedBody
  <1>4. ChunkSize \/ BadChunk \/ ChunkTooLarge
    BY <1>2 DEF ReadLine, ReadBody, BlankLine, RequestLine, BadRequestLine, Field, BadField,
      EndOfHead, TooLong, Octet, ChunkEnd, Trailer, ReadsNext
  <1>5. k = last => i \in Nat /\ Piece = <<"size", 0>> /\ body = BodyOf(r)
    <2> SUFFICES ASSUME k = last PROVE i \in Nat /\ Piece = <<"size", 0>> /\ body = BodyOf(r)
      OBVIOUS
    <2>1. i \in Nat /\ Len(w) = i + 2 /\ w[i + 1] = <<"size", 0>>
      BY <1>3, ChunkLayout
    <2>2. i + 0 < Len(w)
      BY <2>1
    <2>3. Piece = w[i + 0 + 1]
      BY <1>2, <1>3, <2>1, <2>2, PieceAt
    <2>4. body = BodyOf(r)
      BY <1>1, <1>3, RequestTyped, JoinedAll DEF BodyOf
    <2> HIDE DEF i, w, r
    <2>5. i + 0 + 1 = i + 1
      BY <2>1
    <2> QED
      BY <2>1, <2>3, <2>4, <2>5
  <1>6. k < last => /\ i \in Nat /\ Piece = <<"size", Len(c)>> /\ c \in Seq(PiecesOf(r))
                    /\ Len(c) \in Nat /\ Len(c) > 0 /\ Len(body) \in Nat
                    /\ Len(body) + Len(c) <= Len(BodyOf(r)) /\ Len(BodyOf(r)) \in Nat
                    /\ Joined(r.chunks, k) \in Seq(PiecesOf(r))
    <2> SUFFICES ASSUME k < last
                 PROVE  /\ i \in Nat /\ Piece = <<"size", Len(c)>> /\ c \in Seq(PiecesOf(r))
                        /\ Len(c) \in Nat /\ Len(c) > 0 /\ Len(body) \in Nat
                        /\ Len(body) + Len(c) <= Len(BodyOf(r)) /\ Len(BodyOf(r)) \in Nat
                        /\ Joined(r.chunks, k) \in Seq(PiecesOf(r))
      OBVIOUS
    <2> DEFINE all == Len(Joined(ChunkWires(r), Len(r.chunks)))
    <2>1. all \in Nat /\ Len(w) = all + 2
      BY <1>3, ChunkLayout
    <2>2. i \in Nat /\ Len(c) \in Nat /\ i + Len(c) + 2 <= all /\ w[i + 1] = <<"size", Len(c)>>
      BY <1>3, ChunkLayout
    <2>3. c \in Seq(PiecesOf(r)) /\ Joined(r.chunks, k) \in Seq(PiecesOf(r))
          /\ Len(Joined(r.chunks, k + 1)) = Len(Joined(r.chunks, k)) + Len(c)
          /\ Len(Joined(r.chunks, k)) \in Nat
          /\ Len(Joined(r.chunks, k + 1)) <= Len(BodyOf(r)) /\ Len(BodyOf(r)) \in Nat
      BY <1>3, ChunksJoined
    <2>4. c # <<>>
      <3>1. k + 1 \in 1 .. last
        BY <1>3
      <3>2. c \in ToSet(r.chunks)
        BY <1>3, <3>1, RequestTyped, LenProperties DEF ToSet
      <3> QED
        BY <1>3, <3>2 DEF Legible
    <2>5. Len(c) > 0
      BY <2>2, <2>3, <2>4, EmptySeq
    <2>6. Piece = w[i + 0 + 1]
      <3>1. i + 0 < Len(w)
        <4> HIDE DEF i, c, w, all
        <4> QED
          BY <2>1, <2>2
      <3> QED
        BY <1>2, <1>3, <2>2, <3>1, PieceAt
    <2> HIDE DEF i, w, r
    <2>7. i + 0 + 1 = i + 1
      BY <2>2
    <2> QED
      BY <1>1, <2>2, <2>3, <2>5, <2>6, <2>7
  <1> HIDE DEF r, at, h, w, i, c, last
  <1>7. Piece[1] = "size"
    <2>1. k = last \/ k < last
      BY <1>2, <1>3
    <2>2. Piece = <<"size", 0>> \/ Piece = <<"size", Len(c)>>
      BY <1>5, <1>6, <2>1
    <2> QED
      BY <2>2
  <1>8. Open(n) /\ HeadRead(n)
    BY <1>2 DEF HeadRead
  <1>9. CASE BadChunk
    BY <1>2, <1>7, <1>9 DEF BadChunk, ReadsNext
  <1>10. CASE ChunkTooLarge
    <2>1. Len(body) + Piece[2] > MaxBody
      BY <1>10 DEF ChunkTooLarge
    <2>2. k < last
      <3>1. Len(body) \in Nat \/ k < last
        BY <1>3, <1>5, <1>2, RequestTyped, LenProperties
      <3>2. Piece[2] = 0 \/ k < last
        BY <1>2, <1>3, <1>5
      <3> QED
        BY <1>2, <2>1, <3>1, <3>2, HttpAssumption
    <2>3. Len(BodyOf(r)) > MaxBody
      <3>1. Piece[2] = Len(c)
        BY <1>6, <2>2
      <3>2. Len(body) + Len(c) > MaxBody
        BY <2>1, <3>1
      <3> QED
        BY <1>6, <2>2, <3>2, HttpAssumption
    <2>4. ~WellFormed(r)
      BY <1>3, <2>3, IllFormed
    <2>5. Over(n)'
      BY <1>3, <1>8, <1>10, <2>4, FailEnds DEF ChunkTooLarge, r
    <2> QED
      BY <2>5 DEF ReaderAt
  <1>11. CASE ChunkSize
    <2>1. /\ pos' = pos + 1 /\ want' = Piece[2] /\ Len(body) + Piece[2] <= MaxBody
          /\ phase' = IF want' = 0 THEN "trailer" ELSE "octets"
          /\ UNCHANGED <<client, head, body, handled, answers>>
      BY <1>2, <1>11 DEF ChunkSize, ReadsNext
    <2>2. i \in Nat /\ pos' = at + h + i + 1
      BY <1>2, <1>3, <1>5, <1>6, <2>1
    <2>3. ChunksRead(n, k, 1)' /\ UNCHANGED <<Req(n)>>
      BY <1>1, <1>2, <2>1, <2>2, ChunksGoOn DEF r, at, h, i, last
    <2>4. CASE k = last
      <3>1. want' = 0 /\ phase' = "trailer"
        BY <1>5, <2>1, <2>4
      <3>2. AtTrailer(n)'
        BY <1>5, <2>1, <2>3, <2>4, <3>1 DEF AtTrailer, r, last
      <3> QED
        BY <3>2 DEF ReaderAt
    <2>5. CASE k < last
      <3>1. want' = Len(c) /\ phase' = "octets" /\ 0 < Len(c)
        BY <1>6, <2>1, <2>5
      <3>2. SubSeq(c, 1, 0) = <<>> /\ Joined(r.chunks, k) \o <<>> = Joined(r.chunks, k)
        BY <1>6, <2>5, SubSeqEmpty, ConcatEmptySeq
      <3>3. body' = Joined(r.chunks, k) \o SubSeq(c, 1, 0)
        BY <1>1, <2>1, <3>2 DEF r
      <3>4. want' = Len(c) - 0 /\ Len(body') + want' <= MaxBody
        BY <1>6, <2>1, <2>5, <3>1
      <3>5. ChunksRead(n, k, 0 + 1)'
        BY <2>3
      <3>6. InChunk(n)'
        BY <2>3, <2>5, <3>1, <3>3, <3>4, <3>5 DEF InChunk, r, c, last
      <3> QED
        BY <3>6 DEF ReaderAt
    <2> QED
      BY <1>2, <1>3, <2>4, <2>5
  <1> QED
    BY <1>4, <1>9, <1>10, <1>11

\* The octets of a chunk on the wire.
LEMMA ChunkOctets ==
  ASSUME NEW r, Legible(r), Codings(r.fields) # <<>>, NEW k \in Nat, k < Len(r.chunks)
  PROVE  \A j \in 1 .. Len(r.chunks[k + 1]) :
           BodyWire(r)[Len(Joined(ChunkWires(r), k)) + 1 + j] = r.chunks[k + 1][j]
  BY ChunkLayout

\* Appending to the second of two sequences.
LEMMA AppendBehind ==
  ASSUME NEW T, NEW a \in Seq(T), NEW s \in Seq(T), NEW x \in T
  PROVE  /\ Append(a \o s, x) = a \o Append(s, x)
         /\ Len(Append(a \o s, x)) = Len(a \o s) + 1 /\ Len(a \o s) \in Nat
  OBVIOUS

\* An octet of a chunk.
LEMMA ChunkStep ==
  ASSUME PlaceInv, NEW n \in Nat, InChunk(n), ReadLine \/ ReadBody
  PROVE  \E m \in Nat : ReaderAt(m)'
  <1> DEFINE r == Req(n)
             at == Start(n)
             h == HeadLen(r)
             w == BodyWire(r)
             last == Len(r.chunks)
             C(k) == r.chunks[k + 1]
  <1>1. PICK k \in Nat, m \in Nat :
          /\ k < last /\ m < Len(C(k))
          /\ ChunksRead(n, k, m + 1)
          /\ body = Joined(r.chunks, k) \o SubSeq(C(k), 1, m)
          /\ want = Len(C(k)) - m /\ Len(body) + want <= MaxBody
    BY DEF InChunk
  <1> DEFINE i == Len(Joined(ChunkWires(r), k))
             c == C(k)
             joined == Joined(r.chunks, k)
  <1>2. /\ phase = "octets" /\ HeadRead(n) /\ Codings(fields) # <<>>
        /\ k \in 0 .. last /\ (k > 0 => r.end = Eol)
        /\ pos = at + h + i + (m + 1)
    BY <1>1 DEF InChunk, ChunksRead
  <1>3. /\ n < Len(conversation) /\ Legible(r) /\ Codings(r.fields) # <<>>
        /\ Lengths(fields) = <<>>
        /\ at \in Nat /\ h \in Nat /\ last \in Nat
    BY <1>2, ChunkedBody
  <1>4. /\ i \in Nat /\ Len(c) \in Nat /\ i + Len(c) + 2 < Len(w)
        /\ \A j \in 1 .. Len(c) : w[i + 1 + j] = c[j]
    <2>1. LET all == Len(Joined(ChunkWires(r), Len(r.chunks)))
          IN  all \in Nat /\ Len(w) = all + 2 /\ i + Len(c) + 2 <= all
              /\ i \in Nat /\ Len(c) \in Nat
      BY <1>1, <1>3, ChunkLayout
    <2>2. \A j \in 1 .. Len(c) : w[i + 1 + j] = c[j]
      <3>1. k < Len(r.chunks)
        BY <1>1
      <3> QED
        BY <1>3, <3>1, ChunkOctets
    <2> HIDE DEF i, c, w
    <2> QED
      BY <2>1, <2>2
  <1>5. /\ c \in Seq(PiecesOf(r)) /\ joined \in Seq(PiecesOf(r)) /\ Len(joined) \in Nat
        /\ Joined(r.chunks, k + 1) = joined \o c
    BY <1>1, <1>3, ChunksJoined
  <1> HIDE DEF r, at, h, w, i, c, C, last, joined
  <1>6. m < Len(c) /\ body = joined \o SubSeq(c, 1, m) /\ want = Len(c) - m
        /\ Len(body) + want <= MaxBody /\ ChunksRead(n, k, m + 1)
    BY <1>1 DEF c, joined
  <1>7. Piece = c[m + 1]
    <2>1. i + (m + 1) < Len(w) /\ m + 1 \in 1 .. Len(c) /\ i + (m + 1) + 1 = i + 1 + (m + 1)
      BY <1>4, <1>6, <1>5, ConcatProperties, LenProperties
    <2>2. PICK q \in Nat : q = m + 1
      OBVIOUS
    <2>3. i + q < Len(w) /\ pos = at + h + i + q /\ i \in Nat /\ n < Len(conversation)
      BY <1>2, <1>3, <1>4, <2>1, <2>2
    <2>4. Piece = w[i + q + 1]
      BY <2>3, PieceAt DEF at, h, w, r
    <2> QED
      BY <1>4, <2>1, <2>4, <2>2
  <1>8. Octet
    BY <1>2 DEF ReadLine, ReadBody, BlankLine, RequestLine, BadRequestLine, Field, BadField,
      EndOfHead, TooLong, ChunkEnd, BadChunk, ChunkSize, ChunkTooLarge, Trailer, ReadsNext
  <1>9. /\ pos' = pos + 1 /\ body' = Append(body, Piece) /\ want' = want - 1
        /\ UNCHANGED <<client, head, handled, answers>>
        /\ want' > 0 => UNCHANGED phase
        /\ ~(want' > 0) => phase' = "crlf"
    BY <1>2, <1>3, <1>8 DEF Octet, ReadsNext
  <1>10. /\ SubSeq(c, 1, m) \in Seq(PiecesOf(r)) /\ Len(SubSeq(c, 1, m)) = m
         /\ Append(SubSeq(c, 1, m), c[m + 1]) = SubSeq(c, 1, m + 1)
         /\ m + 1 = Len(c) => SubSeq(c, 1, m + 1) = c
         /\ c[m + 1] \in PiecesOf(r)
    <2>1. m + 1 \in 1 .. Len(c)
      BY <1>4, <1>6
    <2> QED
      BY <1>5, <1>6, <2>1, PrefixGrows, ElementOfSeq
  <1>11. body' = joined \o SubSeq(c, 1, m + 1) /\ Len(body') = Len(body) + 1 /\ Len(body) \in Nat
    <2> DEFINE s == SubSeq(c, 1, m)
               x == c[m + 1]
               T == PiecesOf(r)
    <2>1. s \in Seq(T) /\ x \in T /\ joined \in Seq(T) /\ body = joined \o s
          /\ body' = Append(body, x)
      BY <1>5, <1>6, <1>7, <1>9, <1>10
    <2> HIDE DEF s, x, T
    <2>2. body' = joined \o Append(s, x) /\ Len(body') = Len(body) + 1 /\ Len(body) \in Nat
      <3>1. s \in Seq(T) /\ x \in T /\ joined \in Seq(T)
        BY <2>1
      <3>2. /\ Append(joined \o s, x) = joined \o Append(s, x)
            /\ Len(Append(joined \o s, x)) = Len(joined \o s) + 1 /\ Len(joined \o s) \in Nat
        BY <3>1, AppendBehind
      <3> QED
        BY <2>1, <3>2
    <2> QED
      BY <1>10, <2>2 DEF s, x
  <1>12. want' = Len(c) - (m + 1) /\ Len(body') + want' <= MaxBody /\ pos' = at + h + i + ((m + 1) + 1)
    <2> DEFINE q == Len(c)
               u == Len(body)
               v == Len(body')
    <2>1. /\ q \in Nat /\ i \in Nat /\ at \in Nat /\ h \in Nat
          /\ want = q - m /\ want' = want - 1 /\ u + want <= MaxBody
          /\ pos = at + h + i + (m + 1) /\ pos' = pos + 1
          /\ v = u + 1 /\ u \in Nat
      BY <1>2, <1>3, <1>4, <1>6, <1>9, <1>11
    <2> HIDE DEF q, u, v
    <2>2. want' = q - (m + 1) /\ v + want' <= MaxBody /\ pos' = at + h + i + ((m + 1) + 1)
      BY <2>1, HttpAssumption
    <2> QED
      BY <2>2 DEF q, v
  <1>13. Len(body') <= MaxBody
    <2> DEFINE l == Len(body')
               q == Len(c)
    <2>1. l \in Nat /\ q \in Nat /\ m < q /\ want' = q - (m + 1) /\ l + want' <= MaxBody
      <3>1. l = Len(body) + 1 /\ Len(body) \in Nat
        BY <1>11
      <3> HIDE DEF l
      <3>2. l \in Nat
        BY <3>1
      <3> QED
        BY <1>4, <1>6, <1>12, <3>2 DEF l
    <2> HIDE DEF l, q
    <2>2. l <= MaxBody
      BY <2>1, HttpAssumption
    <2> QED
      BY <2>2 DEF l
  <1>14. ChunksRead(n, k, (m + 1) + 1)' /\ UNCHANGED <<Req(n)>>
    BY <1>2, <1>6, <1>9, <1>12, <1>13, ChunksGoOn DEF r, at, h, i, last
  <1>15. CASE m + 1 < Len(c)
    <2>1. phase' = "octets"
      BY <1>2, <1>4, <1>9, <1>12, <1>15
    <2>2. PICK q \in Nat : q = m + 1
      OBVIOUS
    <2>3. /\ q < Len(c) /\ body' = joined \o SubSeq(c, 1, q) /\ want' = Len(c) - q
          /\ Len(body') + want' <= MaxBody /\ ChunksRead(n, k, q + 1)'
      BY <1>11, <1>12, <1>14, <1>15, <2>2
    <2>4. InChunk(n)'
      BY <1>1, <1>14, <2>1, <2>3 DEF InChunk, r, c, C, last, joined
    <2> QED
      BY <2>4 DEF ReaderAt
  <1>16. CASE m + 1 = Len(c)
    <2>1. phase' = "crlf"
      BY <1>4, <1>9, <1>12, <1>16
    <2>2. body' = Joined(r.chunks, k + 1)
      BY <1>5, <1>10, <1>11, <1>16
    <2>3. PICK q \in Nat : q = (m + 1) + 1
      OBVIOUS
    <2>4. ChunksRead(n, k, q)'
      BY <1>14, <2>3
    <2>5. q = Len(c) + 1
      BY <1>16, <2>3
    <2>6. AtChunkEnd(n)'
      BY <1>1, <1>14, <2>1, <2>2, <2>4, <2>5 DEF AtChunkEnd, r, c, C, last
    <2> QED
      BY <2>6 DEF ReaderAt
  <1> QED
    BY <1>4, <1>6, <1>15, <1>16

\* The line behind a chunk.
LEMMA ChunkEndStep ==
  ASSUME PlaceInv, NEW n \in Nat, AtChunkEnd(n), ReadLine \/ ReadBody
  PROVE  \E m \in Nat : ReaderAt(m)'
  <1> DEFINE r == Req(n)
             at == Start(n)
             h == HeadLen(r)
             w == BodyWire(r)
             last == Len(r.chunks)
             C(k) == r.chunks[k + 1]
  <1>1. PICK k \in Nat :
          /\ k < last /\ ChunksRead(n, k, Len(C(k)) + 1) /\ body = Joined(r.chunks, k + 1)
    BY DEF AtChunkEnd
  <1> DEFINE i == Len(Joined(ChunkWires(r), k))
             c == C(k)
             next == Len(Joined(ChunkWires(r), k + 1))
  <1>2. /\ phase = "crlf" /\ HeadRead(n) /\ Codings(fields) # <<>>
        /\ k \in 0 .. last /\ Len(body) <= MaxBody
        /\ pos = at + h + i + (Len(c) + 1)
    BY <1>1 DEF AtChunkEnd, ChunksRead
  <1>3. /\ n < Len(conversation) /\ Legible(r) /\ Codings(r.fields) # <<>>
        /\ at \in Nat /\ h \in Nat /\ last \in Nat
    BY <1>2, ChunkedBody
  <1>4. /\ i \in Nat /\ Len(c) \in Nat /\ i + Len(c) + 2 < Len(w)
        /\ w[i + Len(c) + 2] = r.end /\ next = i + Len(c) + 2
    <2>1. LET all == Len(Joined(ChunkWires(r), Len(r.chunks)))
          IN  all \in Nat /\ Len(w) = all + 2 /\ i + Len(c) + 2 <= all
              /\ i \in Nat /\ Len(c) \in Nat /\ w[i + Len(c) + 2] = r.end
              /\ next = i + Len(c) + 2
      BY <1>1, <1>3, ChunkLayout
    <2> HIDE DEF i, c, w, next
    <2> QED
      BY <2>1
  <1> HIDE DEF r, at, h, w, i, c, C, last, next
  <1>5. Piece = r.end
    <2>1. i + (Len(c) + 1) < Len(w) /\ i + (Len(c) + 1) + 1 = i + Len(c) + 2
          /\ Len(c) + 1 \in Nat
      <3> DEFINE l == Len(c)
                 lw == Len(w)
      <3>1. i \in Nat /\ l \in Nat /\ i + l + 2 < lw
        BY <1>4
      <3>2. lw \in Nat
        BY <1>3, BodyWireForms, LenProperties DEF w
      <3> HIDE DEF l, lw
      <3>3. i + (l + 1) < lw /\ i + (l + 1) + 1 = i + l + 2 /\ l + 1 \in Nat
        BY <3>1, <3>2
      <3> QED
        BY <3>3 DEF l, lw
    <2>2. Piece = w[i + (Len(c) + 1) + 1]
      BY <1>2, <1>3, <1>4, <2>1, PieceAt DEF at, h, w, r
    <2> QED
      BY <1>4, <2>1, <2>2
  <1>6. ChunkEnd \/ BadChunk
    BY <1>2 DEF ReadLine, ReadBody, BlankLine, RequestLine, BadRequestLine, Field, BadField,
      EndOfHead, TooLong, Octet, ChunkSize, ChunkTooLarge, Trailer, ReadsNext
  <1>7. CASE BadChunk
    <2>1. Codings(r.fields) # <<>> /\ r.chunks # <<>> /\ r.end # Eol
      <3>1. r.end # Eol
        BY <1>2, <1>5, <1>7 DEF BadChunk, ReadsNext
      <3>2. last > 0
        BY <1>1, <1>3
      <3> QED
        BY <1>3, <3>1, <3>2 DEF last
    <2>2. ~WellFormed(r)
      BY <1>3, <2>1, IllFormed
    <2>3. Over(n)'
      BY <1>2, <1>3, <1>7, <2>2, FailEnds DEF BadChunk, HeadRead, r
    <2> QED
      BY <2>3 DEF ReaderAt
  <1>8. CASE ChunkEnd
    <2>1. /\ pos' = pos + 1 /\ phase' = "size" /\ r.end = Eol
          /\ UNCHANGED <<client, head, body, handled, answers>>
      BY <1>5, <1>8 DEF ChunkEnd, ReadsNext
    <2>2. pos' = at + h + next + 0
      <3> DEFINE l == Len(c)
      <3>1. i \in Nat /\ l \in Nat /\ next = i + l + 2 /\ pos = at + h + i + (l + 1)
        BY <1>2, <1>4
      <3> HIDE DEF l
      <3> QED
        BY <1>3, <2>1, <3>1
    <2>3. k + 1 \in 0 .. last
      BY <1>1, <1>3
    <2>4. ChunksRead(n, k + 1, 0)' /\ UNCHANGED <<Req(n)>>
      <3>1. ChunksRead(n, k, Len(c) + 1)
        BY <1>1 DEF c
      <3> QED
        BY <1>2, <2>1, <2>2, <2>3, <3>1, ChunksGoOn DEF r, at, h, next, last
    <2>5. AtSize(n)'
      BY <1>1, <2>1, <2>4 DEF AtSize, r
    <2> QED
      BY <2>5 DEF ReaderAt
  <1> QED
    BY <1>6, <1>7, <1>8

\* The last line of a chunked body.
LEMMA TrailerStep ==
  ASSUME PlaceInv, NEW n \in Nat, AtTrailer(n), ReadLine \/ ReadBody
  PROVE  \E m \in Nat : ReaderAt(m)'
  <1> DEFINE r == Req(n)
             at == Start(n)
             h == HeadLen(r)
             w == BodyWire(r)
             last == Len(r.chunks)
             i == Len(Joined(ChunkWires(r), last))
  <1>1. /\ phase = "trailer" /\ HeadRead(n) /\ Codings(fields) # <<>> /\ body = BodyOf(r)
        /\ Len(body) <= MaxBody /\ (last > 0 => r.end = Eol)
        /\ pos = at + h + i + 1
    BY DEF AtTrailer, ChunksRead
  <1>2. /\ n < Len(conversation) /\ Len(conversation) \in Nat /\ Legible(r)
        /\ Codings(r.fields) # <<>>
        /\ at \in Nat /\ h \in Nat /\ last \in Nat
        /\ Start(n + 1) = at + h + Len(w)
    BY <1>1, ChunkedBody
  <1>3. i \in Nat /\ Len(w) = i + 2 /\ w[i + 2] = Eol
    BY <1>2, ChunkLayout
  <1>4. Piece = Eol
    <2>1. i + 1 < Len(w) /\ i + 1 + 1 = i + 2
      <3> HIDE DEF i, w
      <3> QED
        BY <1>3
    <2>2. Piece = w[i + 1 + 1]
      BY <1>1, <1>2, <1>3, <2>1, PieceAt
    <2> QED
      BY <1>3, <2>1, <2>2
  <1> HIDE DEF r, at, h, w, last, i
  <1>5. used = h
    BY <1>1 DEF HeadRead, r, h
  <1>6. TooLong \/ Trailer
    BY <1>1 DEF ReadLine, ReadBody, BlankLine, RequestLine, BadRequestLine, Field, BadField,
      EndOfHead, Octet, ChunkEnd, BadChunk, ChunkSize, ChunkTooLarge, ReadsNext
  <1>7. CASE TooLong
    <2>1. h >= MaxHead
      BY <1>2, <1>5, <1>7, HttpAssumption DEF TooLong, Fits
    <2>2. ~WellFormed(r)
      BY <1>2, <2>1, IllFormed DEF h
    <2>3. Over(n)'
      BY <1>1, <1>2, <1>7, <2>2, FailEnds DEF TooLong, HeadRead, r
    <2> QED
      BY <2>3 DEF ReaderAt
  <1>8. CASE Trailer
    <2>1. /\ pos' = pos + 1 /\ used < MaxHead /\ phase' = "handler" /\ HandOver /\ body' = body
          /\ UNCHANGED <<conversation, fields, version, answers>>
      BY <1>4, <1>8 DEF Trailer, ReadsNext, Fits, client
    <2>2. pos' = Start(n + 1)
      <3> DEFINE l == Len(w)
      <3>1. Start(n + 1) = at + h + l /\ l = i + 2 /\ i \in Nat
        BY <1>2, <1>3
      <3> HIDE DEF l
      <3> QED
        BY <1>1, <1>2, <2>1, <3>1
    <2>3. r.chunks # <<>> => r.end = Eol
      BY <1>1, <1>2, RequestTyped, EmptySeq DEF last
    <2>4. ReaderAt(n)'
      BY <1>1, <1>2, <2>1, <2>2, <2>3, BodyHandsOver DEF r
    <2> QED
      BY <2>4
  <1> QED
    BY <1>6, <1>7, <1>8

\* The answer of the handler.
LEMMA HandlerStep ==
  ASSUME PlaceInv, NEW n \in Nat, AtHandler(n), Answer \/ WriteFails
  PROVE  \E m \in Nat : ReaderAt(m)'
  <1>1. /\ phase = "handler" /\ Served(n + 1) /\ Answered(n)
        /\ LineRead(n) /\ fields = Req(n).fields
        /\ pos = Start(n + 1)
    BY DEF AtHandler
  <1>2. n + 1 \in 0 .. Len(conversation) /\ Len(conversation) \in Nat
    BY <1>1, TalkTyped DEF Served, PlaceInv
  <1>3. CASE WriteFails
    <2>1. phase' = "closed" /\ UNCHANGED <<conversation, handled, answers>>
      BY <1>3 DEF WriteFails, client
    <2>2. Served(n + 1)'
      BY <1>1, <2>1 DEF Served
    <2>3. \A i \in DOMAIN answers' : answers'[i] \in {200, 408}
      BY <1>1, <2>1 DEF Answered
    <2>4. Over(n + 1)'
      BY <2>1, <2>2, <2>3 DEF Over
    <2> QED
      BY <2>4 DEF ReaderAt
  <1>4. CASE Answer
    <2>1. /\ answers' = Append(answers, 200)
          /\ phase' = IF KeepAlive THEN "head" ELSE "closed"
          /\ used' = 0 /\ fields' = <<>> /\ body' = <<>>
          /\ UNCHANGED <<conversation, pos, handled>>
      BY <1>4 DEF Answer, client
    <2>2. Served(n + 1)'
      BY <1>1, <2>1 DEF Served
    <2>3. answers' = [i \in 1 .. n + 1 |-> 200]
      BY <1>1, <2>1 DEF Answered
    <2>4. CASE KeepAlive
      <3>1. Stays(Req(n))
        BY <1>1, <2>4 DEF KeepAlive, Stays, LineRead
      <3>2. Open(n + 1)'
        BY <2>1, <2>2, <2>3, <3>1 DEF Open, Answered, Req
      <3>3. Start(n + 1) \in Nat
        BY <1>1, <1>2, TalkEnds, PieceOfHead, StreamIs DEF PlaceInv
      <3>4. pos' = Start(n + 1)' + 0
        BY <1>1, <2>1, <3>3 DEF Start
      <3>5. n + 1 # Len(conversation) => 0 <= Req(n + 1).blank
        <4>1. n + 1 # Len(conversation) => n + 1 < Len(conversation)
          BY <1>2
        <4> QED
          BY <4>1, PieceOfHead
      <3>6. InHead(n + 1)'
        BY <2>1, <2>4, <3>2, <3>4, <3>5 DEF InHead, Req
      <3> QED
        BY <3>6 DEF ReaderAt
    <2>5. CASE ~KeepAlive
      <3>1. \A i \in DOMAIN answers' : answers'[i] \in {200, 408}
        BY <2>3
      <3>2. Over(n + 1)'
        BY <2>1, <2>2, <2>5, <3>1 DEF Over
      <3> QED
        BY <3>2 DEF ReaderAt
    <2> QED
      BY <2>4, <2>5
  <1> QED
    BY <1>3, <1>4

-----------------------------------------------------------------------------
(***************************************************************************)
(* The reader is always somewhere in the conversation.  So what it has     *)
(* handed over is what was meant, and what it refuses is ill formed.       *)
(***************************************************************************)

\* While a request is awaited or read, its predecessors have been answered.
LEMMA StagesOpen ==
  ASSUME NEW n, ReaderAt(n), Reading
  PROVE  /\ Open(n)
         /\ InHead(n) \/ InFields(n) \/ InOctets(n) \/ AtSize(n) \/ InChunk(n)
              \/ AtChunkEnd(n) \/ AtTrailer(n)
  BY DEF ReaderAt, Reading, InHead, InFields, InOctets, AtSize, InChunk, AtChunkEnd, AtTrailer,
    AtHandler, Over, ChunksRead, HeadRead

\* Every step takes the reader from one of its places to another.
LEMMA NextKeepsReader ==
  ASSUME ReaderInv, [Next]_vars PROVE ReaderInv'
  <1>1. PICK n \in Nat : ReaderAt(n)
    BY DEF ReaderInv
  <1>2. PlaceInv' /\ PlaceInv
    BY PlaceKept DEF ReaderInv
  <1>3. CASE Send \/ StopSending \/ Tick \/ UNCHANGED vars
    <2>1. UNCHANGED <<conversation, pos, phase, head, body, want, handled, answers>>
      BY <1>3 DEF Send, StopSending, Tick, vars, client
    <2> QED
      BY <1>1, <1>2, <2>1, Stutters DEF ReaderInv
  <1>4. CASE TimeOut \/ EndOfStream
    <2>1. Open(n)
      BY <1>1, <1>4, StagesOpen DEF TimeOut, EndOfStream
    <2>2. Over(n)'
      BY <1>4, <2>1, WaitsOrStops
    <2> QED
      BY <1>2, <2>2 DEF ReaderInv, ReaderAt
  <1>5. CASE ReadLine \/ ReadBody
    <2>1. Reading
      BY <1>5 DEF Reading, ReadLine, ReadBody, BlankLine, RequestLine, BadRequestLine, Field,
        BadField, EndOfHead, TooLong, Octet, ChunkEnd, BadChunk, ChunkSize, ChunkTooLarge,
        Trailer, ReadsNext
    <2>2. InHead(n) \/ InFields(n) \/ InOctets(n) \/ AtSize(n) \/ InChunk(n) \/ AtChunkEnd(n)
            \/ AtTrailer(n)
      BY <1>1, <2>1, StagesOpen
    <2>3. \E m \in Nat : ReaderAt(m)'
      BY <1>2, <1>5, <2>2, HeadStep, FieldsStep, OctetsStep, SizeStep, ChunkStep, ChunkEndStep,
        TrailerStep
    <2> QED
      BY <1>2, <2>3 DEF ReaderInv
  <1>6. CASE Answer \/ WriteFails
    <2>1. AtHandler(n)
      BY <1>1, <1>6 DEF Answer, WriteFails, ReaderAt, InHead, InFields, InOctets, AtSize,
        InChunk, AtChunkEnd, AtTrailer, Over
    <2>2. \E m \in Nat : ReaderAt(m)'
      BY <1>2, <1>6, <2>1, HandlerStep
    <2> QED
      BY <1>2, <2>2 DEF ReaderInv
  <1> QED
    BY <1>3, <1>4, <1>5, <1>6 DEF Next

\* It begins before the first request.
LEMMA ReaderBegins ==
  ASSUME Init PROVE ReaderInv
  <1>1. conversation \in Conversations /\ sent = 0 /\ pos = 0 /\ phase = "head" /\ used = 0
        /\ fields = <<>> /\ body = <<>> /\ handled = <<>> /\ answers = <<>>
    BY DEF Init
  <1>2. Len(stream) \in Nat /\ Len(conversation) \in Nat
    BY <1>1, TalkEnds, StreamIs, TalkTyped
  <1>3. PlaceInv
    BY <1>1, <1>2 DEF PlaceInv
  <1>4. Start(0) = 0
    BY <1>1, TalkBegins DEF Start
  <1>5. Open(0)
    BY <1>1, <1>2 DEF Open, Served, Answered
  <1>6. 0 # Len(conversation) => 0 <= Req(0).blank
    <2>1. 0 # Len(conversation) => 0 < Len(conversation)
      BY <1>2
    <2>2. 0 # Len(conversation) => Req(0).blank \in Nat
      BY <1>3, <2>1, PieceOfHead
    <2> QED
      BY <2>2
  <1>7. InHead(0)
    BY <1>1, <1>4, <1>5, <1>6 DEF InHead
  <1> QED
    BY <1>3, <1>7 DEF ReaderInv, ReaderAt

\* The requests up to i are handed over.
Due(i) ==
  /\ \A j \in 1 .. i : WellFormed(conversation[j])
  /\ \A j \in 1 .. i - 1 : Stays(conversation[j])

Dues == {i \in 0 .. Len(conversation) : Due(i)}

\* Meant is the longest run of them.
LEMMA DuesAre ==
  Meant = [i \in 1 .. Max(Dues) |-> [fields |-> conversation[i].fields,
                                     body |-> BodyOf(conversation[i])]]
  BY DEF Meant, Dues, Due

\* The longest run of requests that are due is one of them.
LEMMA MostDue ==
  ASSUME Len(conversation) \in Nat, NEW n \in Dues
  PROVE  Max(Dues) \in Dues /\ n <= Max(Dues)
  <1> DEFINE L == Len(conversation)
             S == {x \in Nat : x <= L /\ L - x \in Dues}
  <1>1. Dues \subseteq 0 .. L /\ L \in Nat
    BY DEF Dues
  <1> HIDE DEF L
  <1>2. L - n \in S /\ S \in SUBSET Nat
    BY <1>1
  <1>3. PICK x \in S : \A y \in S : x <= y
    <2> HIDE DEF S
    <2> QED
      BY <1>2, LeastNumber
  <1>4. \A i \in Dues : L - x >= i
    <2> TAKE i \in Dues
    <2>1. i \in Nat /\ L - i \in Nat /\ L - i <= L /\ L - (L - i) = i
      BY <1>1
    <2>2. x <= L - i
      BY <1>3, <2>1
    <2> QED
      BY <1>1, <1>3, <2>1, <2>2
  <1>5. \E y \in Dues : \A i \in Dues : y >= i
    BY <1>3, <1>4
  <1>6. Max(Dues) \in Dues /\ \A i \in Dues : Max(Dues) >= i
    BY <1>5 DEF Max
  <1> QED
    BY <1>1, <1>6

\* What has been served is the beginning of what is meant.
LEMMA ServedIsMeant ==
  ASSUME PlaceInv, NEW n \in Nat, Served(n)
  PROVE  /\ Len(handled) = n
         /\ IsPrefix(handled, Meant)
         /\ n = Len(conversation) => handled = Meant
  <1> DEFINE H(i) == [fields |-> conversation[i].fields, body |-> BodyOf(conversation[i])]
  <1>1. /\ n \in 0 .. Len(conversation) /\ handled = [i \in 1 .. n |-> H(i)]
        /\ n \in Dues
    BY DEF Served, Dues, Due
  <1>2. Len(conversation) \in Nat
    BY TalkTyped DEF PlaceInv
  <1>3. PICK m \in 0 .. Len(conversation) : m = Max(Dues) /\ n <= m
    BY <1>1, <1>2, MostDue DEF Dues
  <1>4. Meant = [i \in 1 .. m |-> H(i)]
    BY <1>3, DuesAre
  <1> HIDE DEF H
  <1>5. Len(handled) = n /\ Len(Meant) = m
    BY <1>1, <1>2, <1>3, <1>4
  <1>6. SubSeq(handled, 1, n) = SubSeq(Meant, 1, n)
    BY <1>1, <1>2, <1>3, <1>4
  <1>7. n = Len(conversation) => n = m
    BY <1>2, <1>3
  <1> QED
    BY <1>1, <1>3, <1>4, <1>5, <1>6, <1>7 DEF IsPrefix

\* Wherever the reader is, what it has handed over is a run of requests.
LEMMA ServedAlways ==
  ASSUME NEW n \in Nat, ReaderAt(n), PlaceInv
  PROVE  Served(n) \/ (AtHandler(n) /\ Served(n + 1))
  BY StagesOpen DEF ReaderAt, Open, InHead, InFields, InOctets, AtSize, InChunk, AtChunkEnd,
    AtTrailer, ChunksRead, HeadRead, AtHandler, Over

\* The reader that has read everything has handed everything over.
LEMMA AllRead ==
  ASSUME PlaceInv, NEW n \in Nat, InHead(n), pos = Len(stream)
  PROVE  n = Len(conversation)
  <1>1. n \in 0 .. Len(conversation) /\ Len(conversation) \in Nat
    BY TalkTyped DEF InHead, Open, Served, PlaceInv
  <1> SUFFICES ASSUME n < Len(conversation) PROVE FALSE
    BY <1>1
  <1> DEFINE r == Req(n)
             at == Start(n)
             b == r.blank
             m == Len(r.fields)
             w == Len(BodyWire(r))
             e == Len(stream)
  <1>2. /\ at \in Nat /\ b \in Nat /\ m \in Nat /\ w \in Nat
        /\ HeadLen(r) = b + m + 2 /\ Start(n + 1) = at + HeadLen(r) + w /\ Start(n + 1) <= e
    BY HeadPieces, StreamIs DEF PlaceInv, Start, Req
  <1>3. used \in Nat /\ used <= b /\ pos = at + used
    BY DEF InHead
  <1> HIDE DEF at, b, m, w, e
  <1>4. at + (b + m + 2) + w <= e
    BY <1>2
  <1>5. at + used = e
    BY <1>3 DEF e
  <1> QED
    BY <1>2, <1>3, <1>4, <1>5

\* A refusal is the last answer, and the only one.
LEMMA RefusalIsLast ==
  ASSUME NEW n \in Nat, Refusal(n)
  PROVE  {i \in DOMAIN answers : answers[i] \notin {200, 408}} = {Len(answers)}
         /\ Len(answers) = n + 1
  BY DEF Refusal

\* What the invariant shows.
LEMMA ReaderInvShows ==
  ASSUME ReaderInv PROVE HandledAsSent /\ RefusedRightly
  <1>1. PICK n \in Nat : ReaderAt(n)
    BY DEF ReaderInv
  <1>2. PlaceInv
    BY DEF ReaderInv
  <1>3. HandledAsSent
    <2>1. Served(n) \/ Served(n + 1)
      BY <1>1, <1>2, ServedAlways
    <2> QED
      BY <1>2, <2>1, ServedIsMeant DEF HandledAsSent
  <1> DEFINE refused == {i \in DOMAIN answers : answers[i] \notin {200, 408}}
  <1>4. refused # {} => /\ refused = {Len(answers)} /\ Len(answers) = Len(handled) + 1
                        /\ Len(handled) < Len(conversation)
                        /\ ~WellFormed(conversation[Len(handled) + 1])
    <2>1. CASE Answered(n)
      BY <2>1 DEF Answered
    <2>2. CASE Over(n)
      <3>1. CASE Refusal(n)
        <4>1. Len(handled) = n
          BY <1>2, <2>2, ServedIsMeant DEF Over
        <4> QED
          BY <3>1, <4>1, RefusalIsLast DEF Refusal, Req
      <3>2. CASE \A i \in DOMAIN answers : answers[i] \in {200, 408}
        BY <3>2
      <3> QED
        BY <2>2, <3>1, <3>2 DEF Over
    <2>3. Answered(n) \/ Over(n)
      BY <1>1, StagesOpen DEF ReaderAt, Open, InHead, InFields, InOctets, AtSize, InChunk,
        AtChunkEnd, AtTrailer, ChunksRead, HeadRead, AtHandler
    <2> QED
      BY <2>1, <2>2, <2>3
  <1>5. phase = "head" /\ pos = Len(stream) => Len(answers) = Len(handled) /\ handled = Meant
    <2> SUFFICES ASSUME phase = "head", pos = Len(stream)
                 PROVE  Len(answers) = Len(handled) /\ handled = Meant
      OBVIOUS
    <2>1. InHead(n)
      BY <1>1 DEF ReaderAt, InFields, InOctets, AtSize, InChunk, AtChunkEnd, AtTrailer, AtHandler,
        Over
    <2>2. n = Len(conversation)
      BY <1>2, <2>1, AllRead
    <2>3. Served(n) /\ Answered(n)
      BY <2>1 DEF InHead, Open
    <2>4. Len(answers) = n
      BY <2>3 DEF Answered
    <2> QED
      BY <1>2, <2>2, <2>3, <2>4, ServedIsMeant
  <1>6. RefusedRightly
    BY <1>4, <1>5 DEF RefusedRightly
  <1> QED
    BY <1>3, <1>6

\* The reader's invariant, in every state of every connection.
LEMMA ReaderInvariant == Spec => []ReaderInv
  <1>1. Init => ReaderInv
    BY ReaderBegins
  <1>2. ReaderInv /\ [Next]_vars => ReaderInv'
    BY NextKeepsReader
  <1> QED
    BY <1>1, <1>2, PTL DEF Spec

\* read_request, read_body, read_chunked, for any conversation, limits and timeouts: the
\* handler gets the requests the client sent, in order, each with its own body, none made
\* of the bytes of another, and nothing behind a request that must be refused.
THEOREM RequestsAreHandledAsSent == Spec => []HandledAsSent
  <1>1. ReaderInv => HandledAsSent
    BY ReaderInvShows
  <1> QED
    BY <1>1, ReaderInvariant, PTL

\* HttpError, likewise: only a request that is malformed or too large is refused, once and
\* last, and when every byte has been read every request has been answered.
THEOREM RefusalsAreRight == Spec => []RefusedRightly
  <1>1. ReaderInv => RefusedRightly
    BY ReaderInvShows
  <1> QED
    BY <1>1, ReaderInvariant, PTL

-----------------------------------------------------------------------------
(***************************************************************************)
(* The streaming hasher.  However a message is fed to it, it has compressed*)
(* the whole blocks of the message and holds the rest; so what it pads at  *)
(* the end is what would be padded of the message in one piece.            *)
(***************************************************************************)

\* Joining is associative.
LEMMA JoinsRight ==
  ASSUME NEW T, NEW u \in Seq(T), NEW v \in Seq(T), NEW w \in Seq(T),
         NEW uv, IsConcat(uv, u, v), NEW vw, IsConcat(vw, v, w), NEW all, IsConcat(all, uv, w)
  PROVE  IsConcat(all, u, vw)
  BY ConcatAssociative DEF IsConcat

\* What follows the left part goes to the right one.
LEMMA JoinsLeft ==
  ASSUME NEW T, NEW u \in Seq(T), NEW v \in Seq(T), NEW w \in Seq(T),
         NEW uv, IsConcat(uv, u, v), NEW vw, IsConcat(vw, v, w), NEW all, IsConcat(all, u, vw)
  PROVE  IsConcat(all, uv, w)
  BY ConcatAssociative, SMTT(30) DEF IsConcat

\* Quotients and remainders by any number.
LEMMA Divided ==
  ASSUME NEW b \in Nat \ {0}, NEW n \in Nat
  PROVE  n \div b \in Nat /\ n % b \in 0 .. b - 1 /\ n = (n \div b) * b + (n % b)
  <1>1. n \div b \in Nat /\ n % b \in 0 .. b - 1
    OBVIOUS
  <1>2. n % b = n - b * (n \div b)
    OBVIOUS
  <1>3. b * (n \div b) = (n \div b) * b
    BY <1>1
  <1>4. PICK e \in Nat, r \in Nat : e = (n \div b) * b /\ r = n % b
    BY <1>1
  <1>5. n = e + r
    BY <1>2, <1>3, <1>4
  <1> QED
    BY <1>1, <1>4, <1>5

\* The quotient and the remainder are those of any such sum.
LEMMA Quotient ==
  ASSUME NEW b \in Nat \ {0}, NEW q \in Nat, NEW r \in 0 .. b - 1, NEW n, n = q * b + r
  PROVE  n \div b = q /\ n % b = r
  OBVIOUS

\* What follows whole blocks has the remainder that it has alone.
LEMMA Aligned ==
  ASSUME NEW b \in Nat \ {0}, NEW m \in Nat, NEW n \in Nat, m % b = 0
  PROVE  /\ m = (m \div b) * b
         /\ (m + n) \div b = (m \div b) + (n \div b)
         /\ (m + n) % b = n % b
  <1>1. m \div b \in Nat /\ m = (m \div b) * b
    BY Divided
  <1>2. n \div b \in Nat /\ n % b \in 0 .. b - 1 /\ n = (n \div b) * b + (n % b)
    BY Divided
  <1>3. PICK p \in Nat, q \in Nat, r \in 0 .. b - 1 :
          p = m \div b /\ q = n \div b /\ r = n % b /\ m = p * b /\ n = q * b + r
    BY <1>1, <1>2
  <1>4. PICK s \in Nat : s = p + q
    OBVIOUS
  <1>5. s * b = p * b + q * b
    BY <1>4
  <1>6. p * b \in Nat /\ q * b \in Nat /\ s * b \in Nat
    OBVIOUS
  <1>7. m + n = s * b + r
    BY <1>3, <1>5, <1>6
  <1>8. (m + n) \div b = s /\ (m + n) % b = r
    BY <1>7, Quotient
  <1> QED
    BY <1>1, <1>3, <1>4, <1>8

\* Parts that agree are equal.
LEMMA ShiftedPart ==
  ASSUME NEW T, NEW u, NEW v, NEW i \in Int, NEW j \in Int, NEW l \in Int,
         \A k \in i .. j : v[k] \in T /\ u[l + k] = v[k]
  PROVE  SubSeq(u, l + i, l + j) = SubSeq(v, i, j)
  <1> DEFINE a == SubSeq(u, l + i, l + j)
             b == SubSeq(v, i, j)
  <1>1. /\ b \in Seq(T) /\ Len(b) = IF i <= j THEN (j - i) + 1 ELSE 0
        /\ \A k \in 1 .. (j - i) + 1 : b[k] = v[(i + k) - 1]
    BY SubSeqProperties
  <1>2. ASSUME NEW k \in l + i .. l + j PROVE u[k] \in T
    <2>1. k - l \in i .. j /\ l + (k - l) = k
      OBVIOUS
    <2> QED
      BY <2>1
  <1>3. PICK p \in Int, q \in Int : p = l + i /\ q = l + j
    OBVIOUS
  <1>4. /\ a \in Seq(T) /\ Len(a) = IF p <= q THEN (q - p) + 1 ELSE 0
        /\ \A k \in 1 .. (q - p) + 1 : a[k] = u[(p + k) - 1]
    BY <1>2, <1>3, SubSeqProperties
  <1>5. Len(a) = Len(b) /\ (q - p) + 1 = (j - i) + 1
    BY <1>1, <1>3, <1>4
  <1>6. ASSUME NEW k \in 1 .. Len(b) PROVE a[k] = b[k]
    <2>1. k \in 1 .. (j - i) + 1
      BY <1>1
    <2>2. (i + k) - 1 \in i .. j /\ (p + k) - 1 = l + ((i + k) - 1)
      BY <1>3, <2>1
    <2> QED
      BY <1>1, <1>4, <1>5, <2>1, <2>2
  <1> HIDE DEF a, b
  <1>7. a = b
    BY <1>1, <1>4, <1>5, <1>6, SeqEqual
  <1> QED
    BY <1>7 DEF a, b

\* An equality, as an operator that the provers can match.
Same(s, t) == s = t

\* A part is known by where it begins and ends.
LEMMA SamePart ==
  ASSUME NEW T, NEW u, NEW v, NEW i \in Int, NEW j \in Int,
         \A k \in i .. j : v[k] \in T /\ u[k] = v[k]
  PROVE  Same(SubSeq(u, i, j), SubSeq(v, i, j))
  <1>1. \A k \in i .. j : v[k] \in T /\ u[0 + k] = v[k]
    OBVIOUS
  <1>2. SubSeq(u, 0 + i, 0 + j) = SubSeq(v, i, j)
    BY <1>1, ShiftedPart, SMTT(30)
  <1> QED
    BY <1>2 DEF Same

\* A part of what is joined that lies on one side is a part of that side.
LEMMA PartOfLeft ==
  ASSUME NEW T, NEW u \in Seq(T), NEW v \in Seq(T), NEW i \in Nat, NEW j \in Nat,
         1 <= i, j <= Len(u), NEW w, IsConcat(w, u, v)
  PROVE  SubSeq(w, i, j) = SubSeq(u, i, j)
  <1>1. w \in Seq(T) /\ Len(w) = Len(u) + Len(v) /\ \A k \in 1 .. Len(u) : w[k] = u[k]
    BY Glue
  <1>2. Len(u) \in Nat /\ Len(v) \in Nat
    OBVIOUS
  <1>3. \A k \in i .. j : u[k] \in T /\ w[k] = u[k]
    BY <1>1, <1>2
  <1>4. i \in Int /\ j \in Int
    OBVIOUS
  <1>5. Same(SubSeq(w, i, j), SubSeq(u, i, j))
    BY <1>3, <1>4, SamePart, Zenon
  <1> QED
    BY <1>5, Zenon DEF Same

\* A block has octets.
LEMMA BlockLenPositive ==
  BlockLen \in Nat \ {0} /\ SuffixLen \in Nat /\ 0 < SuffixLen /\ SuffixLen < BlockLen
  BY CryptoAssumption

\* The blocks of a message are sequences of its octets.
LEMMA BlocksTyped ==
  ASSUME NEW T, NEW u \in Seq(T)
  PROVE  /\ Blocks(u) \in Seq(Seq(T))
         /\ Len(Blocks(u)) = Len(u) \div BlockLen
         /\ \A k \in 1 .. Len(u) \div BlockLen :
              /\ (k - 1) * BlockLen \in Nat /\ k * BlockLen = (k - 1) * BlockLen + BlockLen
              /\ k * BlockLen <= Len(u)
              /\ Blocks(u)[k] = SubSeq(u, (k - 1) * BlockLen + 1, k * BlockLen)
              /\ Blocks(u)[k] \in Seq(T)
  <1> DEFINE n == Len(u) \div BlockLen
  <1>1. BlockLen \in Nat \ {0} /\ Len(u) \in Nat
    BY BlockLenPositive
  <1>2. n \in Nat /\ n * BlockLen <= Len(u)
    <2>1. /\ n \in Nat /\ Len(u) % BlockLen \in 0 .. BlockLen - 1
          /\ Len(u) = n * BlockLen + (Len(u) % BlockLen)
      BY <1>1, Divided
    <2> HIDE DEF n
    <2>2. PICK c \in Nat : c = n * BlockLen
      BY <1>1, <2>1
    <2>3. PICK d \in Nat : d = Len(u) % BlockLen
      BY <1>1, <2>1
    <2>4. Len(u) = c + d
      BY <2>1, <2>2, <2>3
    <2> QED
      BY <2>1, <2>2, <2>4
  <1>3. Blocks(u) = [k \in 1 .. n |-> SubSeq(u, (k - 1) * BlockLen + 1, k * BlockLen)]
    BY DEF Blocks
  <1> HIDE DEF n
  <1>4. ASSUME NEW k \in 1 .. n
        PROVE  /\ (k - 1) * BlockLen \in Nat /\ k * BlockLen = (k - 1) * BlockLen + BlockLen
               /\ k * BlockLen <= Len(u)
               /\ SubSeq(u, (k - 1) * BlockLen + 1, k * BlockLen) \in Seq(T)
    <2>1. PICK p \in Nat : p = k - 1 /\ k = p + 1
      OBVIOUS
    <2>2. PICK a \in Nat : a = p * BlockLen
      BY <1>1
    <2>3. k * BlockLen = a + BlockLen
      BY <1>1, <2>1, <2>2
    <2>4. k * BlockLen <= n * BlockLen
      BY <1>1, <1>2
    <2>5. a + BlockLen <= Len(u)
      <3>1. PICK c \in Nat : c = n * BlockLen
        BY <1>1, <1>2
      <3> QED
        BY <1>1, <1>2, <2>3, <2>4, <3>1
    <2>6. \A i \in a + 1 .. a + BlockLen : u[i] \in T
      BY <1>1, <2>2, <2>5
    <2>7. SubSeq(u, a + 1, a + BlockLen) \in Seq(T)
      BY <1>1, <2>2, <2>6, SubSeqProperties
    <2> QED
      BY <1>1, <2>1, <2>2, <2>3, <2>5, <2>7
  <1>5. \A k \in 1 .. n : Blocks(u)[k] \in Seq(T)
    BY <1>3, <1>4
  <1>6. Blocks(u) \in Seq(Seq(T)) /\ Len(Blocks(u)) = n
    BY <1>2, <1>3, <1>5
  <1> QED
    BY <1>3, <1>4, <1>5, <1>6 DEF n

\* It ends where a block does.
Whole(u) == Len(u) % BlockLen = 0

\* The blocks of a message that ends with a block, and of what follows it.
LEMMA BlocksJoin ==
  ASSUME NEW T, NEW u \in Seq(T), NEW v \in Seq(T), Whole(u),
         NEW w, IsConcat(w, u, v)
  PROVE  IsConcat(Blocks(w), Blocks(u), Blocks(v))
  <1> DEFINE p == Len(u) \div BlockLen
             q == Len(v) \div BlockLen
             both == Blocks(u) \o Blocks(v)
  <1>1. /\ BlockLen \in Nat \ {0} /\ Len(u) \in Nat /\ Len(v) \in Nat
        /\ w \in Seq(T) /\ Len(w) = Len(u) + Len(v)
    BY BlockLenPositive, Glue
  <1>2. /\ p \in Nat /\ q \in Nat
        /\ Len(u) = p * BlockLen /\ Len(w) \div BlockLen = p + q
    <2>1. p \in Nat /\ q \in Nat
      BY <1>1, Divided
    <2>2. Len(u) = p * BlockLen /\ (Len(u) + Len(v)) \div BlockLen = p + q
      BY <1>1, Aligned DEF Whole
    <2> QED
      BY <1>1, <2>1, <2>2
  <1>3. /\ Blocks(u) \in Seq(Seq(T)) /\ Len(Blocks(u)) = p
        /\ Blocks(v) \in Seq(Seq(T)) /\ Len(Blocks(v)) = q
        /\ Blocks(w) \in Seq(Seq(T)) /\ Len(Blocks(w)) = p + q
    BY <1>1, <1>2, BlocksTyped
  <1> HIDE DEF p, q
  <1>4. /\ both \in Seq(Seq(T)) /\ Len(both) = p + q
        /\ \A k \in 1 .. p : both[k] = Blocks(u)[k]
        /\ \A k \in 1 .. q : both[p + k] = Blocks(v)[k]
    <2> DEFINE S == Seq(T)
    <2>1. IsConcat(both, Blocks(u), Blocks(v)) /\ Blocks(u) \in Seq(S) /\ Blocks(v) \in Seq(S)
      BY <1>3 DEF IsConcat
    <2> HIDE DEF both, S
    <2>2. /\ both \in Seq(S) /\ Len(both) = Len(Blocks(u)) + Len(Blocks(v))
          /\ \A k \in 1 .. Len(Blocks(u)) : both[k] = Blocks(u)[k]
          /\ \A k \in 1 .. Len(Blocks(v)) : both[Len(Blocks(u)) + k] = Blocks(v)[k]
      BY <2>1, Glue
    <2> QED
      BY <1>3, <2>2 DEF S
  <1> HIDE DEF both
  <1>5. ASSUME NEW k \in 1 .. p PROVE Blocks(w)[k] = Blocks(u)[k]
    <2>1. k \in 1 .. Len(u) \div BlockLen /\ k \in 1 .. Len(w) \div BlockLen
      BY <1>2 DEF p
    <2>2. /\ (k - 1) * BlockLen \in Nat /\ k * BlockLen = (k - 1) * BlockLen + BlockLen
          /\ k * BlockLen <= Len(u)
          /\ Blocks(u)[k] = SubSeq(u, (k - 1) * BlockLen + 1, k * BlockLen)
          /\ Blocks(w)[k] = SubSeq(w, (k - 1) * BlockLen + 1, k * BlockLen)
      BY <1>1, <2>1, BlocksTyped
    <2>3. PICK c \in Nat : c = (k - 1) * BlockLen
      BY <2>2
    <2>4. PICK i \in Nat, j \in Nat : i = c + 1 /\ j = c + BlockLen
      BY <1>1
    <2>5. i = (k - 1) * BlockLen + 1 /\ j = k * BlockLen /\ j <= Len(u)
      BY <2>2, <2>3, <2>4
    <2>6. 1 <= i /\ j <= Len(u)
      BY <2>4, <2>5
    <2>7. SubSeq(w, i, j) = SubSeq(u, i, j)
      BY <2>6, PartOfLeft
    <2> QED
      BY <2>2, <2>5, <2>7
  <1>6. ASSUME NEW k \in 1 .. q PROVE Blocks(w)[p + k] = Blocks(v)[k]
    <2>1. k \in 1 .. Len(v) \div BlockLen /\ p + k \in 1 .. Len(w) \div BlockLen
      BY <1>2 DEF q
    <2>2. /\ (k - 1) * BlockLen \in Nat /\ k * BlockLen = (k - 1) * BlockLen + BlockLen
          /\ k * BlockLen <= Len(v)
          /\ Blocks(v)[k] = SubSeq(v, (k - 1) * BlockLen + 1, k * BlockLen)
      BY <1>1, <2>1, BlocksTyped
    <2>3. Blocks(w)[p + k] = SubSeq(w, ((p + k) - 1) * BlockLen + 1, (p + k) * BlockLen)
      BY <1>1, <2>1, BlocksTyped
    <2>4. ((p + k) - 1) * BlockLen = Len(u) + (k - 1) * BlockLen
          /\ (p + k) * BlockLen = Len(u) + k * BlockLen
      <3>1. PICK m \in Nat : m = k - 1 /\ (p + k) - 1 = p + m
        BY <1>2
      <3>2. (p + m) * BlockLen = p * BlockLen + m * BlockLen
            /\ (p + k) * BlockLen = p * BlockLen + k * BlockLen
        BY <1>1, <1>2, <3>1
      <3> QED
        BY <1>2, <3>1, <3>2
    <2>5. PICK c \in Nat : c = (k - 1) * BlockLen
      BY <2>2
    <2>6. PICK i \in Nat, j \in Nat : i = c + 1 /\ j = c + BlockLen
      BY <1>1
    <2>7. i = (k - 1) * BlockLen + 1 /\ j = k * BlockLen
      BY <2>2, <2>5, <2>6
    <2>8. PICK a \in Nat, b \in Nat : a = Len(u) + i /\ b = Len(u) + j
      BY <1>1
    <2>9. 1 <= i /\ j <= Len(v)
      BY <2>2, <2>6, <2>7
    <2>10. SubSeq(w, Len(u) + i, Len(u) + j) = SubSeq(v, i, j)
      <3>1. PICK l \in Nat : l = Len(u)
        BY <1>1
      <3>2. ASSUME NEW m \in i .. j PROVE v[m] \in T /\ w[l + m] = v[m]
        <4>1. m \in 1 .. Len(v)
          BY <1>1, <2>9
        <4>2. \A n \in 1 .. Len(v) : w[Len(u) + n] = v[n]
          BY Glue
        <4> QED
          BY <3>1, <4>1, <4>2
      <3>3. SubSeq(w, l + i, l + j) = SubSeq(v, i, j)
        BY <3>2, ShiftedPart
      <3> QED
        BY <3>1, <3>3
    <2>11. a = (Len(u) + c) + 1 /\ b = Len(u) + j
      BY <1>1, <2>6, <2>8
    <2>12. Blocks(w)[p + k] = SubSeq(w, Len(u) + i, Len(u) + j)
      BY <2>3, <2>4, <2>5, <2>7, <2>8, <2>11
    <2> QED
      BY <2>2, <2>7, <2>10, <2>12
  <1>7. ASSUME NEW k \in 1 .. p + q PROVE Blocks(w)[k] = both[k]
    <2>1. CASE k \in 1 .. p
      BY <1>4, <1>5, <2>1
    <2>2. CASE k \notin 1 .. p
      <3>1. k - p \in 1 .. q /\ p + (k - p) = k
        BY <1>2, <2>2
      <3> QED
        BY <1>4, <1>6, <3>1
    <2> QED
      BY <2>1, <2>2
  <1>8. Blocks(w) = both
    BY <1>3, <1>4, <1>7, SeqEqual
  <1> QED
    BY <1>8 DEF IsConcat, both

\* What follows it and fills no block adds none.
LEMMA BlocksRest ==
  ASSUME NEW T, NEW u \in Seq(T), NEW v \in Seq(T), Whole(u), Len(v) < BlockLen,
         NEW w, IsConcat(w, u, v)
  PROVE  Blocks(w) = Blocks(u)
  <1> DEFINE S == Seq(T)
  <1>1. Len(v) \in Nat /\ BlockLen \in Nat \ {0}
    BY BlockLenPositive
  <1>2. Len(v) \div BlockLen = 0
    BY <1>1
  <1>3. Blocks(v) = <<>>
    BY <1>2 DEF Blocks
  <1>4. IsConcat(Blocks(w), Blocks(u), Blocks(v))
    BY BlocksJoin
  <1>5. Blocks(u) \in Seq(S)
    BY BlocksTyped
  <1> HIDE DEF S
  <1>6. Blocks(u) \o <<>> = Blocks(u)
    BY <1>5, ConcatEmptySeq
  <1> QED
    BY <1>3, <1>4, <1>6 DEF IsConcat

\* A block is its only block.
LEMMA BlockAlone ==
  ASSUME NEW T, NEW v \in Seq(T), Len(v) = BlockLen
  PROVE  Blocks(v) = <<v>> /\ Whole(v)
  <1>1. BlockLen \in Nat \ {0} /\ Len(v) \div BlockLen = 1 /\ Len(v) % BlockLen = 0
    <2>1. BlockLen \in Nat \ {0} /\ BlockLen = 1 * BlockLen + 0
      BY BlockLenPositive
    <2>2. BlockLen \div BlockLen = 1 /\ BlockLen % BlockLen = 0
      BY <2>1, Quotient
    <2> QED
      BY <2>1, <2>2
  <1>2. SubSeq(v, (1 - 1) * BlockLen + 1, 1 * BlockLen) = v
    <2>1. (1 - 1) * BlockLen + 1 = 1 /\ 1 * BlockLen = Len(v)
      BY <1>1
    <2> QED
      BY <2>1, SubSeqFull
  <1>3. Blocks(v) = [k \in 1 .. 1 |-> v]
    BY <1>1, <1>2 DEF Blocks
  <1> QED
    BY <1>1, <1>3 DEF Whole

\* Whole blocks joined are whole blocks.
LEMMA WholesJoin ==
  ASSUME NEW T, NEW u \in Seq(T), NEW v \in Seq(T), Whole(u), Whole(v), NEW w, IsConcat(w, u, v)
  PROVE  Whole(w)
  <1>1. PICK m \in Nat, n \in Nat : m = Len(u) /\ n = Len(v)
    BY LenProperties
  <1>2. BlockLen \in Nat \ {0} /\ m % BlockLen = 0 /\ n % BlockLen = 0
    BY <1>1, BlockLenPositive DEF Whole
  <1>3. (m + n) % BlockLen = n % BlockLen
    BY <1>2, Aligned
  <1>4. Len(w) = m + n
    BY <1>1, Glue
  <1> QED
    BY <1>2, <1>3, <1>4 DEF Whole

\* Where update() divides what it is given.
WholeLen(d) == Len(d) - (Len(d) % BlockLen)

\* A message is its whole blocks and what is left of it.
LEMMA BlocksDivide ==
  ASSUME NEW T, NEW d \in Seq(T)
  PROVE  LET w == SubSeq(d, 1, WholeLen(d))
             l == SubSeq(d, WholeLen(d) + 1, Len(d))
         IN  /\ w \in Seq(T) /\ l \in Seq(T) /\ IsConcat(d, w, l)
             /\ Whole(w) /\ Len(l) < BlockLen /\ Blocks(d) = Blocks(w)
             /\ l = <<>> <=> Len(l) = 0
  <1> DEFINE w == SubSeq(d, 1, WholeLen(d))
             l == SubSeq(d, WholeLen(d) + 1, Len(d))
  <1>1. /\ BlockLen \in Nat \ {0} /\ Len(d) \in Nat
        /\ Len(d) % BlockLen \in 0 .. BlockLen - 1
        /\ Len(d) \div BlockLen \in Nat
        /\ Len(d) = (Len(d) \div BlockLen) * BlockLen + (Len(d) % BlockLen)
    <2>1. BlockLen \in Nat \ {0} /\ Len(d) \in Nat
      BY BlockLenPositive
    <2> QED
      BY <2>1, Divided
  <1>2. PICK n \in Nat : n = WholeLen(d) /\ n <= Len(d) /\ Len(d) - n < BlockLen
                         /\ n % BlockLen = 0
    <2>1. PICK r \in 0 .. BlockLen - 1 : r = Len(d) % BlockLen
      BY <1>1
    <2>2. PICK c \in Nat : c = (Len(d) \div BlockLen) * BlockLen
      BY <1>1
    <2>3. Len(d) = c + r
      BY <1>1, <2>1, <2>2
    <2>4. c = WholeLen(d) /\ c <= Len(d) /\ Len(d) - c < BlockLen
      BY <1>1, <2>1, <2>3 DEF WholeLen
    <2>5. PICK q \in Nat : q = Len(d) \div BlockLen
      BY <1>1
    <2>6. c = q * BlockLen + 0
      BY <1>1, <2>2, <2>5
    <2>7. BlockLen \in Nat \ {0} /\ 0 \in 0 .. BlockLen - 1
      BY BlockLenPositive
    <2>8. c % BlockLen = 0
      BY <2>6, <2>7, Quotient
    <2> QED
      BY <2>4, <2>8
  <1>3. /\ w \in Seq(T) /\ Len(w) = n
        /\ \A i \in 1 .. n : w[i] = d[i]
    <2>1. Len(d) \in Nat /\ n <= Len(d)
      BY <1>2, LenProperties
    <2>2. \A i \in 1 .. n : d[i] \in T
      BY <2>1
    <2>3. /\ SubSeq(d, 1, n) \in Seq(T)
          /\ Len(SubSeq(d, 1, n)) = IF 1 <= n THEN (n - 1) + 1 ELSE 0
          /\ \A i \in 1 .. (n - 1) + 1 : SubSeq(d, 1, n)[i] = d[(1 + i) - 1]
      BY <2>2, SubSeqProperties
    <2> QED
      BY <1>2, <2>3
  <1>4. /\ l \in Seq(T) /\ Len(l) = Len(d) - n
        /\ \A i \in 1 .. Len(d) - n : l[i] = d[n + i]
    <2>1. PICK m \in Nat : m = Len(d) /\ n <= m
      BY <1>2, LenProperties
    <2>2. PICK f \in Nat : f = n + 1
      OBVIOUS
    <2>3. \A i \in f .. m : d[i] \in T
      BY <2>1, <2>2
    <2>4. /\ SubSeq(d, f, m) \in Seq(T)
          /\ Len(SubSeq(d, f, m)) = IF f <= m THEN (m - f) + 1 ELSE 0
          /\ \A i \in 1 .. (m - f) + 1 : SubSeq(d, f, m)[i] = d[(f + i) - 1]
      BY <2>3, SubSeqProperties
    <2>5. l = SubSeq(d, f, m)
      BY <1>2, <2>1, <2>2
    <2> HIDE DEF l
    <2>6. Len(l) = m - n /\ (m - f) + 1 = m - n
      <3>1. Len(l) = IF f <= m THEN (m - f) + 1 ELSE 0
        BY <2>4, <2>5
      <3> QED
        BY <2>1, <2>2, <3>1
    <2>7. ASSUME NEW i \in 1 .. m - n PROVE l[i] = d[n + i]
      <3>1. (f + i) - 1 = n + i /\ i \in 1 .. (m - f) + 1
        BY <2>2, <2>6
      <3> QED
        BY <2>4, <2>5, <3>1
    <2> QED
      BY <2>1, <2>4, <2>5, <2>6, <2>7
  <1>5. IsConcat(d, w, l)
    <2>1. n + 1 \in 1 .. Len(d) + 1 /\ n \in 0 .. Len(d) /\ Len(d) \in n .. Len(d)
          /\ 1 \in 1 .. Len(d) + 1 /\ n \in 1 - 1 .. Len(d)
      BY <1>1, <1>2
    <2>2. SubSeq(d, 1, n) \o SubSeq(d, n + 1, Len(d)) = SubSeq(d, 1, Len(d))
      BY <2>1, ConcatAdjacentSubSeq
    <2> QED
      BY <1>2, <2>2, SubSeqFull DEF IsConcat
  <1>6. Whole(w) /\ Len(l) < BlockLen
    BY <1>2, <1>3, <1>4 DEF Whole
  <1>7. l = <<>> <=> Len(l) = 0
    BY <1>4, EmptySeq
  <1> HIDE DEF w, l
  <1>8. Blocks(d) = Blocks(w)
    BY <1>3, <1>4, <1>5, <1>6, BlocksRest
  <1> QED
    BY <1>3, <1>4, <1>5, <1>6, <1>7, <1>8 DEF w, l

\* What a hasher is fed, and what it is.
Fed == {"message", "zero", "mark", "length"} \X Nat \X Nat

\* What a hasher can be.
Hashers ==
  [blocks : Seq(Seq(Fed)), buf : [1 .. BlockLen -> Fed], held : Nat, total : Nat]

\* h has compressed the blocks of a, and holds r, which fills none.
Held(h, a, r) ==
  /\ a \in Seq(Fed) /\ r \in Seq(Fed) /\ Whole(a) /\ Len(r) < BlockLen
  /\ h \in Hashers
  /\ h.blocks = Blocks(a) /\ h.held = Len(r) /\ h.total = Len(a) + Len(r)
  /\ \A i \in 1 .. Len(r) : h.buf[i] = r[i]

\* h has been fed m, in whatever pieces.
Holds(h, m) == \E a, r \in Seq(Fed) : IsConcat(m, a, r) /\ Held(h, a, r)

\* update() from where a block ends.
LEMMA KeepsRest ==
  ASSUME NEW a \in Seq(Fed), NEW d \in Seq(Fed), Whole(a), NEW h \in Hashers,
         h.blocks = Blocks(a), h.held = 0, h.total = Len(a) + Len(d),
         NEW m, IsConcat(m, a, d)
  PROVE  Holds(Keep([h EXCEPT !.blocks = @ \o Blocks(d)],
                    SubSeq(d, WholeLen(d) + 1, Len(d))), m)
  <1> DEFINE w == SubSeq(d, 1, WholeLen(d))
             l == SubSeq(d, WholeLen(d) + 1, Len(d))
             b == a \o w
             g == [h EXCEPT !.blocks = @ \o Blocks(d)]
             k == Keep(g, l)
  <1>1. /\ w \in Seq(Fed) /\ l \in Seq(Fed) /\ IsConcat(d, w, l)
        /\ Whole(w) /\ Len(l) < BlockLen /\ Blocks(d) = Blocks(w)
        /\ l = <<>> <=> Len(l) = 0
    BY BlocksDivide
  <1> HIDE DEF w, l
  <1>2. IsConcat(b, a, w)
    BY DEF IsConcat
  <1> HIDE DEF b
  <1>3. b \in Seq(Fed) /\ Len(b) = Len(a) + Len(w) /\ Len(d) = Len(w) + Len(l)
        /\ Len(a) \in Nat /\ Len(w) \in Nat /\ Len(l) \in Nat
    BY <1>1, <1>2, Glue, LenProperties
  <1>4. Blocks(b) = Blocks(a) \o Blocks(d)
    <2>1. IsConcat(Blocks(b), Blocks(a), Blocks(w))
      BY <1>1, <1>2, BlocksJoin
    <2> QED
      BY <1>1, <2>1 DEF IsConcat
  <1>5. Whole(b)
    <2> QED
      BY <1>1, <1>2, WholesJoin
  <1>6. IsConcat(m, b, l)
    BY <1>1, <1>2, JoinsLeft
  <1>7. Blocks(b) \in Seq(Seq(Fed))
    BY <1>3, BlocksTyped
  <1>8. /\ g \in Hashers /\ g.blocks = Blocks(b) /\ g.held = 0
        /\ g.total = Len(b) + Len(l) /\ g.buf \in [1 .. BlockLen -> Fed]
    <2>1. g.total = Len(b) + Len(l)
      BY <1>3 DEF Hashers
    <2> QED
      BY <1>4, <1>7, <2>1 DEF Hashers
  <1> HIDE DEF g
  <1>9. Held(k, b, l)
    <2>1. CASE l = <<>>
      <3>1. k = g /\ Len(l) = 0
        BY <1>1, <2>1 DEF Keep
      <3>2. \A i \in 1 .. Len(l) : k.buf[i] = l[i]
        BY <3>1
      <3> HIDE DEF k
      <3> QED
        BY <1>1, <1>3, <1>5, <1>8, <3>1, <3>2 DEF Held
    <2>2. CASE l # <<>>
      <3>1. k = [g EXCEPT !.held = Len(l),
                          !.buf = [i \in 1 .. BlockLen |-> IF i <= Len(l) THEN l[i] ELSE @[i]]]
        BY <2>2 DEF Keep
      <3>2. [i \in 1 .. BlockLen |-> IF i <= Len(l) THEN l[i] ELSE g.buf[i]]
              \in [1 .. BlockLen -> Fed]
        <4>1. ASSUME NEW i \in 1 .. BlockLen
              PROVE  (IF i <= Len(l) THEN l[i] ELSE g.buf[i]) \in Fed
          BY <1>1, <1>3, <1>8, BlockLenPositive
        <4> QED
          BY <4>1
      <3>3. /\ k \in Hashers /\ k.blocks = g.blocks /\ k.held = Len(l) /\ k.total = g.total
            /\ k.buf = [i \in 1 .. BlockLen |-> IF i <= Len(l) THEN l[i] ELSE g.buf[i]]
        <4> HIDE DEF k
        <4> QED
          BY <1>3, <1>8, <3>1, <3>2 DEF Hashers
      <3> HIDE DEF k
      <3>4. \A i \in 1 .. Len(l) : k.buf[i] = l[i]
        BY <1>1, <1>3, <3>3, BlockLenPositive
      <3> QED
        BY <1>1, <1>3, <1>5, <1>8, <3>3, <3>4 DEF Held
    <2> QED
      BY <2>1, <2>2
  <1>10. Holds(k, m)
    <2> HIDE DEF k
    <2> QED
      BY <1>1, <1>3, <1>6, <1>9 DEF Holds
  <1> QED
    BY <1>10 DEF k, g, l

\* update() counts first.
LEMMA CountsMore ==
  ASSUME NEW h \in Hashers, NEW c \in Nat
  PROVE  LET g == [h EXCEPT !.total = @ + c]
         IN  /\ g \in Hashers /\ g.held = h.held /\ g.buf = h.buf
             /\ g.blocks = h.blocks /\ g.total = h.total + c
  <1>1. h.total + c \in Nat
    BY DEF Hashers
  <1> QED
    BY <1>1 DEF Hashers

\* A call of update() that fills no block.
LEMMA TopsUp ==
  ASSUME NEW h \in Hashers, NEW a, NEW r, Held(h, a, r), NEW d \in Seq(Fed),
         Len(r) + Len(d) < BlockLen, Len(r) # 0,
         NEW m, IsConcat(m, a, r), NEW n, IsConcat(n, m, d)
  PROVE  Holds(Update(h, d), n)
  <1> DEFINE h0 == [h EXCEPT !.total = @ + Len(d)]
             topped == TopUp(h0, d, Len(d))
             s == r \o d
             buf == [i \in 1 .. BlockLen |->
                       IF i \in Len(r) + 1 .. Len(r) + Len(d) THEN d[i - Len(r)] ELSE h.buf[i]]
  <1>1. /\ a \in Seq(Fed) /\ r \in Seq(Fed) /\ Whole(a) /\ h.held = Len(r)
        /\ Len(a) \in Nat /\ Len(r) \in Nat /\ Len(d) \in Nat /\ BlockLen \in Nat \ {0}
    BY BlockLenPositive, LenProperties DEF Held
  <1>2. IsConcat(s, r, d)
    BY DEF IsConcat
  <1> HIDE DEF s
  <1>3. /\ s \in Seq(Fed) /\ Len(s) = Len(r) + Len(d)
        /\ \A i \in 1 .. Len(r) : s[i] = r[i]
        /\ \A i \in 1 .. Len(d) : s[Len(r) + i] = d[i]
    BY <1>1, <1>2, Glue
  <1>4. h0 \in Hashers /\ h0.held = Len(r) /\ h0.buf = h.buf /\ h0.blocks = h.blocks
        /\ h0.total = h.total + Len(d)
    BY <1>1, CountsMore
  <1> HIDE DEF h0
  <1>5. topped = [h0 EXCEPT !.buf = buf, !.held = Len(r) + Len(d)]
    BY <1>1, <1>4 DEF TopUp
  <1>6. buf \in [1 .. BlockLen -> Fed]
    <2>1. ASSUME NEW i \in 1 .. BlockLen
          PROVE  (IF i \in Len(r) + 1 .. Len(r) + Len(d) THEN d[i - Len(r)] ELSE h.buf[i]) \in Fed
      <3>1. h.buf[i] \in Fed
        BY DEF Hashers
      <3>2. CASE i \in Len(r) + 1 .. Len(r) + Len(d)
        <4>1. i - Len(r) \in 1 .. Len(d)
          BY <1>1, <3>2
        <4>2. d[i - Len(r)] \in Fed
          BY <4>1, ElementOfSeq
        <4> QED
          BY <3>2, <4>2
      <3> QED
        BY <3>1, <3>2
    <2> QED
      BY <2>1
  <1>7. ASSUME NEW i \in 1 .. Len(s) PROVE buf[i] = s[i]
    <2>1. i \in 1 .. BlockLen
      BY <1>1, <1>3
    <2>2. CASE i \in 1 .. Len(r)
      <3>1. h.buf[i] = r[i]
        BY <2>2 DEF Held
      <3>2. s[i] = r[i]
        BY <1>3, <2>2
      <3>3. i \notin Len(r) + 1 .. Len(r) + Len(d)
        BY <1>1, <2>2
      <3>4. buf[i] = h.buf[i]
        BY <2>1, <3>3
      <3> QED
        BY <3>1, <3>2, <3>4
    <2>3. CASE i \notin 1 .. Len(r)
      <3>1. i - Len(r) \in 1 .. Len(d) /\ Len(r) + (i - Len(r)) = i
            /\ i \in Len(r) + 1 .. Len(r) + Len(d)
        BY <1>1, <1>3, <2>3
      <3>2. s[Len(r) + (i - Len(r))] = d[i - Len(r)]
        BY <1>3, <3>1
      <3> QED
        BY <2>1, <3>1, <3>2
    <2> QED
      BY <2>2, <2>3
  <1> HIDE DEF buf
  <1>8. /\ topped \in Hashers /\ topped.blocks = h.blocks /\ topped.buf = buf
        /\ topped.held = Len(r) + Len(d) /\ topped.total = h.total + Len(d)
    <2>1. Len(r) + Len(d) \in Nat
      BY <1>1
    <2> HIDE DEF topped
    <2> QED
      BY <1>4, <1>5, <1>6, <2>1 DEF Hashers
  <1>9. SubSeq(d, Len(d) + 1, Len(d)) = <<>>
    BY <1>1, SubSeqEmpty
  <1>10. Update(h, d) = topped
    <2>1. Update(h, d) = Keep([topped EXCEPT !.blocks = @ \o Blocks(<<>>)],
                              SubSeq(<<>>, WholeLen(<<>>) + 1, Len(<<>>)))
      <3>1. Len(d) < BlockLen - h.held /\ h.held # 0
        BY <1>1
      <3> QED
        BY <1>9, <3>1 DEF Update, WholeLen, h0, topped
    <2>2. Blocks(<<>>) = <<>> /\ SubSeq(<<>>, WholeLen(<<>>) + 1, Len(<<>>)) = <<>>
      <3>1. Len(<<>>) = 0 /\ 0 \div BlockLen = 0 /\ 0 % BlockLen = 0
        BY <1>1
      <3> QED
        BY <3>1, SubSeqEmpty DEF Blocks, WholeLen
    <2> HIDE DEF topped
    <2>3. topped.blocks \o <<>> = topped.blocks
      BY <1>8, ConcatEmptySeq DEF Hashers
    <2>4. [topped EXCEPT !.blocks = @ \o <<>>] = topped
      BY <1>8, <2>3 DEF Hashers
    <2> QED
      BY <2>1, <2>2, <2>4 DEF Keep
  <1> HIDE DEF topped
  <1>11. Held(topped, a, s)
    BY <1>1, <1>3, <1>7, <1>8 DEF Held
  <1>12. IsConcat(n, a, s)
    BY <1>1, <1>2, JoinsRight
  <1> QED
    BY <1>1, <1>3, <1>10, <1>11, <1>12 DEF Holds

\* A call of update() that fills the block begun.
LEMMA FillsUp ==
  ASSUME NEW h \in Hashers, NEW a, NEW r, Held(h, a, r), NEW d \in Seq(Fed),
         BlockLen <= Len(r) + Len(d), Len(r) # 0,
         NEW m, IsConcat(m, a, r), NEW n, IsConcat(n, m, d)
  PROVE  Holds(Update(h, d), n)
  <1> DEFINE room == BlockLen - Len(r)
             p == SubSeq(d, 1, room)
             rest == SubSeq(d, room + 1, Len(d))
             h0 == [h EXCEPT !.total = @ + Len(d)]
             topped == TopUp(h0, d, room)
             b == r \o p
             c == a \o b
             buf == [i \in 1 .. BlockLen |->
                       IF i \in Len(r) + 1 .. Len(r) + room THEN d[i - Len(r)] ELSE h.buf[i]]
  <1>1. /\ a \in Seq(Fed) /\ r \in Seq(Fed) /\ Whole(a) /\ h.held = Len(r)
        /\ Len(a) \in Nat /\ Len(r) \in Nat /\ Len(d) \in Nat /\ BlockLen \in Nat \ {0}
        /\ Len(r) < BlockLen /\ h.blocks = Blocks(a) /\ h.total = Len(a) + Len(r)
    BY BlockLenPositive, LenProperties DEF Held
  <1>2. room \in Nat /\ 0 < room /\ room <= Len(d) /\ Len(r) + room = BlockLen
    BY <1>1
  <1>3. TopUp(h0, d, room) = [h0 EXCEPT !.buf = buf, !.held = 0, !.blocks = Append(@, buf)]
    <2>1. h0.held = Len(r) /\ h0.buf = h.buf
      BY <1>1, CountsMore
    <2> HIDE DEF h0
    <2> QED
      BY <1>2, <2>1 DEF TopUp
  <1>4. Update(h, d) = Keep([topped EXCEPT !.blocks = @ \o Blocks(rest)],
                            SubSeq(rest, WholeLen(rest) + 1, Len(rest)))
    <2>1. h.held # 0 /\ ~(Len(d) < BlockLen - h.held) /\ BlockLen - h.held = room
      BY <1>1, <1>2
    <2> HIDE DEF room
    <2> QED
      BY <2>1 DEF Update, WholeLen
  <1> HIDE DEF room
  <1>5. /\ p \in Seq(Fed) /\ Len(p) = room
        /\ \A i \in 1 .. room : p[i] = d[i]
    <2>1. \A i \in 1 .. room : d[i] \in Fed
      BY <1>1, <1>2
    <2>2. /\ p \in Seq(Fed) /\ Len(p) = IF 1 <= room THEN (room - 1) + 1 ELSE 0
          /\ \A i \in 1 .. (room - 1) + 1 : p[i] = d[(1 + i) - 1]
      BY <1>2, <2>1, SubSeqProperties
    <2> HIDE DEF p
    <2> QED
      BY <1>2, <2>2
  <1>6. rest \in Seq(Fed) /\ Len(rest) = Len(d) - room
    <2>1. PICK f \in Nat : f = room + 1
      BY <1>2
    <2>2. \A i \in f .. Len(d) : d[i] \in Fed
      BY <1>1, <1>2, <2>1
    <2>3. /\ SubSeq(d, f, Len(d)) \in Seq(Fed)
          /\ Len(SubSeq(d, f, Len(d))) = IF f <= Len(d) THEN (Len(d) - f) + 1 ELSE 0
      BY <1>1, <2>2, SubSeqProperties
    <2>4. rest = SubSeq(d, f, Len(d))
      BY <2>1
    <2> HIDE DEF rest
    <2> QED
      BY <1>1, <1>2, <2>1, <2>3, <2>4
  <1>7. IsConcat(d, p, rest)
    <2>1. /\ 1 \in 1 .. Len(d) + 1 /\ room \in 1 - 1 .. Len(d)
          /\ Len(d) \in room .. Len(d)
      BY <1>1, <1>2
    <2>2. SubSeq(d, 1, room) \o SubSeq(d, room + 1, Len(d)) = SubSeq(d, 1, Len(d))
      BY <2>1, ConcatAdjacentSubSeq
    <2> QED
      BY <2>2, SubSeqFull DEF IsConcat
  <1> HIDE DEF p, rest
  <1>8. IsConcat(b, r, p)
    BY DEF IsConcat
  <1> HIDE DEF b
  <1>9. /\ b \in Seq(Fed) /\ Len(b) = BlockLen
        /\ \A i \in 1 .. Len(r) : b[i] = r[i]
        /\ \A i \in 1 .. room : b[Len(r) + i] = p[i]
    <2>1. r \in Seq(Fed) /\ p \in Seq(Fed)
      BY <1>1, <1>5
    <2>2. /\ b \in Seq(Fed) /\ Len(b) = Len(r) + Len(p)
          /\ \A i \in 1 .. Len(r) : b[i] = r[i]
          /\ \A i \in 1 .. Len(p) : b[Len(r) + i] = p[i]
      BY <1>8, <2>1, Glue
    <2> QED
      BY <1>2, <1>5, <2>2
  <1>10. buf = b
    <2>1. b = [i \in 1 .. BlockLen |-> b[i]]
      BY <1>9, LenProperties
    <2>2. ASSUME NEW i \in 1 .. BlockLen
          PROVE  (IF i \in Len(r) + 1 .. Len(r) + room THEN d[i - Len(r)] ELSE h.buf[i]) = b[i]
      <3>1. CASE i \in 1 .. Len(r)
        <4>1. i \notin Len(r) + 1 .. Len(r) + room
          BY <1>1, <3>1
        <4> QED
          BY <1>9, <3>1, <4>1 DEF Held
      <3>2. CASE i \notin 1 .. Len(r)
        <4>1. i - Len(r) \in 1 .. room /\ Len(r) + (i - Len(r)) = i
              /\ i \in Len(r) + 1 .. Len(r) + room
          BY <1>1, <1>2, <3>2
        <4>2. b[Len(r) + (i - Len(r))] = p[i - Len(r)]
          BY <1>9, <4>1
        <4> QED
          BY <1>5, <4>1, <4>2
      <3> QED
        BY <3>1, <3>2
    <2> QED
      BY <2>1, <2>2
  <1> HIDE DEF buf
  <1>11. IsConcat(c, a, b)
    BY DEF IsConcat
  <1> HIDE DEF c
  <1>12. c \in Seq(Fed) /\ Len(c) = Len(a) + BlockLen
    BY <1>1, <1>9, <1>11, Glue
  <1>13. Blocks(c) = Append(Blocks(a), b) /\ Whole(c)
    <2>1. Blocks(b) = <<b>> /\ Whole(b)
      BY <1>9, BlockAlone
    <2>2. IsConcat(Blocks(c), Blocks(a), Blocks(b))
      BY <1>1, <1>9, <1>11, BlocksJoin
    <2> DEFINE S == Seq(Fed)
    <2>3. Blocks(a) \in Seq(S) /\ b \in S
      BY <1>1, <1>9, BlocksTyped
    <2> HIDE DEF S
    <2>4. Append(Blocks(a), b) = Blocks(a) \o <<b>>
      BY <2>3, AppendIsConcat
    <2>5. Whole(c)
      BY <1>1, <1>9, <1>11, <2>1, WholesJoin
    <2> QED
      BY <2>1, <2>2, <2>4, <2>5 DEF IsConcat
  <1>14. /\ topped \in Hashers /\ topped.blocks = Blocks(c) /\ topped.held = 0
         /\ topped.total = Len(c) + Len(rest)
    <2>1. /\ h0 \in Hashers /\ h0.blocks = Blocks(a)
          /\ h0.total = (Len(a) + Len(r)) + Len(d)
      BY <1>1, CountsMore
    <2> HIDE DEF h0
    <2>2. topped = [h0 EXCEPT !.buf = b, !.held = 0, !.blocks = Append(@, b)]
      BY <1>3, <1>10
    <2>3. Blocks(c) \in Seq(Seq(Fed))
      BY <1>12, BlocksTyped
    <2>4. b \in [1 .. BlockLen -> Fed]
      BY <1>9, LenProperties
    <2>5. h0.total = Len(c) + Len(rest)
      <3>1. PICK x \in Nat, y \in Nat, z \in Nat : x = Len(a) /\ y = Len(r) /\ z = Len(d)
        BY <1>1
      <3>2. Len(c) = x + BlockLen /\ Len(rest) = z - room /\ h0.total = (x + y) + z
            /\ y + room = BlockLen
        BY <1>2, <1>6, <1>12, <2>1, <3>1
      <3>3. (x + BlockLen) + (z - room) = (x + y) + z
        BY <1>1, <1>2, <3>2
      <3> QED
        BY <3>2, <3>3
    <2> HIDE DEF topped
    <2> QED
      BY <1>13, <2>1, <2>2, <2>3, <2>4, <2>5 DEF Hashers
  <1> HIDE DEF topped
  <1>15. IsConcat(n, c, rest)
    <2> DEFINE x == m \o p
    <2>1. a \in Seq(Fed) /\ r \in Seq(Fed) /\ p \in Seq(Fed) /\ rest \in Seq(Fed)
      BY <1>1, <1>5, <1>6
    <2>2. m \in Seq(Fed)
      BY <2>1, Glue
    <2>3. IsConcat(x, m, p)
      BY DEF IsConcat
    <2> HIDE DEF x
    <2>4. IsConcat(n, x, rest)
      BY <1>7, <2>1, <2>2, <2>3, JoinsLeft
    <2>5. IsConcat(x, a, b)
      BY <1>8, <2>1, <2>3, JoinsRight
    <2>6. x = c
      BY <1>11, <2>5 DEF IsConcat
    <2> QED
      BY <2>4, <2>6
  <1> QED
    BY <1>4, <1>6, <1>12, <1>13, <1>14, <1>15, KeepsRest

\* A call of update() after a whole block.
LEMMA StartsAnew ==
  ASSUME NEW h \in Hashers, NEW a, NEW r, Held(h, a, r), NEW d \in Seq(Fed), Len(r) = 0,
         NEW m, IsConcat(m, a, r), NEW n, IsConcat(n, m, d)
  PROVE  Holds(Update(h, d), n)
  <1> DEFINE h0 == [h EXCEPT !.total = @ + Len(d)]
  <1>1. /\ a \in Seq(Fed) /\ r \in Seq(Fed) /\ Whole(a) /\ h.held = 0
        /\ Len(a) \in Nat /\ Len(d) \in Nat /\ BlockLen \in Nat \ {0}
        /\ h.blocks = Blocks(a) /\ h.total = Len(a)
    BY BlockLenPositive, LenProperties DEF Held
  <1>2. IsConcat(n, a, d)
    <2>1. r = <<>>
      BY <1>1, EmptySeq
    <2> QED
      BY <1>1, <2>1, ConcatEmptySeq DEF IsConcat
  <1>3. /\ h0 \in Hashers /\ h0.held = 0 /\ h0.buf = h.buf /\ h0.blocks = Blocks(a)
        /\ h0.total = Len(a) + Len(d)
    BY <1>1, CountsMore
  <1>4. Update(h, d) = Keep([TopUp(h0, d, 0) EXCEPT !.blocks = @ \o Blocks(SubSeq(d, 0 + 1, Len(d)))],
                            SubSeq(SubSeq(d, 0 + 1, Len(d)), WholeLen(SubSeq(d, 0 + 1, Len(d))) + 1,
                                   Len(SubSeq(d, 0 + 1, Len(d)))))
    BY <1>1 DEF Update, WholeLen
  <1> HIDE DEF h0
  <1>5. SubSeq(d, 0 + 1, Len(d)) = d
    BY SubSeqFull
  <1>6. TopUp(h0, d, 0) = h0
    <2>1. h0.buf \in [1 .. BlockLen -> Fed]
      BY <1>3 DEF Hashers
    <2>2. [i \in 1 .. BlockLen |-> IF i \in 0 + 1 .. 0 + 0 THEN d[i - 0] ELSE h0.buf[i]] = h0.buf
      <3>1. \A i \in 1 .. BlockLen : i \notin 0 + 1 .. 0 + 0
        BY <1>1
      <3> QED
        BY <2>1, <3>1
    <2>3. TopUp(h0, d, 0) = [h0 EXCEPT !.buf = h0.buf, !.held = 0 + 0]
      <3>1. h0.held = 0 /\ ~(0 + 0 = BlockLen)
        BY <1>1, <1>3
      <3> QED
        BY <2>2, <3>1 DEF TopUp
    <2>4. h0 = [h0 EXCEPT !.buf = h0.buf, !.held = 0]
      BY <1>3 DEF Hashers
    <2> QED
      BY <2>3, <2>4
  <1>7. Update(h, d) = Keep([h0 EXCEPT !.blocks = @ \o Blocks(d)],
                            SubSeq(d, WholeLen(d) + 1, Len(d)))
    BY <1>4, <1>5, <1>6
  <1> QED
    BY <1>1, <1>2, <1>3, <1>7, KeepsRest

\* "Chunk boundaries never affect the digest".
LEMMA Updated ==
  ASSUME NEW h, NEW m, Holds(h, m), NEW d \in Seq(Fed), NEW n, IsConcat(n, m, d)
  PROVE  Holds(Update(h, d), n)
  <1>1. PICK a \in Seq(Fed), r \in Seq(Fed) : IsConcat(m, a, r) /\ Held(h, a, r)
    BY DEF Holds
  <1>2. h \in Hashers /\ Len(r) \in Nat /\ Len(d) \in Nat /\ BlockLen \in Nat
    BY <1>1, BlockLenPositive, LenProperties DEF Held
  <1>3. CASE Len(r) = 0
    BY <1>1, <1>2, <1>3, StartsAnew
  <1>4. CASE Len(r) # 0 /\ Len(r) + Len(d) < BlockLen
    BY <1>1, <1>2, <1>4, TopsUp
  <1>5. CASE Len(r) # 0 /\ BlockLen <= Len(r) + Len(d)
    BY <1>1, <1>2, <1>5, FillsUp
  <1> QED
    BY <1>2, <1>3, <1>4, <1>5

\* What follows a number up to the next multiple is one number.
LEMMA OneRemainder ==
  ASSUME NEW b \in Nat \ {0}, NEW c \in Nat, NEW j \in 0 .. b - 1, NEW k \in 0 .. b - 1,
         (c + j) % b = 0, (c + k) % b = 0, j <= k
  PROVE  j = k
  <1>1. PICK m \in Nat, n \in Nat : m = c + j /\ n = c + k
    OBVIOUS
  <1>2. /\ m \div b \in Nat /\ n \div b \in Nat /\ m % b = 0 /\ n % b = 0
        /\ m = (m \div b) * b + (m % b)
        /\ n = (n \div b) * b + (n % b)
    BY <1>1, Divided
  <1>3. PICK p \in Nat, q \in Nat : p = m \div b /\ q = n \div b
    BY <1>2
  <1>4. m = p * b /\ n = q * b
    BY <1>2, <1>3
  <1>5. CASE p < q
    <2>1. p * b + b <= q * b
      BY <1>5
    <2>2. m + b <= n
      BY <1>4, <2>1
    <2> QED
      BY <1>1, <2>2
  <1>6. CASE q <= p
    <2>1. q * b <= p * b
      BY <1>6
    <2> QED
      BY <1>1, <1>4, <2>1
  <1> QED
    BY <1>3, <1>5, <1>6

\* finalize() pads to a whole number of blocks, with as few zeros as that takes.
LEMMA PadLenRight ==
  ASSUME NEW n \in Nat, NEW z, z = CHOOSE k \in 0 .. BlockLen - 1 : (n + 1 + k + SuffixLen) % BlockLen = 0
  PROVE  PadLen(n % BlockLen) \in Nat /\ z \in Nat /\ PadLen(n % BlockLen) = z + 1
  <1> DEFINE p == PadLen(n % BlockLen)
  <1>1. /\ BlockLen \in Nat \ {0} /\ SuffixLen \in Nat /\ 0 < SuffixLen /\ SuffixLen < BlockLen
        /\ n % BlockLen \in 0 .. BlockLen - 1
        /\ n \div BlockLen \in Nat
        /\ n = (n \div BlockLen) * BlockLen + (n % BlockLen)
    BY BlockLenPositive, Divided
  <1>2. PICK q \in Nat, h \in 0 .. BlockLen - 1 : q = n \div BlockLen /\ h = n % BlockLen
    BY <1>1
  <1>3. PICK c \in Nat : c = q * BlockLen
    BY <1>1
  <1>4. n = c + h
    BY <1>1, <1>2, <1>3
  <1>5. /\ p = IF h < BlockLen - SuffixLen THEN BlockLen - SuffixLen - h
               ELSE 2 * BlockLen - SuffixLen - h
    BY <1>2 DEF PadLen
  <1> HIDE DEF p
  <1>6. BlockLen \in Nat \ {0} /\ SuffixLen \in Nat /\ 0 < SuffixLen /\ SuffixLen < BlockLen
    BY <1>1
  <1>7. p \in 1 .. BlockLen /\ h + p + SuffixLen \in {BlockLen, 2 * BlockLen}
    BY <1>5, <1>6
  <1>8. PICK k \in 0 .. BlockLen - 1 : p = k + 1
    BY <1>6, <1>7
  <1>9. (n + 1 + k + SuffixLen) % BlockLen = 0
    <2>1. n + 1 + k + SuffixLen \in {c + BlockLen, c + 2 * BlockLen}
      BY <1>4, <1>6, <1>7, <1>8
    <2>2. (q + 1) * BlockLen = c + BlockLen /\ (q + 2) * BlockLen = c + 2 * BlockLen
      BY <1>3, <1>6
    <2>3. PICK d \in Nat : n + 1 + k + SuffixLen = d * BlockLen + 0
      <3>1. q + 1 \in Nat /\ q + 2 \in Nat
        OBVIOUS
      <3>2. (q + 1) * BlockLen = (q + 1) * BlockLen + 0 /\ (q + 2) * BlockLen = (q + 2) * BlockLen + 0
        BY <1>6
      <3> QED
        BY <2>1, <2>2, <3>1, <3>2
    <2>4. 0 \in 0 .. BlockLen - 1
      BY <1>6
    <2>5. PICK e \in Nat : e = n + 1 + k + SuffixLen
      BY <1>6
    <2> QED
      BY <1>6, <2>3, <2>4, <2>5, Quotient
  <1>10. z \in 0 .. BlockLen - 1 /\ (n + 1 + z + SuffixLen) % BlockLen = 0
    BY <1>9
  <1>11. z = k
    <2>1. PICK c2 \in Nat : c2 = n + 1 + SuffixLen
      BY <1>6
    <2>2. n + 1 + k + SuffixLen = c2 + k /\ n + 1 + z + SuffixLen = c2 + z
      BY <1>6, <1>10, <2>1
    <2>3. (c2 + k) % BlockLen = 0 /\ (c2 + z) % BlockLen = 0
      BY <1>9, <1>10, <2>2
    <2>4. CASE k <= z
      BY <1>6, <1>10, <2>3, <2>4, OneRemainder
    <2>5. CASE z <= k
      BY <1>6, <1>10, <2>3, <2>5, OneRemainder
    <2> QED
      BY <1>10, <2>4, <2>5
  <1>12. k \in Nat
    BY <1>6
  <1>13. k + 1 \in Nat
    BY <1>12
  <1>14. p \in Nat /\ z \in Nat /\ p = z + 1
    BY <1>8, <1>11, <1>12, <1>13, Zenon
  <1> QED
    BY <1>14 DEF p

\* The padding, in its three parts.
LEMMA PaddingParts ==
  ASSUME NEW n \in Nat, NEW z \in Nat
  PROVE  LET zeros == [i \in 1 .. z |-> Zero]
             length == [i \in 1 .. SuffixLen |-> Length(8 * n, i)]
             padding == [i \in 1 .. z + 1 + SuffixLen |->
                           IF i > z + 1 THEN Length(8 * n, i - (z + 1))
                           ELSE IF i = 1 THEN Mark ELSE Zero]
         IN  /\ zeros \in Seq(Fed) /\ length \in Seq(Fed) /\ padding \in Seq(Fed)
             /\ IsConcat(padding, <<Mark>> \o zeros, length)
  <1> DEFINE zeros == [i \in 1 .. z |-> Zero]
             length == [i \in 1 .. SuffixLen |-> Length(8 * n, i)]
             padding == [i \in 1 .. z + 1 + SuffixLen |->
                           IF i > z + 1 THEN Length(8 * n, i - (z + 1))
                           ELSE IF i = 1 THEN Mark ELSE Zero]
             front == <<Mark>> \o zeros
             whole == front \o length
  <1>1. /\ Mark \in Fed /\ Zero \in Fed
        /\ \A i \in Nat : Length(8 * n, i) \in Fed
    BY DEF Mark, Zero, Length, Fed
  <1>2. SuffixLen \in Nat
    BY BlockLenPositive
  <1>3. zeros \in Seq(Fed) /\ Len(zeros) = z /\ \A i \in 1 .. z : zeros[i] = Zero
    BY <1>1
  <1>4. /\ length \in Seq(Fed) /\ Len(length) = SuffixLen
        /\ \A i \in 1 .. SuffixLen : length[i] = Length(8 * n, i)
    BY <1>1, <1>2
  <1>5. PICK l \in Nat : l = z + 1 + SuffixLen
    BY <1>2
  <1>6. /\ padding \in Seq(Fed) /\ Len(padding) = l
        /\ \A i \in 1 .. l : padding[i] = IF i > z + 1 THEN Length(8 * n, i - (z + 1))
                                         ELSE IF i = 1 THEN Mark ELSE Zero
    <2>1. ASSUME NEW i \in 1 .. l
          PROVE  (IF i > z + 1 THEN Length(8 * n, i - (z + 1))
                  ELSE IF i = 1 THEN Mark ELSE Zero) \in Fed
      <3>1. CASE i > z + 1
        <4>1. i - (z + 1) \in Nat
          BY <3>1
        <4> QED
          BY <1>1, <3>1, <4>1
      <3> QED
        BY <1>1, <3>1
    <2>2. padding = [i \in 1 .. l |-> IF i > z + 1 THEN Length(8 * n, i - (z + 1))
                                     ELSE IF i = 1 THEN Mark ELSE Zero]
      BY <1>5
    <2> HIDE DEF padding
    <2> QED
      BY <2>1, <2>2
  <1> HIDE DEF zeros, length, padding
  <1>7. /\ front \in Seq(Fed) /\ Len(front) = z + 1
        /\ front[1] = Mark
        /\ \A i \in 1 .. z : front[1 + i] = Zero
    <2> DEFINE mark == <<Mark>>
    <2>1. /\ IsConcat(front, mark, zeros) /\ mark \in Seq(Fed) /\ Len(mark) = 1
          /\ mark[1] = Mark
      BY <1>1 DEF IsConcat
    <2> HIDE DEF front, mark
    <2>2. IsConcat(front, mark, zeros) /\ mark \in Seq(Fed) /\ zeros \in Seq(Fed)
      BY <1>3, <2>1
    <2>3. /\ front \in Seq(Fed) /\ Len(front) = Len(mark) + Len(zeros)
          /\ \A i \in 1 .. Len(mark) : front[i] = mark[i]
          /\ \A i \in 1 .. Len(zeros) : front[Len(mark) + i] = zeros[i]
      BY <2>2, Glue
    <2>4. Len(mark) = 1 /\ Len(zeros) = z
      BY <1>3, <2>1
    <2>5. Len(front) = z + 1
      BY <2>3, <2>4
    <2>6. front[1] = Mark
      BY <2>1, <2>3, <2>4
    <2>7. ASSUME NEW i \in 1 .. z PROVE front[1 + i] = Zero
      <3>1. front[1 + i] = zeros[i]
        BY <2>3, <2>4
      <3> QED
        BY <1>3, <3>1
    <2> QED
      BY <2>3, <2>5, <2>6, <2>7
  <1>8. /\ whole \in Seq(Fed) /\ Len(whole) = l
        /\ \A i \in 1 .. z + 1 : whole[i] = front[i]
        /\ \A i \in 1 .. SuffixLen : whole[(z + 1) + i] = length[i]
    <2>1. IsConcat(whole, front, length)
      BY DEF IsConcat
    <2> HIDE DEF whole, front
    <2>2. front \in Seq(Fed) /\ length \in Seq(Fed)
      BY <1>4, <1>7
    <2>3. /\ whole \in Seq(Fed) /\ Len(whole) = Len(front) + Len(length)
          /\ \A i \in 1 .. Len(front) : whole[i] = front[i]
          /\ \A i \in 1 .. Len(length) : whole[Len(front) + i] = length[i]
      BY <2>1, <2>2, Glue
    <2> QED
      BY <1>2, <1>4, <1>5, <1>7, <2>3
  <1> HIDE DEF front, whole
  <1>9. ASSUME NEW i \in 1 .. l PROVE padding[i] = whole[i]
    <2>1. CASE i = 1
      BY <1>5, <1>6, <1>7, <1>8, <2>1
    <2>2. CASE i \in 2 .. z + 1
      <3>1. i - 1 \in 1 .. z /\ 1 + (i - 1) = i /\ i \in 1 .. z + 1
        BY <2>2
      <3>2. front[1 + (i - 1)] = Zero /\ whole[i] = front[i]
        BY <1>7, <1>8, <3>1
      <3> QED
        BY <1>6, <2>2, <3>1, <3>2
    <2>3. CASE i > z + 1
      <3>1. i - (z + 1) \in 1 .. SuffixLen /\ (z + 1) + (i - (z + 1)) = i
        BY <1>2, <1>5, <2>3
      <3>2. whole[(z + 1) + (i - (z + 1))] = length[i - (z + 1)]
        BY <1>8, <3>1
      <3>3. length[i - (z + 1)] = Length(8 * n, i - (z + 1))
        BY <1>4, <3>1
      <3>4. padding[i] = Length(8 * n, i - (z + 1))
        BY <1>6, <2>3
      <3> QED
        BY <3>1, <3>2, <3>3, <3>4
    <2> QED
      BY <2>1, <2>2, <2>3
  <1>10. padding = whole
    BY <1>6, <1>8, <1>9, SeqEqual
  <1> QED
    BY <1>3, <1>4, <1>6, <1>10 DEF IsConcat, zeros, length, padding, front, whole

\* The digest is that of the padded message.
LEMMA Finalized ==
  ASSUME NEW h, NEW m \in Seq(Fed), Holds(h, m)
  PROVE  Finalize(h) = Blocks(Padded(m))
  <1> DEFINE z == CHOOSE k \in 0 .. BlockLen - 1 : (Len(m) + 1 + k + SuffixLen) % BlockLen = 0
             zeros == [i \in 1 .. z |-> Zero]
             length == [i \in 1 .. SuffixLen |-> Length(8 * Len(m), i)]
             padding == [i \in 1 .. z + 1 + SuffixLen |->
                           IF i > z + 1 THEN Length(8 * Len(m), i - (z + 1))
                           ELSE IF i = 1 THEN Mark ELSE Zero]
             n == m \o padding
  <1>1. PICK a \in Seq(Fed), r \in Seq(Fed) : IsConcat(m, a, r) /\ Held(h, a, r)
    BY DEF Holds
  <1>2. h.held = Len(m) % BlockLen /\ h.total = Len(m) /\ Len(m) \in Nat
    <2>1. PICK x \in Nat, y \in Nat : x = Len(a) /\ y = Len(r)
      BY LenProperties
    <2>2. /\ x % BlockLen = 0 /\ y < BlockLen /\ h.held = y /\ h.total = x + y
          /\ Len(m) = x + y
      BY <1>1, <2>1, Glue DEF Held, Whole
    <2>3. BlockLen \in Nat \ {0}
      BY BlockLenPositive
    <2>4. (x + y) % BlockLen = y % BlockLen
      BY <2>2, <2>3, Aligned
    <2>5. y % BlockLen = y
      BY <2>2, <2>3
    <2> QED
      BY <2>2, <2>4, <2>5
  <1>3. z \in Nat /\ PadLen(h.held) = z + 1
    <2>1. Len(m) \in Nat /\ z = CHOOSE k \in 0 .. BlockLen - 1 : (Len(m) + 1 + k + SuffixLen) % BlockLen = 0
      BY LenProperties
    <2> HIDE DEF z
    <2> QED
      BY <1>2, <2>1, PadLenRight
  <1>4. Padded(m) = m \o <<Mark>> \o zeros \o length
    BY DEF Padded
  <1> HIDE DEF z
  <1>5. Finalize(h) = Update(h, padding).blocks
    BY <1>2, <1>3 DEF Finalize
  <1>6. /\ zeros \in Seq(Fed) /\ length \in Seq(Fed) /\ padding \in Seq(Fed)
        /\ IsConcat(padding, <<Mark>> \o zeros, length)
    BY <1>2, <1>3, PaddingParts
  <1> HIDE DEF padding, zeros, length
  <1>7. IsConcat(n, m, padding)
    BY DEF IsConcat
  <1> HIDE DEF n
  <1>8. Holds(Update(h, padding), n)
    BY <1>6, <1>7, Updated
  <1>9. PICK b \in Seq(Fed), s \in Seq(Fed) : IsConcat(n, b, s) /\ Held(Update(h, padding), b, s)
    BY <1>8 DEF Holds
  <1>10. Finalize(h) = Blocks(n)
    <2>1. Blocks(n) = Blocks(b)
      BY <1>9, BlocksRest DEF Held
    <2> QED
      BY <1>5, <1>9, <2>1 DEF Held
  <1>11. Padded(m) = n
    <2> DEFINE mark == <<Mark>>
               marked == m \o mark
               tail == mark \o zeros
               begun == marked \o zeros
    <2>1. Mark \in Fed
      BY DEF Mark, Fed
    <2>2. mark \in Seq(Fed)
      BY <2>1
    <2>3. IsConcat(marked, m, mark) /\ IsConcat(tail, mark, zeros) /\ IsConcat(begun, marked, zeros)
          /\ Padded(m) = begun \o length /\ IsConcat(padding, tail, length)
      BY <1>4, <1>6 DEF IsConcat
    <2> HIDE DEF mark, marked, tail, begun
    <2>4. zeros \in Seq(Fed) /\ length \in Seq(Fed) /\ tail \in Seq(Fed)
      BY <1>6, <2>2, <2>3, Glue
    <2>5. IsConcat(begun, m, tail)
      BY <2>2, <2>3, <2>4, JoinsRight
    <2>6. IsConcat(n, begun, length)
      BY <1>7, <2>3, <2>4, <2>5, JoinsLeft
    <2> QED
      BY <2>3, <2>6 DEF IsConcat
  <1> QED
    BY <1>10, <1>11

-----------------------------------------------------------------------------
(***************************************************************************)
(* Base64: a text is divided into groups, and the groups are all of it.    *)
(***************************************************************************)

\* The groups of g have n elements each, the last at least one, and s is made of them.
Full(g, n) ==
  /\ Len(g) \in Nat
  /\ \A k \in 1 .. Len(g) : Len(g[k]) \in 1 .. n /\ (k < Len(g) => Len(g[k]) = n)

\* The place in s of the j-th of the k-th group.
Place(n, k, j) == n * (k - 1) + j

\* s is g, group after group.
Divides(g, s, n) ==
  /\ Full(g, n)
  /\ Len(s) = IF Len(g) = 0 THEN 0 ELSE Place(n, Len(g), Len(g[Len(g)]))
  /\ \A k \in 1 .. Len(g) : \A j \in 1 .. Len(g[k]) : s[Place(n, k, j)] = g[k][j]

\* The i-th of s is in one of the m groups, of which the last has l.
InGroup(i, n, m, l) ==
  \E k \in 1 .. m, j \in 1 .. n : i = Place(n, k, j) /\ (k < m \/ j <= l)

\* Every place is in a group.
LEMMA GroupOf ==
  ASSUME NEW n \in {3, 4}, NEW i \in Nat, NEW m \in Nat, NEW l \in 1 .. n,
         1 <= i, i <= Place(n, m, l)
  PROVE  InGroup(i, n, m, l)
  <1>1. CASE n = 3
    <2>1. PICK k \in Nat, j \in 1 .. 3 : k = (i - 1) \div 3 + 1 /\ j = ((i - 1) % 3) + 1
      OBVIOUS
    <2>2. i = 3 * (k - 1) + j /\ k \in 1 .. m /\ (k < m \/ j <= l)
      BY <1>1, <2>1 DEF Place
    <2> QED
      BY <1>1, <2>2 DEF Place, InGroup
  <1>2. CASE n = 4
    <2>1. PICK k \in Nat, j \in 1 .. 4 : k = (i - 1) \div 4 + 1 /\ j = ((i - 1) % 4) + 1
      OBVIOUS
    <2>2. i = 4 * (k - 1) + j /\ k \in 1 .. m /\ (k < m \/ j <= l)
      BY <1>2, <2>1 DEF Place
    <2> QED
      BY <1>2, <2>2 DEF Place, InGroup
  <1> QED
    BY <1>1, <1>2

\* So a sequence is known by its groups, and the groups by it.
LEMMA MadeOfOne ==
  ASSUME NEW T, NEW g, NEW s \in Seq(T), NEW t \in Seq(T), NEW n \in {3, 4},
         Divides(g, s, n), Divides(g, t, n)
  PROVE  Same(s, t)
  <1>1. Len(g) \in Nat /\ Len(s) = Len(t) /\ Len(s) \in Nat
    BY LenProperties DEF Divides, Full
  <1>2. CASE Len(g) = 0
    <2>1. Len(s) = 0 /\ Len(t) = 0
      BY <1>2 DEF Divides
    <2> QED
      BY <2>1, EmptySeq DEF Same
  <1>3. CASE Len(g) # 0
    <2>1. PICK m \in Nat : m = Len(g) /\ m \in 1 .. Len(g)
      BY <1>1, <1>3
    <2>2. PICK l \in 1 .. n : l = Len(g[m])
      BY <2>1 DEF Divides, Full
    <2>3. Len(s) = Place(n, m, l)
      BY <1>3, <2>1, <2>2 DEF Divides
    <2>4. ASSUME NEW i \in 1 .. Len(s) PROVE s[i] = t[i]
      <3>1. i \in Nat /\ 1 <= i /\ i <= Place(n, m, l)
        BY <1>1, <2>3
      <3>2. InGroup(i, n, m, l)
        BY <3>1, GroupOf
      <3>3. PICK k \in 1 .. m, j \in 1 .. n : i = Place(n, k, j) /\ (k < m \/ j <= l)
        BY <3>2 DEF InGroup
      <3>4. k \in 1 .. Len(g) /\ j \in 1 .. Len(g[k])
        <4>1. k < m => Len(g[k]) = n
          BY <2>1 DEF Divides, Full
        <4>2. k \in 1 .. Len(g) /\ (k < m \/ k = m)
          BY <2>1
        <4> QED
          BY <2>2, <3>3, <4>1, <4>2
      <3>5. s[Place(n, k, j)] = g[k][j] /\ t[Place(n, k, j)] = g[k][j]
        BY <3>4 DEF Divides
      <3> QED
        BY <3>3, <3>5
    <2> QED
      BY <1>1, <2>4, SeqEqual DEF Same
  <1> QED
    BY <1>2, <1>3

\* The k-th of m chunks begins after k - 1 whole ones and goes as far as the sequence.
ChunkAt(n, len, m, k) ==
  \E a \in Nat, l \in 1 .. n :
    /\ a = (k - 1) * n /\ a = n * (k - 1) /\ a + l <= len
    /\ l = (IF (a + 1) + n - 1 < len THEN (a + 1) + n - 1 ELSE len) - a
    /\ k < m => l = n
    /\ k = m => len = a + l

\* Chunk() stays in the sequence: every chunk but the last is whole, the last ends it.
LEMMA ChunkBounds ==
  ASSUME NEW n \in {3, 4}, NEW len \in Nat, NEW m, m = (len + n - 1) \div n,
         NEW k \in 1 .. m
  PROVE  ChunkAt(n, len, m, k)
  <1>1. CASE n = 3
    <2>1. PICK a \in Nat : /\ a = 3 * (k - 1) /\ a < len
                           /\ (k < m => a + 3 <= len) /\ (k = m => len <= a + 3)
      BY <1>1
    <2>2. PICK l \in 1 .. 3 : l = (IF a + 3 < len THEN a + 3 ELSE len) - a
      BY <2>1
    <2>3. (a + 1) + 3 - 1 = a + 3 /\ a = (k - 1) * 3
      BY <2>1
    <2>4. /\ a + l <= len /\ (k < m => l = 3) /\ (k = m => len = a + l)
      BY <2>1, <2>2
    <2> QED
      BY <1>1, <2>1, <2>2, <2>3, <2>4 DEF ChunkAt
  <1>2. CASE n = 4
    <2>1. PICK a \in Nat : /\ a = 4 * (k - 1) /\ a < len
                           /\ (k < m => a + 4 <= len) /\ (k = m => len <= a + 4)
      BY <1>2
    <2>2. PICK l \in 1 .. 4 : l = (IF a + 4 < len THEN a + 4 ELSE len) - a
      BY <2>1
    <2>3. (a + 1) + 4 - 1 = a + 4 /\ a = (k - 1) * 4
      BY <2>1
    <2>4. /\ a + l <= len /\ (k < m => l = 4) /\ (k = m => len = a + l)
      BY <2>1, <2>2
    <2> QED
      BY <1>2, <2>1, <2>2, <2>3, <2>4 DEF ChunkAt
  <1> QED
    BY <1>1, <1>2

\* Only the empty sequence has no chunk.
LEMMA NoChunks ==
  ASSUME NEW n \in {3, 4}, NEW len \in Nat
  PROVE  /\ (len + n - 1) \div n \in Nat
         /\ (len + n - 1) \div n = 0 <=> len = 0
  <1>1. CASE n = 3
    BY <1>1
  <1>2. CASE n = 4
    BY <1>2
  <1> QED
    BY <1>1, <1>2

\* The chunks of a sequence divide it.
LEMMA ChunksDivide ==
  ASSUME NEW T, NEW s \in Seq(T), NEW n \in {3, 4}
  PROVE  /\ Divides(Chunks(s, n), s, n)
         /\ \A k \in 1 .. Len(Chunks(s, n)) : Chunks(s, n)[k] \in Seq(T)
         /\ Chunks(s, n) \in Seq(Seq(T))
         /\ DOMAIN Chunks(s, n) = 1 .. Len(Chunks(s, n))
  <1> DEFINE m == (Len(s) + n - 1) \div n
             g == Chunks(s, n)
             Part(k) == Chunk(s, (k - 1) * n + 1, n)
  <1>1. Len(s) \in Nat
    BY LenProperties
  <1>2. m \in Nat /\ (m = 0 <=> Len(s) = 0)
    BY <1>1, NoChunks
  <1>3. g = [k \in 1 .. m |-> Part(k)]
    BY DEF Chunks
  <1>4. ASSUME NEW k \in 1 .. m
        PROVE  /\ Part(k) \in Seq(T) /\ Len(Part(k)) \in 1 .. n
               /\ k < m => Len(Part(k)) = n
               /\ k = m => Len(s) = Place(n, k, Len(Part(k)))
               /\ \A j \in 1 .. Len(Part(k)) : s[Place(n, k, j)] = Part(k)[j]
    <2>1. PICK a \in Nat, l \in 1 .. n :
            /\ a = (k - 1) * n /\ a = n * (k - 1) /\ a + l <= Len(s)
            /\ l = (IF (a + 1) + n - 1 < Len(s) THEN (a + 1) + n - 1 ELSE Len(s)) - a
            /\ k < m => l = n
            /\ k = m => Len(s) = a + l
      <3>1. m = (Len(s) + n - 1) \div n
        OBVIOUS
      <3> HIDE DEF m
      <3>2. ChunkAt(n, Len(s), m, k)
        BY <1>1, <3>1, ChunkBounds
      <3> QED
        BY <3>2 DEF ChunkAt
    <2> HIDE DEF m
    <2>2. PICK e \in Nat : e = a + l
      <3>1. l \in Nat
        OBVIOUS
      <3> QED
        BY <3>1
    <2>3. e = IF (a + 1) + n - 1 < Len(s) THEN (a + 1) + n - 1 ELSE Len(s)
      <3>1. PICK x \in Nat : x = IF (a + 1) + n - 1 < Len(s) THEN (a + 1) + n - 1 ELSE Len(s)
        BY <1>1
      <3>2. l = x - a
        BY <2>1, <3>1
      <3> QED
        BY <2>2, <3>1, <3>2
    <2>4. Part(k) = SubSeq(s, a + 1, e)
      <3>1. Part(k) = Chunk(s, a + 1, n)
        BY <2>1
      <3> QED
        BY <2>3, <3>1 DEF Chunk
    <2>5. /\ SubSeq(s, a + 1, e) \in Seq(T) /\ Len(SubSeq(s, a + 1, e)) = l
          /\ \A j \in 1 .. l : SubSeq(s, a + 1, e)[j] = s[a + j]
      <3>1. e <= Len(s)
        BY <2>1, <2>2
      <3> HIDE DEF Part
      <3>2. PICK f \in Nat : f = a + 1
        OBVIOUS
      <3>3. \A i \in f .. e : s[i] \in T
        BY <1>1, <3>1, <3>2
      <3>4. /\ SubSeq(s, f, e) \in Seq(T)
            /\ Len(SubSeq(s, f, e)) = IF f <= e THEN (e - f) + 1 ELSE 0
            /\ \A j \in 1 .. (e - f) + 1 : SubSeq(s, f, e)[j] = s[(f + j) - 1]
        BY <3>3, SubSeqProperties
      <3>5. f <= e /\ (e - f) + 1 = l
        BY <2>2, <3>2
      <3>6. ASSUME NEW j \in 1 .. l PROVE SubSeq(s, f, e)[j] = s[a + j]
        <4>1. (f + j) - 1 = a + j /\ j \in 1 .. (e - f) + 1
          BY <3>2, <3>5
        <4> QED
          BY <3>4, <4>1
      <3> QED
        BY <3>2, <3>4, <3>5, <3>6
    <2>6. \A j : Place(n, k, j) = a + j
      BY <2>1 DEF Place
    <2> HIDE DEF Part
    <2> QED
      BY <2>1, <2>4, <2>5, <2>6
  <1> HIDE DEF m, Part
  <1>5. Len(g) = m /\ (\A k \in 1 .. m : g[k] = Part(k) /\ g[k] \in Seq(T)) /\ DOMAIN g = 1 .. m
    <2> HIDE DEF g
    <2> QED
      BY <1>2, <1>3, <1>4
  <1>6. g \in Seq(Seq(T))
    BY <1>2, <1>3, <1>4
  <1> HIDE DEF g
  <1>7. Full(g, n)
    BY <1>2, <1>4, <1>5 DEF Full
  <1>8. Len(s) = IF Len(g) = 0 THEN 0 ELSE Place(n, Len(g), Len(g[Len(g)]))
    <2>1. CASE m = 0
      BY <1>2, <1>5, <2>1
    <2>2. CASE m # 0
      <3>1. m \in 1 .. m
        BY <1>2, <2>2
      <3> QED
        BY <1>4, <1>5, <2>2, <3>1
    <2> QED
      BY <2>1, <2>2
  <1>9. \A k \in 1 .. Len(g) : \A j \in 1 .. Len(g[k]) : s[Place(n, k, j)] = g[k][j]
    BY <1>4, <1>5
  <1> QED
    BY <1>5, <1>6, <1>7, <1>8, <1>9 DEF Divides, g

\* One sequence has the same groups as another only if it has as many.
LEMMA SamePlace ==
  ASSUME NEW n \in {3, 4}, NEW k \in Nat, NEW m \in Nat, NEW j \in 1 .. n, NEW l \in 1 .. n,
         Place(n, k, j) = Place(n, m, l)
  PROVE  k = m /\ j = l
  <1>1. CASE n = 3
    BY <1>1 DEF Place
  <1>2. CASE n = 4
    BY <1>2 DEF Place
  <1> QED
    BY <1>1, <1>2

\* A place is a positive number.
LEMMA PlacePositive ==
  ASSUME NEW n \in {3, 4}, NEW k \in Nat, k # 0, NEW j \in 1 .. n
  PROVE  Place(n, k, j) # 0 /\ Place(n, k, j) \in Nat
  <1>1. CASE n = 3
    BY <1>1 DEF Place
  <1>2. CASE n = 4
    BY <1>2 DEF Place
  <1> QED
    BY <1>1, <1>2

\* As many groups, of the same lengths.
SameLens(g, c) == Len(g) = Len(c) /\ \A k \in 1 .. Len(g) : Len(g[k]) = Len(c[k])

\* Groups of one sequence are as many, and as long.
LEMMA AsManyGroups ==
  ASSUME NEW g, NEW c, NEW s, NEW n \in {3, 4}, Divides(g, s, n), Divides(c, s, n)
  PROVE  SameLens(g, c)
  <1> DEFINE m == Len(g)
             p == Len(c)
  <1>1. /\ m \in Nat /\ p \in Nat
        /\ \A k \in 1 .. m : Len(g[k]) \in 1 .. n /\ (k < m => Len(g[k]) = n)
        /\ \A k \in 1 .. p : Len(c[k]) \in 1 .. n /\ (k < p => Len(c[k]) = n)
        /\ Len(s) = IF m = 0 THEN 0 ELSE Place(n, m, Len(g[m]))
        /\ Len(s) = IF p = 0 THEN 0 ELSE Place(n, p, Len(c[p]))
    BY DEF Divides, Full
  <1> HIDE DEF m, p
  <1>2. CASE m = 0
    <2>1. p = 0
      <3>1. SUFFICES ASSUME p # 0 PROVE FALSE
        OBVIOUS
      <3>2. Len(c[p]) \in 1 .. n
        BY <1>1, <3>1
      <3>3. Place(n, p, Len(c[p])) # 0
        BY <1>1, <3>1, <3>2, PlacePositive
      <3> QED
        BY <1>1, <1>2, <3>1, <3>3
    <2> QED
      BY <1>1, <1>2, <2>1 DEF m, p, SameLens
  <1>3. CASE m # 0
    <2>1. Len(g[m]) \in 1 .. n
      BY <1>1, <1>3
    <2>2. Place(n, m, Len(g[m])) # 0
      BY <1>1, <1>3, <2>1, PlacePositive
    <2>3. p # 0
      BY <1>1, <1>3, <2>2
    <2>4. Len(c[p]) \in 1 .. n
      BY <1>1, <2>3
    <2>5. Place(n, m, Len(g[m])) = Place(n, p, Len(c[p]))
      BY <1>1, <1>3, <2>3
    <2>6. m = p /\ Len(g[m]) = Len(c[p])
      <3>1. PICK i \in 1 .. n, j \in 1 .. n : i = Len(g[m]) /\ j = Len(c[p])
        BY <2>1, <2>4
      <3>2. m \in Nat /\ p \in Nat /\ Place(n, m, i) = Place(n, p, j)
        BY <1>1, <2>5, <3>1
      <3> QED
        BY <3>1, <3>2, SamePlace
    <2>7. ASSUME NEW k \in 1 .. m PROVE Len(g[k]) = Len(c[k])
      <3>1. k < m \/ k = m
        BY <1>1
      <3> QED
        BY <1>1, <2>6, <3>1
    <2> QED
      BY <2>6, <2>7 DEF m, p, SameLens
  <1> QED
    BY <1>2, <1>3

\* So they are the same.
LEMMA GroupsOfOne ==
  ASSUME NEW T, NEW g \in Seq(Seq(T)), NEW c \in Seq(Seq(T)), NEW s, NEW n \in {3, 4},
         Divides(g, s, n), Divides(c, s, n)
  PROVE  g = c
  <1> DEFINE S == Seq(T)
  <1>1. g \in Seq(S) /\ c \in Seq(S)
    OBVIOUS
  <1>2. Len(g) = Len(c) /\ \A k \in 1 .. Len(g) : Len(g[k]) = Len(c[k])
    <2>1. SameLens(g, c)
      BY AsManyGroups
    <2> QED
      BY <2>1 DEF SameLens
  <1>3. ASSUME NEW k \in 1 .. Len(g) PROVE g[k] = c[k]
    <2>1. g[k] \in S /\ c[k] \in S
      <3> HIDE DEF S
      <3> QED
        BY <1>1, <1>2, ElementOfSeq
    <2>2. ASSUME NEW j \in 1 .. Len(g[k]) PROVE g[k][j] = c[k][j]
      BY <1>2 DEF Divides
    <2> QED
      BY <1>2, <2>1, <2>2, SeqEqual
  <1> HIDE DEF S
  <1> QED
    BY <1>1, <1>2, <1>3, SeqEqual

\* What groups of n are joined to.
LEMMA JoinedLen ==
  ASSUME NEW T, NEW g \in Seq(Seq(T)), NEW n \in {3, 4}, Full(g, n),
         NEW k \in Nat, k < Len(g)
  PROVE  Len(Joined(g, k)) = n * k
  <1> SUFFICES ASSUME Len(Joined(g, k)) # n * k PROVE FALSE
    OBVIOUS
  <1> DEFINE Bad == {i \in Nat : i < Len(g) /\ Len(Joined(g, i)) # n * i}
  <1>1. PICK i \in Bad : \A j \in Bad : i <= j
    <2>1. Bad \in SUBSET Nat /\ Bad # {}
      OBVIOUS
    <2> HIDE DEF Bad
    <2> QED
      BY <2>1, LeastNumber
  <1>2. i # 0
    <2>1. Joined(g, 0) = <<>> /\ n * 0 = 0 /\ Len(<<>>) = 0
      BY JoinedNone
    <2> QED
      BY <2>1
  <1>3. PICK j \in Nat : j = i - 1 /\ i = j + 1 /\ j < Len(g) /\ i < Len(g) /\ ~(i <= j)
    <2>1. Len(g) \in Nat /\ i < Len(g) /\ i \in Nat
      BY LenProperties
    <2> HIDE DEF Bad
    <2> QED
      BY <1>2, <2>1
  <1>4. Len(Joined(g, j)) = n * j
    BY <1>1, <1>3
  <1>5. Len(Joined(g, j + 1)) = Len(Joined(g, j)) + Len(g[j + 1])
    BY <1>3, JoinedAt
  <1>6. Len(g[i]) = n
    <2>1. i \in 1 .. Len(g)
      BY <1>2, <1>3
    <2> QED
      BY <1>3, <2>1 DEF Full
  <1>7. n * i = n * j + n
    <2>1. CASE n = 3
      BY <1>3, <2>1
    <2>2. CASE n = 4
      BY <1>3, <2>2
    <2> QED
      BY <2>1, <2>2
  <1> QED
    BY <1>3, <1>4, <1>5, <1>6, <1>7

\* Groups divide what they are joined to.
LEMMA JoinedDivides ==
  ASSUME NEW T, NEW g \in Seq(Seq(T)), NEW n \in {3, 4}, Full(g, n)
  PROVE  Divides(g, FlattenSeq(g), n) /\ FlattenSeq(g) \in Seq(T)
  <1> DEFINE s == FlattenSeq(g)
  <1>1. Len(g) \in Nat
    BY DEF Full
  <1>2. s = Joined(g, Len(g))
    BY JoinedAll
  <1>3. s \in Seq(T)
    BY <1>1, <1>2, JoinedIsSeq
  <1>4. ASSUME NEW k \in 1 .. Len(g)
        PROVE  /\ \A j \in 1 .. Len(g[k]) : s[Place(n, k, j)] = g[k][j]
               /\ Len(Joined(g, k)) = Place(n, k, Len(g[k]))
    <2>1. PICK i \in Nat : i = k - 1 /\ k = i + 1 /\ i < Len(g)
      BY <1>1
    <2>2. Len(Joined(g, i)) = n * (k - 1)
      BY <2>1, JoinedLen
    <2>3. /\ Len(Joined(g, k)) = Len(Joined(g, i)) + Len(g[k])
          /\ \A j \in 1 .. Len(g[k]) : s[Len(Joined(g, i)) + j] = g[k][j]
      <3>1. /\ Len(Joined(g, i + 1)) = Len(Joined(g, i)) + Len(g[i + 1])
            /\ \A j \in 1 .. Len(g[i + 1]) : s[Len(Joined(g, i)) + j] = g[i + 1][j]
        BY <2>1, JoinedAt
      <3> QED
        BY <2>1, <3>1
    <2> QED
      BY <2>2, <2>3 DEF Place
  <1>5. Len(s) = IF Len(g) = 0 THEN 0 ELSE Place(n, Len(g), Len(g[Len(g)]))
    <2>1. CASE Len(g) = 0
      <3>1. s = <<>> /\ Len(<<>>) = 0
        BY <1>2, <2>1, JoinedNone
      <3> QED
        BY <2>1, <3>1
    <2>2. CASE Len(g) # 0
      <3>1. Len(g) \in 1 .. Len(g)
        BY <1>1, <2>2
      <3> QED
        BY <1>2, <1>4, <2>2, <3>1
    <2> QED
      BY <2>1, <2>2
  <1> QED
    BY <1>3, <1>4, <1>5 DEF Divides

\* So nothing is lost by dividing.
LEMMA ChunksJoinAgain ==
  ASSUME NEW T, NEW s \in Seq(T), NEW n \in {3, 4}
  PROVE  FlattenSeq(Chunks(s, n)) = s
  <1> DEFINE g == Chunks(s, n)
  <1>1. Divides(g, s, n) /\ g \in Seq(Seq(T))
    BY ChunksDivide
  <1> HIDE DEF g
  <1> DEFINE t == FlattenSeq(g)
  <1>2. Divides(g, t, n) /\ t \in Seq(T)
    BY <1>1, JoinedDivides DEF Divides
  <1> HIDE DEF t
  <1>3. t = s
    <2>1. Divides(g, t, n) /\ Divides(g, s, n) /\ t \in Seq(T)
      BY <1>1, <1>2
    <2>2. Same(t, s)
      BY <2>1, MadeOfOne
    <2> QED
      BY <2>2 DEF Same
  <1> QED
    BY <1>3 DEF g, t

-----------------------------------------------------------------------------
(***************************************************************************)
(* One group: four sextets are three octets, shifted and masked.           *)
(***************************************************************************)

\* Four sextets as a number.
Word(a, b, c, d) == a * 262144 + b * 4096 + c * 64 + d

\* Three octets as a number.
Triple(x, y, z) == x * 65536 + y * 256 + z

\* 2^24.
Words == 16777216

\* The sextets of the number of four.
HasSextets(n, a, b, c, d) ==
  /\ n \in Nat /\ n \div 262144 = a /\ (n \div 4096) % 64 = b
  /\ (n \div 64) % 64 = c /\ n % 64 = d

\* The shifts of b64_encode_with() find them.
LEMMA SextetsOf ==
  ASSUME NEW a \in 0 .. 63, NEW b \in 0 .. 63, NEW c \in 0 .. 63, NEW d \in 0 .. 63,
         NEW n, n = Word(a, b, c, d)
  PROVE  HasSextets(n, a, b, c, d)
  <1>1. n = a * 262144 + b * 4096 + c * 64 + d
    BY SMT DEF Word
  <1>2. n \in Nat
    BY <1>1, SMT
  <1>3. PICK p \in Nat : p = a * 4096 + b * 64 + c
    BY SMT
  <1>4. n = p * 64 + d
    BY <1>1, <1>3, SMT
  <1>5. n \div 64 = p /\ n % 64 = d
    BY <1>2, <1>4, SMT
  <1>6. PICK q \in Nat : q = a * 64 + b
    BY SMT
  <1>7. p = q * 64 + c
    BY <1>3, <1>6, SMT
  <1>8. p % 64 = c
    BY <1>7, SMT
  <1>9. n = q * 4096 + (c * 64 + d)
    BY <1>1, <1>6, SMT
  <1>10. n \div 4096 = q
    BY <1>2, <1>9, SMT
  <1>11. q % 64 = b
    BY <1>6, SMT
  <1>12. n \div 262144 = a
    BY <1>1, <1>2, SMT
  <1> QED
    BY <1>2, <1>5, <1>8, <1>10, <1>11, <1>12, SMT DEF HasSextets

\* The octets of the number of three.
HasOctets(n, x, y, z) ==
  /\ n \in Nat /\ n < Words
  /\ n \div 65536 = x /\ (n \div 256) % 256 = y /\ n % 256 = z

\* The shifts of b64_decode_any() find them.
LEMMA OctetsOf ==
  ASSUME NEW x \in 0 .. 255, NEW y \in 0 .. 255, NEW z \in 0 .. 255,
         NEW n, n = Triple(x, y, z)
  PROVE  HasOctets(n, x, y, z)
  <1>1. n = x * 65536 + y * 256 + z
    BY SMT DEF Triple
  <1>2. n \in Nat /\ n < Words
    BY <1>1, SMT DEF Words
  <1>3. PICK p \in Nat : p = x * 256 + y
    BY SMT
  <1>4. n = p * 256 + z
    BY <1>1, <1>3, SMT
  <1>5. n \div 256 = p /\ n % 256 = z /\ p % 256 = y
    BY <1>2, <1>3, <1>4, SMT
  <1>6. n \div 65536 = x
    BY <1>1, <1>2, SMT
  <1> QED
    BY <1>2, <1>5, <1>6, SMT DEF HasOctets

\* Every number of 24 bits is one of four sextets.
LEMMA AsSextets ==
  ASSUME NEW n \in Nat, n < Words
  PROVE  \E a \in 0 .. 63 : \E b \in 0 .. 63 : \E c \in 0 .. 63 : \E d \in 0 .. 63 :
           n = Word(a, b, c, d)
  <1>1. PICK p \in Nat, d \in 0 .. 63 : n = p * 64 + d
    <2>1. n \in Nat
      OBVIOUS
    <2>2. n \div 64 \in Nat /\ n % 64 \in 0 .. 63 /\ n = (n \div 64) * 64 + (n % 64)
      BY <2>1, SMT
    <2> QED
      BY <2>1, <2>2, SMT
  <1>2. PICK q \in Nat, c \in 0 .. 63 : p = q * 64 + c
    <2>1. p \div 64 \in Nat /\ p % 64 \in 0 .. 63 /\ p = (p \div 64) * 64 + (p % 64)
      BY SMT
    <2> QED
      BY <2>1, SMT
  <1>3. PICK a \in Nat, b \in 0 .. 63 : q = a * 64 + b
    <2>1. q \div 64 \in Nat /\ q % 64 \in 0 .. 63 /\ q = (q \div 64) * 64 + (q % 64)
      BY SMT
    <2> QED
      BY <2>1, SMT
  <1>4. n = Word(a, b, c, d)
    BY <1>1, <1>2, <1>3, SMT DEF Word
  <1>5. a \in 0 .. 63
    BY <1>4, SMT DEF Word, Words
  <1> QED
    BY <1>4, <1>5, Zenon

\* Octets that are zero leave sextets that are.
LeavesZeros(y, z, c, d) == (z = 0 => d = 0) /\ (y = 0 /\ z = 0 => c = 0)

\* The sextets beyond the octets of a chunk are zero, and are not written.
LEMMA ZerosStay ==
  ASSUME NEW x \in 0 .. 255, NEW y \in 0 .. 255, NEW z \in 0 .. 255,
         NEW a \in 0 .. 63, NEW b \in 0 .. 63, NEW c \in 0 .. 63, NEW d \in 0 .. 63,
         Triple(x, y, z) = Word(a, b, c, d)
  PROVE  LeavesZeros(y, z, c, d)
  <1>1. x * 65536 + y * 256 + z = a * 262144 + b * 4096 + c * 64 + d
    BY SMT DEF Triple, Word
  <1>2. ASSUME z = 0 PROVE d = 0
    <2>1. PICK q \in Int : q = x * 1024 + y * 4 - a * 4096 - b * 64 - c
      BY SMT
    <2>2. d = 64 * q
      BY <1>1, <1>2, <2>1, SMT
    <2> QED
      BY <2>2, SMT
  <1>3. ASSUME y = 0, z = 0 PROVE c = 0
    <2> DEFINE q == x * 16 - a * 64 - b
    <2>1. q \in Int
      OBVIOUS
    <2>2. c = 64 * q
      <3>1. x * 65536 = a * 262144 + b * 4096 + c * 64
        BY <1>1, <1>2, <1>3, SMT
      <3> QED
        BY <2>1, <3>1, SMT
    <2> HIDE DEF q
    <2> QED
      BY <2>1, <2>2, SMT
  <1> QED
    BY <1>2, <1>3 DEF LeavesZeros

\* Every sextet is shown as a character of the alphabet, and read back.
Sextets(a, b, c, d) == <<a, b, c, d>>

\* What b64_val() reads is what was written, and it is never taken for padding.
IsShown(d, url) ==
  /\ d \in 0 .. 63 /\ Shown(d, url) \in Alphabet /\ Shown(d, url) \in 0 .. 66
  /\ B64Val(Shown(d, url)) = d /\ Shown(d, url) # Pad

\* Whichever the alphabet.
LEMMA ShownIsRead ==
  ASSUME NEW a \in 0 .. 63, NEW b \in 0 .. 63, NEW c \in 0 .. 63, NEW d \in 0 .. 63,
         NEW i \in 1 .. 4, NEW url \in BOOLEAN
  PROVE  IsShown(Sextets(a, b, c, d)[i], url)
  <1>1. PICK n \in 0 .. 63 : n = Sextets(a, b, c, d)[i]
    BY DEF Sextets
  <1>2. /\ Shown(n, url) \in Alphabet /\ Shown(n, url) \in 0 .. 66
        /\ B64Val(Shown(n, url)) = n /\ Shown(n, url) # Pad
    BY DEF Shown, B64Val, Alphabet, Pad
  <1> QED
    BY <1>1, <1>2 DEF IsShown

\* The octets of a chunk, a missing one being zero.
Spelt(chunk, l, x, y, z) ==
  /\ chunk[1] = x
  /\ IF l >= 2 THEN chunk[2] = y ELSE y = 0
  /\ IF l = 3 THEN chunk[3] = z ELSE z = 0

\* Every chunk has such octets.
LEMMA ChunkSpelt ==
  ASSUME NEW chunk \in Seq(0 .. 255), NEW l \in 1 .. 3, l = Len(chunk)
  PROVE  \E x \in 0 .. 255 : \E y \in 0 .. 255 : \E z \in 0 .. 255 : Spelt(chunk, l, x, y, z)
  <1> DEFINE Byte == 0 .. 255
  <1>1. ASSUME NEW i \in 1 .. l PROVE chunk[i] \in Byte
    BY ElementOfSeq
  <1>2. 0 \in Byte
    OBVIOUS
  <1> HIDE DEF Byte
  <1>3. PICK x \in Byte : x = chunk[1]
    <2>1. chunk[1] \in Byte
      BY <1>1
    <2> QED
      BY <2>1
  <1>4. PICK y \in Byte : IF l >= 2 THEN chunk[2] = y ELSE y = 0
    <2>1. l >= 2 => chunk[2] \in Byte
      BY <1>1
    <2> QED
      BY <1>2, <2>1
  <1>5. PICK z \in Byte : IF l = 3 THEN chunk[3] = z ELSE z = 0
    <2>1. l = 3 => chunk[3] \in Byte
      BY <1>1
    <2> QED
      BY <1>2, <2>1
  <1>6. Spelt(chunk, l, x, y, z)
    BY <1>3, <1>4, <1>5 DEF Spelt
  <1> QED
    BY <1>6 DEF Byte

\* What a chunk of l octets, whose sextets these are, is encoded as.
IsEncoded(g, l, a, b, c, d, url, pad) ==
  g = [i \in 1 .. IF pad THEN 4 ELSE l + 1 |->
         IF i <= l + 1 THEN Shown(Sextets(a, b, c, d)[i], url) ELSE Pad]

\* The octets of a chunk and the sextets of the same number.
CodeFor(chunk, l, x, y, z, a, b, c, d) ==
  /\ chunk \in Seq(0 .. 255) /\ l \in 1 .. 3 /\ l = Len(chunk)
  /\ x \in 0 .. 255 /\ y \in 0 .. 255 /\ z \in 0 .. 255
  /\ a \in 0 .. 63 /\ b \in 0 .. 63 /\ c \in 0 .. 63 /\ d \in 0 .. 63
  /\ Spelt(chunk, l, x, y, z) /\ Triple(x, y, z) = Word(a, b, c, d)

\* b64_encode_with(), of one chunk.
LEMMA EncodeChunkIs ==
  ASSUME NEW chunk, NEW l, NEW x, NEW y, NEW z, NEW a, NEW b, NEW c, NEW d,
         CodeFor(chunk, l, x, y, z, a, b, c, d),
         NEW url \in BOOLEAN, NEW pad \in BOOLEAN
  PROVE  IsEncoded(EncodeChunk(chunk, url, pad), l, a, b, c, d, url, pad)
  <1>1. /\ chunk \in Seq(0 .. 255) /\ l \in 1 .. 3 /\ l = Len(chunk)
        /\ x \in 0 .. 255 /\ y \in 0 .. 255 /\ z \in 0 .. 255
        /\ a \in 0 .. 63 /\ b \in 0 .. 63 /\ c \in 0 .. 63 /\ d \in 0 .. 63
        /\ Spelt(chunk, l, x, y, z) /\ Triple(x, y, z) = Word(a, b, c, d)
    BY Zenon DEF CodeFor
  <1> DEFINE At(i) == IF i <= l THEN chunk[i] ELSE 0
  <1>2. At(1) = x /\ At(2) = y /\ At(3) = z
    BY <1>1 DEF Spelt
  <1> HIDE DEF At
  <1>3. PICK n : n = Word(a, b, c, d)
    OBVIOUS
  <1>4. n = At(1) * 65536 + At(2) * 256 + At(3)
    BY <1>1, <1>2, <1>3, SMT DEF Triple
  <1>5. EncodeChunk(chunk, url, pad)
          = LET m == At(1) * 65536 + At(2) * 256 + At(3)
            IN  [i \in 1 .. IF pad THEN 4 ELSE l + 1 |->
                   IF i <= l + 1
                   THEN Shown(<<m \div 262144, (m \div 4096) % 64, (m \div 64) % 64, m % 64>>[i], url)
                   ELSE Pad]
    BY <1>1, SMT DEF EncodeChunk, At
  <1>6. EncodeChunk(chunk, url, pad)
          = [i \in 1 .. IF pad THEN 4 ELSE l + 1 |->
               IF i <= l + 1
               THEN Shown(<<n \div 262144, (n \div 4096) % 64, (n \div 64) % 64, n % 64>>[i], url)
               ELSE Pad]
    BY <1>1, <1>4, <1>5, SMT
  <1> DEFINE t == <<n \div 262144, (n \div 4096) % 64, (n \div 64) % 64, n % 64>>
  <1>7. EncodeChunk(chunk, url, pad)
          = [i \in 1 .. IF pad THEN 4 ELSE l + 1 |-> IF i <= l + 1 THEN Shown(t[i], url) ELSE Pad]
    BY <1>1, <1>6, SMT
  <1>8. HasSextets(n, a, b, c, d)
    BY <1>1, <1>3, SextetsOf, Zenon
  <1>9. t = Sextets(a, b, c, d)
    BY <1>8, SMT DEF HasSextets, Sextets
  <1> HIDE DEF t
  <1> QED
    BY <1>7, <1>9, Zenon DEF IsEncoded

\* The values of l characters, a missing one being zero.
Reads(g, l, a, b, c, d) ==
  /\ B64Val(g[1]) = a
  /\ IF l >= 2 THEN B64Val(g[2]) = b ELSE b = 0
  /\ IF l >= 3 THEN B64Val(g[3]) = c ELSE c = 0
  /\ IF l = 4 THEN B64Val(g[4]) = d ELSE d = 0

\* What l characters that stand for these octets are decoded to.
ThreeOctets(x, y, z) == <<x, y, z>>

\* One octet less than characters.
IsDecoded(h, l, x, y, z) == h = [i \in 1 .. l - 1 |-> ThreeOctets(x, y, z)[i]]

\* The sextets of a group and the octets of the same number.
Stands(g, l, x, y, z, a, b, c, d) ==
  /\ l \in 1 .. 4 /\ l = Len(g)
  /\ x \in 0 .. 255 /\ y \in 0 .. 255 /\ z \in 0 .. 255
  /\ a \in 0 .. 63 /\ b \in 0 .. 63 /\ c \in 0 .. 63 /\ d \in 0 .. 63
  /\ Reads(g, l, a, b, c, d) /\ Triple(x, y, z) = Word(a, b, c, d)

\* b64_decode_any(), of one group.
LEMMA DecodeGroupIs ==
  ASSUME NEW g, NEW l, NEW x, NEW y, NEW z, NEW a, NEW b, NEW c, NEW d,
         Stands(g, l, x, y, z, a, b, c, d)
  PROVE  IsDecoded(DecodeGroup(g), l, x, y, z)
  <1>1. /\ l \in 1 .. 4 /\ l = Len(g)
        /\ x \in 0 .. 255 /\ y \in 0 .. 255 /\ z \in 0 .. 255
        /\ a \in 0 .. 63 /\ b \in 0 .. 63 /\ c \in 0 .. 63 /\ d \in 0 .. 63
        /\ Reads(g, l, a, b, c, d) /\ Triple(x, y, z) = Word(a, b, c, d)
    BY Zenon DEF Stands
  <1> DEFINE At(i) == IF i <= l THEN B64Val(g[i]) ELSE 0
  <1>2. At(1) = a /\ At(2) = b /\ At(3) = c /\ At(4) = d
    BY <1>1 DEF Reads
  <1> HIDE DEF At
  <1>3. PICK n : n = Triple(x, y, z)
    OBVIOUS
  <1>4. n = At(1) * 262144 + At(2) * 4096 + At(3) * 64 + At(4)
    <2>1. n = a * 262144 + b * 4096 + c * 64 + d
      BY <1>1, <1>3 DEF Word
    <2> QED
      BY <1>2, <2>1
  <1>5. DecodeGroup(g)
          = LET m == At(1) * 262144 + At(2) * 4096 + At(3) * 64 + At(4)
            IN  [i \in 1 .. l - 1 |-> <<m \div 65536, (m \div 256) % 256, m % 256>>[i]]
    BY <1>1, SMT DEF DecodeGroup, At
  <1>6. DecodeGroup(g)
          = [i \in 1 .. l - 1 |-> <<n \div 65536, (n \div 256) % 256, n % 256>>[i]]
    BY <1>1, <1>4, <1>5, SMT
  <1> DEFINE t == <<n \div 65536, (n \div 256) % 256, n % 256>>
  <1>7. DecodeGroup(g) = [i \in 1 .. l - 1 |-> t[i]]
    BY <1>1, <1>6, SMT
  <1>8. HasOctets(n, x, y, z)
    BY <1>1, <1>3, OctetsOf, Zenon
  <1>9. t = ThreeOctets(x, y, z)
    BY <1>8, SMT DEF HasOctets, ThreeOctets
  <1> HIDE DEF t
  <1> QED
    BY <1>7, <1>9, Zenon DEF IsDecoded

\* A chunk is short.
Short(l) ==
  /\ l + 1 \in 1 .. 4 /\ (l < 3 => l # 3) /\ (l < 2 => ~(l >= 2) /\ l # 3)

\* By what can be the length of a chunk.
LEMMA ChunksAreShort ==
  ASSUME NEW l \in 1 .. 3
  PROVE  Short(l)
  BY DEF Short

\* Every chunk of l octets has sextets, the missing ones being zero.
CodeOf(chunk, l, x, y, z, a, b, c, d) ==
  /\ CodeFor(chunk, l, x, y, z, a, b, c, d)
  /\ (l < 3 => d = 0) /\ (l < 2 => c = 0)

\* By the octets, the sextets of the same number.
LEMMA ChunkSextets ==
  ASSUME NEW chunk \in Seq(0 .. 255), NEW l \in 1 .. 3, l = Len(chunk)
  PROVE  \E x, y, z, a, b, c, d : CodeOf(chunk, l, x, y, z, a, b, c, d)
  <1>1. PICK x \in 0 .. 255 : \E y \in 0 .. 255 : \E z \in 0 .. 255 : Spelt(chunk, l, x, y, z)
    BY ChunkSpelt
  <1>2. PICK y \in 0 .. 255 : \E z \in 0 .. 255 : Spelt(chunk, l, x, y, z)
    BY <1>1
  <1>3. PICK z \in 0 .. 255 : Spelt(chunk, l, x, y, z)
    BY <1>2
  <1>4. PICK n : n = Triple(x, y, z)
    OBVIOUS
  <1>5. HasOctets(n, x, y, z)
    BY <1>4, OctetsOf, Zenon
  <1>6. n \in Nat /\ n < Words
    BY <1>5, SMT DEF HasOctets
  <1>7. PICK a \in 0 .. 63 :
          \E b \in 0 .. 63 : \E c \in 0 .. 63 : \E d \in 0 .. 63 : n = Word(a, b, c, d)
    BY <1>6, AsSextets, Zenon
  <1>8. PICK b \in 0 .. 63 : \E c \in 0 .. 63 : \E d \in 0 .. 63 : n = Word(a, b, c, d)
    BY <1>7, Zenon
  <1>9. PICK c \in 0 .. 63 : \E d \in 0 .. 63 : n = Word(a, b, c, d)
    BY <1>8, Zenon
  <1>10. PICK d \in 0 .. 63 : n = Word(a, b, c, d)
    BY <1>9, Zenon
  <1>11. Triple(x, y, z) = Word(a, b, c, d)
    BY <1>4, <1>10, Zenon
  <1>12. LeavesZeros(y, z, c, d)
    BY <1>11, ZerosStay
  <1>13. l < 3 => d = 0
    <2>1. l < 3 => z = 0
      BY <1>3, ChunksAreShort, Zenon DEF Spelt, Short
    <2> QED
      BY <1>12, <2>1, Zenon DEF LeavesZeros
  <1>14. l < 2 => c = 0
    <2>1. l < 2 => y = 0 /\ z = 0
      BY <1>3, ChunksAreShort, Zenon DEF Spelt, Short
    <2> QED
      BY <1>12, <2>1, Zenon DEF LeavesZeros
  <1>15. CodeOf(chunk, l, x, y, z, a, b, c, d)
    BY <1>3, <1>11, <1>13, <1>14, Zenon DEF CodeOf, CodeFor
  <1> QED
    BY <1>15, Zenon

\* What a chunk is encoded as: characters of the alphabet, one more than octets, and padding.
Coded(e, f, l, pad) ==
  /\ e \in Seq(0 .. 66) /\ f \in Seq(0 .. 66)
  /\ Len(f) = l + 1 /\ Len(e) = (IF pad THEN 4 ELSE l + 1)
  /\ \A i \in 1 .. l + 1 : f[i] \in Alphabet /\ e[i] = f[i]
  /\ \A i \in l + 2 .. Len(e) : e[i] = Pad

\* With padding or without, a chunk begins with the same characters.
LEMMA EncodedTyped ==
  ASSUME NEW chunk \in Seq(0 .. 255), NEW l \in 1 .. 3, l = Len(chunk),
         NEW url \in BOOLEAN, NEW pad \in BOOLEAN
  PROVE  Coded(EncodeChunk(chunk, url, pad), EncodeChunk(chunk, url, FALSE), l, pad)
  <1> DEFINE e == EncodeChunk(chunk, url, pad)
             f == EncodeChunk(chunk, url, FALSE)
             m == l + 1
  <1>1. m \in 1 .. 4
    BY ChunksAreShort, Zenon DEF Short
  <1>2. PICK x, y, z, a, b, c, d : CodeFor(chunk, l, x, y, z, a, b, c, d)
    BY ChunkSextets, Zenon DEF CodeOf
  <1>3. IsEncoded(e, l, a, b, c, d, url, pad) /\ IsEncoded(f, l, a, b, c, d, url, FALSE)
    BY <1>2, EncodeChunkIs, Zenon
  <1> HIDE DEF e, f
  <1> DEFINE C(i) == Shown(Sextets(a, b, c, d)[i], url)
  <1>4. ASSUME NEW i \in 1 .. 4 PROVE C(i) \in Alphabet /\ C(i) \in 0 .. 66
    <2>1. IsShown(Sextets(a, b, c, d)[i], url)
      BY <1>2, ShownIsRead, Zenon DEF CodeFor
    <2> QED
      BY <2>1, Zenon DEF IsShown
  <1>5. e = [i \in 1 .. IF pad THEN 4 ELSE m |-> IF i <= m THEN C(i) ELSE Pad]
    BY <1>3, Zenon DEF IsEncoded
  <1>6. f = [i \in 1 .. m |-> IF i <= m THEN C(i) ELSE Pad]
    BY <1>3 DEF IsEncoded
  <1> HIDE DEF C, m
  <1>7. f \in Seq(0 .. 66) /\ Len(f) = m /\ \A i \in 1 .. m : f[i] = C(i)
    <2>1. ASSUME NEW i \in 1 .. m PROVE C(i) \in 0 .. 66
      <3>1. i \in 1 .. 4
        BY <1>1
      <3> QED
        BY <1>4, <3>1
    <2>2. f = [i \in 1 .. m |-> C(i)]
      BY <1>1, <1>6
    <2> QED
      BY <1>1, <2>1, <2>2
  <1> DEFINE k == IF pad THEN 4 ELSE m
  <1>8. k \in 1 .. 4 /\ m <= k
    BY <1>1
  <1>9. e = [i \in 1 .. k |-> IF i <= m THEN C(i) ELSE Pad]
    BY <1>5
  <1> HIDE DEF k
  <1>10. e \in Seq(0 .. 66) /\ Len(e) = k
    <2>1. ASSUME NEW i \in 1 .. k PROVE (IF i <= m THEN C(i) ELSE Pad) \in 0 .. 66
      <3>1. i \in 1 .. 4
        BY <1>8
      <3>2. C(i) \in 0 .. 66
        BY <1>4, <3>1
      <3> QED
        BY <3>2 DEF Pad
    <2> QED
      BY <1>8, <1>9, <2>1
  <1>11. \A i \in 1 .. m : e[i] = C(i)
    BY <1>1, <1>8, <1>9
  <1>12. \A i \in m + 1 .. k : e[i] = Pad
    BY <1>1, <1>8, <1>9
  <1>13. \A i \in 1 .. m : f[i] \in Alphabet /\ e[i] = f[i]
    BY <1>1, <1>4, <1>7, <1>11
  <1> QED
    <2>1. m + 1 = l + 2
      BY DEF m
    <2> QED
      BY <1>7, <1>10, <1>12, <1>13, <2>1, Zenon DEF Coded, m, k, e, f

\* A chunk comes back.
LEMMA ChunkComesBack ==
  ASSUME NEW chunk \in Seq(0 .. 255), NEW l \in 1 .. 3, l = Len(chunk),
         NEW url \in BOOLEAN
  PROVE  Same(DecodeGroup(EncodeChunk(chunk, url, FALSE)), chunk)
  <1> DEFINE f == EncodeChunk(chunk, url, FALSE)
             h == DecodeGroup(f)
             m == l + 1
  <1>1. m \in 1 .. 4
    BY ChunksAreShort, Zenon DEF Short
  <1>2. PICK x, y, z, a, b, c, d : CodeOf(chunk, l, x, y, z, a, b, c, d)
    BY ChunkSextets, Zenon
  <1>3. /\ CodeFor(chunk, l, x, y, z, a, b, c, d)
        /\ (l < 3 => d = 0) /\ (l < 2 => c = 0)
    BY <1>2, Zenon DEF CodeOf
  <1>4. IsEncoded(f, l, a, b, c, d, url, FALSE)
    BY <1>3, EncodeChunkIs, Zenon
  <1>5. /\ Spelt(chunk, l, x, y, z) /\ Triple(x, y, z) = Word(a, b, c, d)
        /\ x \in 0 .. 255 /\ y \in 0 .. 255 /\ z \in 0 .. 255
        /\ a \in 0 .. 63 /\ b \in 0 .. 63 /\ c \in 0 .. 63 /\ d \in 0 .. 63
    BY <1>3, Zenon DEF CodeFor
  <1> HIDE DEF f
  <1>6. f = [i \in 1 .. m |-> IF i <= m THEN Shown(Sextets(a, b, c, d)[i], url) ELSE Pad]
    BY <1>4 DEF IsEncoded
  <1> HIDE DEF m
  <1>7. m = Len(f) /\ \A i \in 1 .. m : f[i] = Shown(Sextets(a, b, c, d)[i], url)
    BY <1>1, <1>6
  <1>8. ASSUME NEW i \in 1 .. 4, i <= m PROVE B64Val(f[i]) = Sextets(a, b, c, d)[i]
    <2>1. i \in 1 .. m
      BY <1>1, <1>8
    <2>2. IsShown(Sextets(a, b, c, d)[i], url)
      BY <1>5, ShownIsRead, Zenon
    <2> QED
      BY <1>7, <2>1, <2>2, Zenon DEF IsShown
  <1>9. Reads(f, m, a, b, c, d)
    <2>1. B64Val(f[1]) = a
      BY <1>1, <1>8 DEF Sextets
    <2>2. B64Val(f[2]) = b /\ m >= 2
      BY <1>1, <1>8 DEF Sextets, m
    <2>3. IF m >= 3 THEN B64Val(f[3]) = c ELSE c = 0
      BY <1>1, <1>3, <1>8 DEF Sextets, m
    <2>4. IF m = 4 THEN B64Val(f[4]) = d ELSE d = 0
      BY <1>1, <1>3, <1>8 DEF Sextets, m
    <2> QED
      BY <2>1, <2>2, <2>3, <2>4 DEF Reads
  <1>10. IsDecoded(DecodeGroup(f), m, x, y, z)
    <2>1. Stands(f, m, x, y, z, a, b, c, d)
      BY <1>1, <1>5, <1>7, <1>9, Zenon DEF Stands
    <2> QED
      BY <2>1, DecodeGroupIs, Zenon
  <1>11. DecodeGroup(f) = [i \in 1 .. l |-> ThreeOctets(x, y, z)[i]]
    BY <1>10 DEF IsDecoded, m
  <1>12. chunk = [i \in 1 .. l |-> ThreeOctets(x, y, z)[i]]
    <2>1. chunk = [i \in 1 .. l |-> chunk[i]]
      OBVIOUS
    <2>2. chunk[1] = ThreeOctets(x, y, z)[1]
      BY <1>5 DEF Spelt, ThreeOctets
    <2>3. l >= 2 => chunk[2] = ThreeOctets(x, y, z)[2]
      BY <1>5 DEF Spelt, ThreeOctets
    <2>4. l = 3 => chunk[3] = ThreeOctets(x, y, z)[3]
      BY <1>5 DEF Spelt, ThreeOctets
    <2>5. \A i \in 1 .. l : chunk[i] = ThreeOctets(x, y, z)[i]
      BY <2>2, <2>3, <2>4
    <2> QED
      BY <2>1, <2>5
  <1> QED
    BY <1>11, <1>12 DEF Same, f

-----------------------------------------------------------------------------
(***************************************************************************)
(* What is encoded comes back.                                             *)
(***************************************************************************)

\* How much of a text is left when the padding at its end is trimmed.
EndsAt(t, n) ==
  /\ n \in 0 .. Len(t)
  /\ n > 0 => t[n] # Pad
  /\ \A i \in n + 1 .. Len(t) : t[i] = Pad

\* In one place.
LEMMA EndsOnce ==
  ASSUME NEW t, Len(t) \in Nat, NEW m, NEW n, EndsAt(t, m), EndsAt(t, n)
  PROVE  m = n
  BY DEF EndsAt

\* Which is where trim_end_matches() cuts it.
LEMMA TrimmedEnds ==
  ASSUME NEW t, NEW n, Len(t) \in Nat, EndsAt(t, n)
  PROVE  Same(Trimmed(t), SubSeq(t, 1, n))
  <1> DEFINE m == CHOOSE k \in 0 .. Len(t) : /\ k > 0 => t[k] # Pad
                                            /\ \A i \in k + 1 .. Len(t) : t[i] = Pad
  <1>1. \E k \in 0 .. Len(t) : /\ k > 0 => t[k] # Pad
                               /\ \A i \in k + 1 .. Len(t) : t[i] = Pad
    BY DEF EndsAt
  <1>2. EndsAt(t, m)
    BY <1>1, Zenon DEF EndsAt
  <1>3. Trimmed(t) = SubSeq(t, 1, m)
    BY Zenon DEF Trimmed
  <1> HIDE DEF m
  <1>4. m = n
    BY <1>2, EndsOnce
  <1> QED
    BY <1>3, <1>4 DEF Same

\* A text ends somewhere.
LEMMA TextEnds ==
  ASSUME NEW T, NEW t \in Seq(T)
  PROVE  \E n : EndsAt(t, n)
  <1> DEFINE S == {n \in Nat : n <= Len(t) /\ \A i \in n + 1 .. Len(t) : t[i] = Pad}
  <1>1. Len(t) \in Nat
    BY LenProperties
  <1>2. PICK n \in S : \A m \in S : n <= m
    <2>1. Len(t) \in S
      BY <1>1
    <2> HIDE DEF S
    <2>2. S \in SUBSET Nat
      BY DEF S
    <2> QED
      BY <2>1, <2>2, LeastNumber
  <1>3. n > 0 => t[n] # Pad
    <2> SUFFICES ASSUME n > 0, t[n] = Pad PROVE FALSE
      OBVIOUS
    <2>1. n - 1 \in Nat /\ n - 1 <= Len(t)
      BY <1>1
    <2>2. \A i \in (n - 1) + 1 .. Len(t) : t[i] = Pad
      BY <1>1
    <2>3. n - 1 \in S
      BY <2>1, <2>2
    <2>4. n <= n - 1
      <3> HIDE DEF S
      <3> QED
        BY <1>2, <2>3
    <2> QED
      BY <2>1, <2>4
  <1> QED
    BY <1>1, <1>3 DEF EndsAt

\* So what it returns is of the same characters.
LEMMA TrimmedTyped ==
  ASSUME NEW T, NEW t \in Seq(T)
  PROVE  Trimmed(t) \in Seq(T)
  <1>1. PICK n : EndsAt(t, n)
    BY TextEnds
  <1>2. Len(t) \in Nat
    BY LenProperties
  <1>3. Same(Trimmed(t), SubSeq(t, 1, n))
    BY <1>1, <1>2, TrimmedEnds
  <1>4. SubSeq(t, 1, n) \in Seq(T)
    <2>1. n \in Nat /\ n <= Len(t)
      BY <1>1, <1>2 DEF EndsAt
    <2>2. \A i \in 1 .. n : t[i] \in T
      BY <1>2, <2>1
    <2> QED
      BY <2>1, <2>2, SubSeqProperties
  <1> QED
    BY <1>3, <1>4 DEF Same

\* What ends in nothing but padding loses it.
LEMMA TrimmedIs ==
  ASSUME NEW T, NEW t \in Seq(T), NEW b \in Seq(T), Len(b) <= Len(t),
         \A i \in 1 .. Len(b) : b[i] = t[i] /\ b[i] # Pad,
         \A i \in Len(b) + 1 .. Len(t) : t[i] = Pad
  PROVE  Same(Trimmed(t), b)
  <1> DEFINE n == Len(b)
  <1>1. Len(t) \in Nat /\ n \in Nat /\ n <= Len(t)
    BY LenProperties
  <1>2. EndsAt(t, n)
    BY <1>1 DEF EndsAt
  <1>3. Same(Trimmed(t), SubSeq(t, 1, n))
    BY <1>1, <1>2, TrimmedEnds
  <1>4. SubSeq(t, 1, n) = b
    <2>1. \A i \in 1 .. n : t[i] \in T
      BY <1>1
    <2>2. /\ SubSeq(t, 1, n) \in Seq(T)
          /\ Len(SubSeq(t, 1, n)) = IF 1 <= n THEN (n - 1) + 1 ELSE 0
          /\ \A i \in 1 .. (n - 1) + 1 : SubSeq(t, 1, n)[i] = t[(1 + i) - 1]
      <3> HIDE DEF n
      <3> QED
        BY <1>1, <2>1, SubSeqProperties
    <2>3. Len(SubSeq(t, 1, n)) = n
      BY <1>1, <2>2
    <2>4. ASSUME NEW i \in 1 .. n PROVE SubSeq(t, 1, n)[i] = b[i]
      <3>1. i \in 1 .. (n - 1) + 1 /\ (1 + i) - 1 = i
        BY <1>1
      <3> QED
        BY <2>2, <3>1
    <2> DEFINE u == SubSeq(t, 1, n)
    <2>5. u \in Seq(T) /\ Len(u) = Len(b) /\ \A i \in 1 .. Len(u) : u[i] = b[i]
      BY <2>2, <2>3, <2>4
    <2> HIDE DEF u, n
    <2>6. u = b
      BY <2>5, SeqEqual
    <2> QED
      BY <2>6 DEF u
  <1> QED
    BY <1>3, <1>4 DEF Same

\* The chunks, as they are encoded with and without padding.
Encoding(E, F, c, pad) ==
  /\ c \in Seq(Seq(0 .. 255)) /\ Full(c, 3)
  /\ E \in Seq(Seq(0 .. 66)) /\ Len(E) = Len(c)
  /\ F \in Seq(Seq(0 .. 66)) /\ Len(F) = Len(c)
  /\ \A k \in 1 .. Len(c) : Coded(E[k], F[k], Len(c[k]), pad)

\* Only the last chunk is short, so only the last group may be.
LEMMA EncodingIsFull ==
  ASSUME NEW E, NEW F, NEW c, NEW pad \in BOOLEAN, Encoding(E, F, c, pad)
  PROVE  Full(E, 4) /\ Full(F, 4)
  <1>1. /\ Len(c) \in Nat /\ Len(E) = Len(c) /\ Len(F) = Len(c)
        /\ \A k \in 1 .. Len(c) :
             /\ Len(c[k]) \in 1 .. 3 /\ (k < Len(c) => Len(c[k]) = 3)
             /\ Len(F[k]) = Len(c[k]) + 1 /\ Len(E[k]) = IF pad THEN 4 ELSE Len(c[k]) + 1
    BY DEF Encoding, Full, Coded
  <1>2. ASSUME NEW k \in 1 .. Len(c)
        PROVE  /\ Len(E[k]) \in 1 .. 4 /\ (k < Len(c) => Len(E[k]) = 4)
               /\ Len(F[k]) \in 1 .. 4 /\ (k < Len(c) => Len(F[k]) = 4)
    <2>1. PICK l \in 1 .. 3 : l = Len(c[k]) /\ (k < Len(c) => l = 3)
      BY <1>1
    <2>2. l + 1 \in 1 .. 4 /\ (l = 3 => l + 1 = 4)
      OBVIOUS
    <2>3. Len(F[k]) = l + 1 /\ (Len(E[k]) = 4 \/ Len(E[k]) = l + 1)
      BY <1>1, <2>1
    <2>4. 4 \in 1 .. 4
      OBVIOUS
    <2> QED
      BY <2>1, <2>2, <2>3, <2>4, Zenon
  <1> QED
    BY <1>1, <1>2 DEF Full

\* What the padding is trimmed to is what is encoded without, and it is legal.
Legal(b) == Len(b) % 4 # 1 /\ \A i \in DOMAIN b : b[i] \in Alphabet

\* Padding is only at the end of the last group, and never one of its characters.
LEMMA PaddingGoes ==
  ASSUME NEW E, NEW F, NEW c, NEW pad \in BOOLEAN, Encoding(E, F, c, pad)
  PROVE  Same(Trimmed(FlattenSeq(E)), FlattenSeq(F)) /\ Legal(FlattenSeq(F))
  <1> DEFINE T == 0 .. 66
             t == FlattenSeq(E)
             b == FlattenSeq(F)
             m == Len(c)
  <1>1. E \in Seq(Seq(T)) /\ F \in Seq(Seq(T)) /\ Full(E, 4) /\ Full(F, 4)
    BY EncodingIsFull DEF Encoding
  <1>2. /\ m \in Nat /\ Len(E) = m /\ Len(F) = m
        /\ \A k \in 1 .. m : Coded(E[k], F[k], Len(c[k]), pad)
        /\ \A k \in 1 .. m : Len(c[k]) \in 1 .. 3
    BY DEF Encoding, Full
  <1>3. Divides(E, t, 4) /\ t \in Seq(T) /\ Divides(F, b, 4) /\ b \in Seq(T)
    <2>1. 4 \in {3, 4}
      OBVIOUS
    <2> HIDE DEF T
    <2> QED
      BY <1>1, <2>1, JoinedDivides
  <1> HIDE DEF T, t, b, m
  <1>4. CASE m = 0
    <2>1. Len(t) = 0 /\ Len(b) = 0 /\ t \in Seq(T) /\ b \in Seq(T)
      BY <1>2, <1>3, <1>4 DEF Divides
    <2>2. t = <<>> /\ b = <<>>
      BY <2>1, EmptySeq
    <2>3. Same(Trimmed(t), b)
      <3>1. Len(b) <= Len(t) /\ 1 .. Len(b) = {} /\ Len(b) + 1 .. Len(t) = {}
        BY <2>1
      <3> QED
        BY <2>1, <3>1, TrimmedIs
    <2>4. Legal(b)
      BY <2>2 DEF Legal
    <2> QED
      BY <2>3, <2>4 DEF t, b
  <1>5. CASE m # 0
    <2>1. m \in 1 .. m
      BY <1>2, <1>5
    <2>2. PICK l \in 1 .. 3 : l = Len(c[m])
      BY <1>2, <2>1
    <2>3. PICK p \in 2 .. 4 : p = l + 1
      OBVIOUS
    <2>4. PICK q \in 2 .. 4 : q = Len(E[m]) /\ p <= q
      <3>1. Len(E[m]) = IF pad THEN 4 ELSE l + 1
        BY <1>2, <2>1, <2>2 DEF Coded
      <3> QED
        BY <2>3, <3>1
    <2>5. Len(F[m]) = p
      BY <1>2, <2>1, <2>2, <2>3 DEF Coded
    <2>6. Len(t) = Place(4, m, q) /\ Len(b) = Place(4, m, p)
      BY <1>2, <1>3, <1>5, <2>4, <2>5 DEF Divides
    <2>7. Len(b) <= Len(t) /\ Len(b) % 4 # 1
      BY <1>2, <2>4, <2>6 DEF Place
    <2>8. ASSUME NEW i \in 1 .. Len(b)
          PROVE  b[i] = t[i] /\ b[i] \in Alphabet
      <3>1. InGroup(i, 4, m, p)
        <4>1. Len(b) \in Nat
          BY <1>3, LenProperties
        <4>2. i \in Nat /\ 1 <= i /\ i <= Place(4, m, p) /\ p \in 1 .. 4 /\ 4 \in {3, 4}
          BY <2>6, <4>1
        <4> QED
          BY <1>2, <4>2, GroupOf
      <3>2. PICK k \in 1 .. m, j \in 1 .. 4 : i = Place(4, k, j) /\ (k < m \/ j <= p)
        BY <3>1 DEF InGroup
      <3>3. j \in 1 .. Len(F[k]) /\ j \in 1 .. Len(E[k])
        <4>1. k < m => Len(F[k]) = 4 /\ Len(E[k]) = 4
          BY <1>1, <1>2 DEF Full
        <4>2. k < m \/ k = m
          BY <1>2
        <4>3. CASE k < m
          BY <4>1, <4>3
        <4>4. CASE k = m
          <5>1. j <= p /\ Len(F[k]) = p /\ Len(E[k]) = q
            BY <1>2, <2>4, <2>5, <3>2, <4>4
          <5> QED
            BY <2>4, <5>1
        <4> QED
          BY <4>2, <4>3, <4>4
      <3>4. b[i] = F[k][j] /\ t[i] = E[k][j]
        BY <1>2, <1>3, <3>2, <3>3 DEF Divides
      <3>5. F[k][j] \in Alphabet /\ E[k][j] = F[k][j]
        <4>1. Coded(E[k], F[k], Len(c[k]), pad)
          BY <1>2
        <4> QED
          BY <3>3, <4>1 DEF Coded
      <3> QED
        BY <3>4, <3>5
    <2>9. ASSUME NEW i \in Len(b) + 1 .. Len(t)
          PROVE  t[i] = Pad
      <3>1. PICK r \in p + 1 .. q : i = Place(4, m, r)
        <4>1. i \in Int /\ i > 4 * (m - 1) + p /\ i <= 4 * (m - 1) + q
          BY <1>2, <2>6 DEF Place
        <4>2. i - 4 * (m - 1) \in p + 1 .. q
          BY <1>2, <4>1
        <4> QED
          BY <1>2, <4>1, <4>2 DEF Place
      <3>2. r \in 1 .. Len(E[m]) /\ r \in l + 2 .. Len(E[m])
        BY <2>3, <2>4
      <3>3. t[i] = E[m][r]
        BY <1>2, <1>3, <2>1, <3>1, <3>2 DEF Divides
      <3> QED
        BY <1>2, <2>1, <2>2, <3>2, <3>3 DEF Coded
    <2>10. Same(Trimmed(t), b)
      <3>1. \A i \in 1 .. Len(b) : b[i] = t[i] /\ b[i] # Pad
        <4>1. Pad \notin Alphabet
          BY DEF Alphabet, Pad
        <4> QED
          BY <2>8, <4>1, Zenon
      <3> QED
        BY <1>3, <2>7, <2>9, <3>1, TrimmedIs
    <2>11. Legal(b)
      <3>1. DOMAIN b = 1 .. Len(b)
        BY <1>3
      <3> QED
        BY <2>7, <2>8, <3>1 DEF Legal
    <2> QED
      BY <2>10, <2>11 DEF t, b
  <1> QED
    BY <1>4, <1>5

\* b64_encode_with() and b64_decode_any(): what is encoded comes back.
LEMMA EncodedComesBack ==
  ASSUME NEW x \in Seq(0 .. 255), NEW url \in BOOLEAN, NEW pad \in BOOLEAN
  PROVE  Same(Decode(Encode(x, url, pad)), {x})
  <1> DEFINE Byte == 0 .. 255
             c == Chunks(x, 3)
             m == Len(c)
             E == [k \in DOMAIN c |-> EncodeChunk(c[k], url, pad)]
             F == [k \in DOMAIN c |-> EncodeChunk(c[k], url, FALSE)]
             t == FlattenSeq(E)
             b == FlattenSeq(F)
  <1>1. /\ Divides(c, x, 3) /\ c \in Seq(Seq(0 .. 255)) /\ DOMAIN c = 1 .. m
        /\ \A k \in 1 .. m : c[k] \in Seq(0 .. 255)
    <2>1. x \in Seq(Byte) /\ 3 \in {3, 4}
      OBVIOUS
    <2> HIDE DEF Byte
    <2>2. /\ Divides(c, x, 3) /\ c \in Seq(Seq(Byte)) /\ DOMAIN c = 1 .. m
          /\ \A k \in 1 .. m : c[k] \in Seq(Byte)
      BY <2>1, ChunksDivide
    <2> QED
      BY <2>2 DEF Byte
  <1>2. Encode(x, url, pad) = t
    BY Zenon DEF Encode
  <1>3. FlattenSeq(c) = x
    <2>1. 3 \in {3, 4}
      OBVIOUS
    <2> QED
      BY <2>1, ChunksJoinAgain
  <1> HIDE DEF c
  <1>4. m \in Nat /\ \A k \in 1 .. m : Len(c[k]) \in 1 .. 3
    BY <1>1 DEF Divides, Full
  <1>5. ASSUME NEW k \in 1 .. m
        PROVE  /\ Coded(EncodeChunk(c[k], url, pad), EncodeChunk(c[k], url, FALSE), Len(c[k]), pad)
               /\ Same(DecodeGroup(EncodeChunk(c[k], url, FALSE)), c[k])
    <2>1. PICK l \in 1 .. 3 : l = Len(c[k])
      BY <1>4
    <2>2. c[k] \in Seq(0 .. 255)
      BY <1>1
    <2>3. Coded(EncodeChunk(c[k], url, pad), EncodeChunk(c[k], url, FALSE), l, pad)
      BY <2>1, <2>2, EncodedTyped
    <2>4. Same(DecodeGroup(EncodeChunk(c[k], url, FALSE)), c[k])
      BY <2>1, <2>2, ChunkComesBack
    <2> QED
      BY <2>1, <2>3, <2>4
  <1>6. /\ E = [k \in 1 .. m |-> EncodeChunk(c[k], url, pad)]
        /\ F = [k \in 1 .. m |-> EncodeChunk(c[k], url, FALSE)]
    BY <1>1
  <1> HIDE DEF E, F, m
  <1>7. /\ E \in Seq(Seq(0 .. 66)) /\ Len(E) = m /\ F \in Seq(Seq(0 .. 66)) /\ Len(F) = m
        /\ DOMAIN F = 1 .. m
    <2> DEFINE S == Seq(0 .. 66)
    <2>1. \A k \in 1 .. m : EncodeChunk(c[k], url, pad) \in S /\ EncodeChunk(c[k], url, FALSE) \in S
      BY <1>5, Zenon DEF Coded
    <2> HIDE DEF S
    <2>2. E \in [1 .. m -> S] /\ F \in [1 .. m -> S]
      BY <1>6, <2>1
    <2>3. E \in Seq(S) /\ Len(E) = m
      BY <1>4, <2>2
    <2>4. F \in Seq(S) /\ Len(F) = m /\ DOMAIN F = 1 .. m
      BY <1>4, <2>2
    <2> QED
      BY <2>3, <2>4 DEF S
  <1>8. Encoding(E, F, c, pad)
    <2>1. \A k \in 1 .. m : /\ E[k] = EncodeChunk(c[k], url, pad)
                            /\ F[k] = EncodeChunk(c[k], url, FALSE)
      BY <1>6
    <2>2. \A k \in 1 .. m : Coded(E[k], F[k], Len(c[k]), pad)
      BY <1>5, <2>1, Zenon
    <2> QED
      BY <1>1, <1>7, <2>2, Zenon DEF Encoding, Divides, m
  <1>9. Same(Trimmed(t), b) /\ Legal(b) /\ Full(F, 4)
    BY <1>8, PaddingGoes, EncodingIsFull
  <1>10. Chunks(b, 4) = F
    <2> DEFINE T == 0 .. 66
               g == Chunks(b, 4)
    <2>1. F \in Seq(Seq(T)) /\ 4 \in {3, 4}
      BY <1>7
    <2> HIDE DEF T, b
    <2>2. b \in Seq(T) /\ Divides(F, b, 4)
      BY <1>9, <2>1, JoinedDivides DEF b
    <2>3. g \in Seq(Seq(T)) /\ Divides(g, b, 4)
      BY <2>1, <2>2, ChunksDivide
    <2> HIDE DEF g
    <2>4. Same(g, F)
      BY <2>1, <2>2, <2>3, GroupsOfOne, Zenon DEF Same
    <2> QED
      BY <2>4 DEF Same, g
  <1>11. [k \in DOMAIN F |-> DecodeGroup(F[k])] = c
    <2>1. \A k \in 1 .. m : DecodeGroup(F[k]) = c[k]
      BY <1>5, <1>6 DEF Same
    <2>2. c = [k \in 1 .. m |-> c[k]]
      BY <1>1 DEF m
    <2> QED
      BY <1>7, <2>1, <2>2
  <1> HIDE DEF t, b
  <1>12. Decode(t) = {FlattenSeq([k \in DOMAIN F |-> DecodeGroup(F[k])])}
    <2>1. Trimmed(t) = b
      BY <1>9 DEF Same
    <2>2. ~(Len(b) % 4 = 1 \/ \E i \in DOMAIN b : b[i] \notin Alphabet)
      BY <1>9, Zenon DEF Legal
    <2> QED
      BY <1>10, <2>1, <2>2, Zenon DEF Decode
  <1> QED
    BY <1>2, <1>3, <1>11, <1>12, Zenon DEF Same

-----------------------------------------------------------------------------
(***************************************************************************)
(* What is decoded is the bits of the text.                                *)
(***************************************************************************)

\* The octets that four sextets are, in the same order of bits.
Regrouped(x, y, z, a, b, c, d) ==
  \E h \in 0 .. 3, e \in 0 .. 15, k \in 0 .. 15, f \in 0 .. 3 :
    b = 16 * h + e /\ c = 4 * k + f /\ x = 4 * a + h /\ y = 16 * e + k /\ z = 64 * f + d

\* Every four sextets are three octets.
LEMMA SextetsRegroup ==
  ASSUME NEW a \in 0 .. 63, NEW b \in 0 .. 63, NEW c \in 0 .. 63, NEW d \in 0 .. 63
  PROVE  \E x, y, z \in 0 .. 255 :
           Triple(x, y, z) = Word(a, b, c, d) /\ Regrouped(x, y, z, a, b, c, d)
  <1>1. PICK h \in 0 .. 3, e \in 0 .. 15 : b = 16 * h + e
    <2>1. b \div 16 \in 0 .. 3 /\ b % 16 \in 0 .. 15 /\ b = 16 * (b \div 16) + (b % 16)
      BY SMT
    <2> QED
      BY <2>1, SMT
  <1>2. PICK k \in 0 .. 15, f \in 0 .. 3 : c = 4 * k + f
    <2>1. c \div 4 \in 0 .. 15 /\ c % 4 \in 0 .. 3 /\ c = 4 * (c \div 4) + (c % 4)
      BY SMT
    <2> QED
      BY <2>1, SMT
  <1> DEFINE x == 4 * a + h
             y == 16 * e + k
             z == 64 * f + d
  <1>3. x \in 0 .. 255 /\ y \in 0 .. 255 /\ z \in 0 .. 255
    BY SMT
  <1>4. Triple(x, y, z) = Word(a, b, c, d)
    BY <1>1, <1>2, SMT DEF Triple, Word
  <1>5. Regrouped(x, y, z, a, b, c, d)
    BY <1>1, <1>2, Zenon DEF Regrouped
  <1> HIDE DEF x, y, z
  <1> QED
    BY <1>3, <1>4, <1>5, Zenon

\* The bit of n at that place of what is written in numbers of that width.
BitAt(n, width, r) == (n \div Weight[width - (r % width)]) % 2

\* A bit of the octets is the bit of the sextets.
SameBit(x, y, z, a, b, c, d, r) ==
  BitAt(ThreeOctets(x, y, z)[r \div 8 + 1], 8, r) = BitAt(Sextets(a, b, c, d)[r \div 6 + 1], 6, r)

\* Each of the 24 bits.
LEMMA RegroupedBits ==
  ASSUME NEW a \in 0 .. 63, NEW b \in 0 .. 63, NEW c \in 0 .. 63, NEW d \in 0 .. 63,
         NEW x, NEW y, NEW z, Regrouped(x, y, z, a, b, c, d),
         NEW r \in 0 .. 23
  PROVE  SameBit(x, y, z, a, b, c, d, r)
  <1> USE DEF SameBit, BitAt, ThreeOctets, Sextets, Weight
  <1>1. PICK h \in 0 .. 3, e \in 0 .. 15, k \in 0 .. 15, f \in 0 .. 3 :
          b = 16 * h + e /\ c = 4 * k + f /\ x = 4 * a + h /\ y = 16 * e + k /\ z = 64 * f + d
    BY DEF Regrouped
  <1>2. CASE r = 0
    BY <1>1, <1>2
  <1>3. CASE r = 1
    BY <1>1, <1>3
  <1>4. CASE r = 2
    BY <1>1, <1>4
  <1>5. CASE r = 3
    BY <1>1, <1>5
  <1>6. CASE r = 4
    BY <1>1, <1>6
  <1>7. CASE r = 5
    BY <1>1, <1>7
  <1>8. CASE r = 6
    BY <1>1, <1>8
  <1>9. CASE r = 7
    BY <1>1, <1>9
  <1>10. CASE r = 8
    BY <1>1, <1>10
  <1>11. CASE r = 9
    BY <1>1, <1>11
  <1>12. CASE r = 10
    BY <1>1, <1>12
  <1>13. CASE r = 11
    BY <1>1, <1>13
  <1>14. CASE r = 12
    BY <1>1, <1>14
  <1>15. CASE r = 13
    BY <1>1, <1>15
  <1>16. CASE r = 14
    BY <1>1, <1>16
  <1>17. CASE r = 15
    BY <1>1, <1>17
  <1>18. CASE r = 16
    BY <1>1, <1>18
  <1>19. CASE r = 17
    BY <1>1, <1>19
  <1>20. CASE r = 18
    BY <1>1, <1>20
  <1>21. CASE r = 19
    BY <1>1, <1>21
  <1>22. CASE r = 20
    BY <1>1, <1>22
  <1>23. CASE r = 21
    BY <1>1, <1>23
  <1>24. CASE r = 22
    BY <1>1, <1>24
  <1>25. CASE r = 23
    BY <1>1, <1>25
  <1>26. r \in {0, 1, 2, 3, 4, 5, 6, 7, 8, 9, 10, 11} \cup {12, 13, 14, 15, 16, 17, 18, 19, 20, 21, 22, 23}
    OBVIOUS
  <1> QED
    BY <1>2, <1>3, <1>4, <1>5, <1>6, <1>7, <1>8, <1>9, <1>10, <1>11, <1>12, <1>13, <1>14,
       <1>15, <1>16, <1>17, <1>18, <1>19, <1>20, <1>21, <1>22, <1>23, <1>24, <1>25, <1>26

\* b64_decode_any(), of one group: the octets are the bits of the characters.
Carries(h, g, l) ==
  /\ h \in Seq(0 .. 255) /\ Len(h) = l - 1
  /\ \A r \in 0 .. 23 :
       r < 8 * (l - 1) => BitAt(h[r \div 8 + 1], 8, r) = BitAt(B64Val(g[r \div 6 + 1]), 6, r)

\* A character of an alphabet stands for a sextet.
LEMMA ValueTyped ==
  ASSUME NEW c \in Alphabet
  PROVE  B64Val(c) \in 0 .. 63
  BY DEF Alphabet, B64Val

\* Each of three octets is one.
LEMMA OctetTyped ==
  ASSUME NEW x \in 0 .. 255, NEW y \in 0 .. 255, NEW z \in 0 .. 255, NEW i \in 1 .. 3
  PROVE  ThreeOctets(x, y, z)[i] \in 0 .. 255
  BY DEF ThreeOctets

\* A group of characters of the alphabets has four sextets, the missing ones being zero.
LEMMA GroupRead ==
  ASSUME NEW g, NEW l \in 1 .. 4, l = Len(g), \A i \in 1 .. l : g[i] \in Alphabet
  PROVE  \E a, b, c, d \in 0 .. 63 : Reads(g, l, a, b, c, d)
  <1>1. ASSUME NEW i \in 1 .. l PROVE B64Val(g[i]) \in 0 .. 63
    BY ValueTyped
  <1> DEFINE Val(i) == IF i <= l THEN B64Val(g[i]) ELSE 0
  <1>2. ASSUME NEW i \in 1 .. 4 PROVE Val(i) \in 0 .. 63
    <2>1. CASE i <= l
      <3>1. i \in 1 .. l
        BY <2>1
      <3>2. B64Val(g[i]) \in 0 .. 63
        BY <1>1, <3>1
      <3> QED
        BY <2>1, <3>2
    <2>2. CASE ~(i <= l)
      BY <2>2
    <2> QED
      BY <2>1, <2>2
  <1>3. Reads(g, l, Val(1), Val(2), Val(3), Val(4))
    BY DEF Reads
  <1> HIDE DEF Val
  <1>4. Val(1) \in 0 .. 63 /\ Val(2) \in 0 .. 63 /\ Val(3) \in 0 .. 63 /\ Val(4) \in 0 .. 63
    BY <1>2
  <1> QED
    BY <1>3, <1>4, Zenon

\* A group that is decoded gives an octet at least.
Few(l) == l - 1 \in 1 .. 3 /\ l = (l - 1) + 1

\* By what can be the length of such a group.
LEMMA DecodedAreFew ==
  ASSUME NEW l \in 2 .. 4
  PROVE  Few(l)
  BY DEF Few

\* Each bit of an octet is that of a character.
LEMMA GroupCarries ==
  ASSUME NEW g, NEW l \in 2 .. 4, l = Len(g), \A i \in 1 .. l : g[i] \in Alphabet
  PROVE  Carries(DecodeGroup(g), g, l)
  <1>1. l \in 1 .. 4
    OBVIOUS
  <1>2. PICK a, b, c, d \in 0 .. 63 : Reads(g, l, a, b, c, d)
    BY <1>1, GroupRead
  <1>3. PICK x, y, z \in 0 .. 255 :
          Triple(x, y, z) = Word(a, b, c, d) /\ Regrouped(x, y, z, a, b, c, d)
    BY SextetsRegroup, Zenon
  <1>4. IsDecoded(DecodeGroup(g), l, x, y, z)
    <2>1. Stands(g, l, x, y, z, a, b, c, d)
      BY <1>1, <1>2, <1>3, Zenon DEF Stands
    <2> QED
      BY <2>1, DecodeGroupIs, Zenon
  <1> DEFINE h == DecodeGroup(g)
             n == l - 1
  <1>5. h = [i \in 1 .. n |-> ThreeOctets(x, y, z)[i]]
    BY <1>4, Zenon DEF IsDecoded
  <1>6. n \in 1 .. 3 /\ l = n + 1
    <2>1. l - 1 \in 1 .. 3 /\ l = (l - 1) + 1
      BY DecodedAreFew, Zenon DEF Few
    <2> QED
      BY <2>1, Zenon
  <1> HIDE DEF h, n
  <1>7. ASSUME NEW i \in 1 .. 3 PROVE ThreeOctets(x, y, z)[i] \in 0 .. 255
    BY OctetTyped
  <1>8. h \in Seq(0 .. 255) /\ Len(h) = n
    <2>1. ASSUME NEW i \in 1 .. n PROVE ThreeOctets(x, y, z)[i] \in 0 .. 255
      <3>1. i \in 1 .. 3
        BY <1>6
      <3> QED
        BY <1>7, <3>1
    <2>2. h \in [1 .. n -> 0 .. 255]
      BY <1>5, <2>1
    <2> QED
      BY <1>6, <2>2
  <1>9. ASSUME NEW r \in 0 .. 23, r < 8 * n
        PROVE  BitAt(h[r \div 8 + 1], 8, r) = BitAt(B64Val(g[r \div 6 + 1]), 6, r)
    <2>1. r \div 8 + 1 \in 1 .. n /\ r \div 6 + 1 \in 1 .. 4 /\ r \div 6 + 1 <= n + 1
      BY <1>6, <1>9
    <2>2. h[r \div 8 + 1] = ThreeOctets(x, y, z)[r \div 8 + 1]
      BY <1>5, <2>1
    <2>3. ASSUME NEW i \in 1 .. 4, i <= l PROVE B64Val(g[i]) = Sextets(a, b, c, d)[i]
      BY <1>1, <1>2, <2>3 DEF Reads, Sextets
    <2>4. B64Val(g[r \div 6 + 1]) = Sextets(a, b, c, d)[r \div 6 + 1]
      BY <1>6, <2>1, <2>3
    <2>5. SameBit(x, y, z, a, b, c, d, r)
      BY <1>3, RegroupedBits
    <2> QED
      BY <2>2, <2>4, <2>5, Zenon DEF SameBit
  <1> QED
    BY <1>8, <1>9, Zenon DEF Carries, h, n

\* Bits are bits.
LEMMA BitTyped ==
  ASSUME NEW n \in Nat, NEW width \in {6, 8}, NEW r \in Nat
  PROVE  BitAt(n, width, r) \in 0 .. 1
  <1>1. PICK e \in 1 .. 8 : e = width - (r % width)
    <2>1. CASE width = 6
      BY <2>1
    <2>2. CASE width = 8
      BY <2>2
    <2> QED
      BY <2>1, <2>2
  <1>2. PICK w \in Nat : w = Weight[e] /\ w > 0
    BY DEF Weight
  <1>3. n \div w \in Nat
    <2>1. w \in {1, 2, 4, 8, 16, 32, 64, 128}
      BY <1>2 DEF Weight
    <2> QED
      BY <2>1
  <1>4. (n \div w) % 2 \in 0 .. 1
    BY <1>3
  <1> QED
    BY <1>1, <1>2, <1>4 DEF BitAt

\* What Bits returns.
AreBits(s, numbers, width) ==
  /\ s \in Seq(0 .. 1) /\ Len(s) = width * Len(numbers)
  /\ \A i \in 1 .. Len(s) : s[i] = BitAt(numbers[(i - 1) \div width + 1], width, i - 1)

\* As many as the numbers have, each with its place.
LEMMA BitsAre ==
  ASSUME NEW numbers \in Seq(Nat), NEW width \in {6, 8}
  PROVE  AreBits(Bits(numbers, width), numbers, width)
  <1> DEFINE n == width * Len(numbers)
             e(i) == BitAt(numbers[(i - 1) \div width + 1], width, i - 1)
             s == Bits(numbers, width)
  <1>1. n \in Nat
    <2>1. Len(numbers) \in Nat
      BY LenProperties
    <2>2. CASE width = 6
      BY <2>1, <2>2
    <2>3. CASE width = 8
      BY <2>1, <2>3
    <2> QED
      BY <2>2, <2>3
  <1>2. ASSUME NEW i \in 1 .. n PROVE e(i) \in 0 .. 1
    <2>1. PICK k \in 1 .. Len(numbers) : k = (i - 1) \div width + 1
      <3>1. Len(numbers) \in Nat
        BY LenProperties
      <3>2. CASE width = 6
        BY <3>1, <3>2
      <3>3. CASE width = 8
        BY <3>1, <3>3
      <3> QED
        BY <3>2, <3>3
    <2>2. PICK q \in Nat : q = numbers[k]
      BY ElementOfSeq
    <2>3. i - 1 \in Nat
      BY <1>1
    <2>4. BitAt(q, width, i - 1) \in 0 .. 1
      BY <2>3, BitTyped
    <2> QED
      BY <2>1, <2>2, <2>4
  <1>3. s = [i \in 1 .. n |-> e(i)]
    BY Zenon DEF Bits, BitAt
  <1> HIDE DEF n, e, s
  <1>4. s \in [1 .. n -> 0 .. 1]
    BY <1>2, <1>3
  <1>5. s \in Seq(0 .. 1) /\ Len(s) = n
    BY <1>1, <1>4
  <1>6. \A i \in 1 .. Len(s) : s[i] = e(i)
    BY <1>3, <1>5
  <1> QED
    BY <1>5, <1>6, Zenon DEF AreBits, n, e, s

\* The place of a bit, in a group of 24, of octets and of characters.
Located(i, k, r) ==
  /\ (i - 1) \div 8 + 1 = Place(3, k, r \div 8 + 1) /\ (i - 1) % 8 = r % 8
  /\ (i - 1) \div 6 + 1 = Place(4, k, r \div 6 + 1) /\ (i - 1) % 6 = r % 6

\* The place is in one of m groups, of which the last has l characters.
HasPlace(i, m, l) ==
  \E k \in 1 .. m, r \in 0 .. 23 : Located(i, k, r) /\ (k = m => r < 8 * (l - 1))

\* Every bit of an octet has one.
LEMMA BitHasPlace ==
  ASSUME NEW m \in Nat, m # 0, NEW l \in 2 .. 4,
         NEW i \in Nat, 1 <= i, i <= 8 * Place(3, m, l - 1)
  PROVE  HasPlace(i, m, l)
  <1>1. PICK p \in Nat, r \in 0 .. 23 : i - 1 = 24 * p + r
    <2>1. i - 1 \in Nat
      OBVIOUS
    <2>2. PICK j \in Nat : j = i - 1
      BY <2>1
    <2>3. j \div 24 \in Nat /\ j % 24 \in 0 .. 23 /\ j = 24 * (j \div 24) + (j % 24)
      BY <2>2
    <2> QED
      BY <2>2, <2>3
  <1>2. PICK k \in Nat : k = p + 1
    OBVIOUS
  <1>3. i - 1 < 24 * (m - 1) + 8 * (l - 1)
    BY DEF Place
  <1>4. k \in 1 .. m /\ (k = m => r < 8 * (l - 1))
    BY <1>1, <1>2, <1>3
  <1>5. (i - 1) \div 8 + 1 = Place(3, k, r \div 8 + 1) /\ (i - 1) % 8 = r % 8
    BY <1>1, <1>2 DEF Place
  <1>6. (i - 1) \div 6 + 1 = Place(4, k, r \div 6 + 1) /\ (i - 1) % 6 = r % 6
    BY <1>1, <1>2 DEF Place
  <1> QED
    BY <1>4, <1>5, <1>6 DEF HasPlace, Located

\* As many octets as bits of the characters fill.
Fills(n, c) == 8 * n = 6 * c - ((6 * c) % 8)

\* The bits left over fill no octet.
LEMMA OctetsFill ==
  ASSUME NEW m \in Nat, NEW l \in 2 .. 4, NEW n \in Nat, NEW c \in Nat,
         n = Place(3, m, l - 1), c = Place(4, m, l)
  PROVE  Fills(n, c)
  <1>1. CASE l = 2
    BY <1>1 DEF Place, Fills
  <1>2. CASE l = 3
    BY <1>2 DEF Place, Fills
  <1>3. CASE l = 4
    BY <1>3 DEF Place, Fills
  <1> QED
    BY <1>1, <1>2, <1>3

\* Octets are numbers.
LEMMA OctetsAreNumbers ==
  ASSUME NEW o \in Seq(0 .. 255)
  PROVE  o \in Seq(Nat)
  <1> DEFINE S == 0 .. 255
  <1>1. \A i \in 1 .. Len(o) : o[i] \in S
    BY ElementOfSeq
  <1>2. PICK n \in Nat : n = Len(o)
    BY LenProperties
  <1>3. DOMAIN o = 1 .. n /\ o = [i \in 1 .. n |-> o[i]]
    BY <1>2
  <1>4. \A i \in 1 .. n : o[i] \in Nat
    <2>1. \A x \in S : x \in Nat
      OBVIOUS
    <2> HIDE DEF S
    <2> QED
      BY <1>1, <1>2, <2>1, Zenon
  <1>5. o \in [1 .. n -> Nat]
    BY <1>3, <1>4
  <1> QED
    BY <1>5

\* And so are the values of characters.
LEMMA ValueIsNumber ==
  ASSUME NEW c \in Alphabet
  PROVE  B64Val(c) \in Nat
  BY DEF Alphabet, B64Val

\* The octets that a text is decoded to, by its groups.
Octs(b) == [k \in DOMAIN Chunks(b, 4) |-> DecodeGroup(Chunks(b, 4)[k])]

\* The bits that the characters stand for, and how many of them are octets.
Standing(b) == Bits([i \in DOMAIN b |-> B64Val(b[i])], 6)

\* How many of the bits are in whole octets.
WholeBits(s) == Len(s) - (Len(s) % 8)

\* The octets are the bits of the characters, but for those that fill no octet.
LEMMA DecodedIsExact ==
  ASSUME NEW b \in Seq(0 .. 67), Legal(b)
  PROVE  Same(Bits(FlattenSeq(Octs(b)), 8), SubSeq(Standing(b), 1, WholeBits(Standing(b))))
  <1> DEFINE T == 0 .. 67
             g == Chunks(b, 4)
             m == Len(g)
             G == Octs(b)
             o == FlattenSeq(G)
             v == [i \in DOMAIN b |-> B64Val(b[i])]
             s == Standing(b)
             t == Bits(o, 8)
             w == WholeBits(s)
  <1>1. /\ Divides(g, b, 4) /\ DOMAIN g = 1 .. m
        /\ \A k \in 1 .. m : g[k] \in Seq(0 .. 67)
    <2>1. b \in Seq(T) /\ 4 \in {3, 4}
      OBVIOUS
    <2> HIDE DEF T
    <2>2. Divides(g, b, 4) /\ DOMAIN g = 1 .. m /\ \A k \in 1 .. m : g[k] \in Seq(T)
      BY <2>1, ChunksDivide
    <2> QED
      BY <2>2 DEF T
  <1>2. G = [k \in 1 .. m |-> DecodeGroup(g[k])]
    BY <1>1 DEF Octs
  <1>3. Len(b) \in Nat /\ DOMAIN b = 1 .. Len(b) /\ Len(b) % 4 # 1
    BY LenProperties DEF Legal
  <1>4. \A i \in 1 .. Len(b) : b[i] \in Alphabet
    BY <1>3, Zenon DEF Legal
  <1> HIDE DEF g, G, m
  <1>5. /\ m \in Nat
        /\ \A k \in 1 .. m : Len(g[k]) \in 1 .. 4 /\ (k < m => Len(g[k]) = 4)
        /\ Len(b) = IF m = 0 THEN 0 ELSE Place(4, m, Len(g[m]))
        /\ \A k \in 1 .. m : \A j \in 1 .. Len(g[k]) : b[Place(4, k, j)] = g[k][j]
    BY <1>1 DEF Divides, Full, m
  <1>6. ASSUME NEW k \in 1 .. m PROVE Len(g[k]) \in 2 .. 4
    <2>1. CASE k < m
      BY <1>5, <2>1
    <2>2. CASE k = m
      <3>1. PICK l \in 1 .. 4 : l = Len(g[k])
        BY <1>5
      <3>2. Len(b) = Place(4, m, l)
        BY <1>5, <2>2, <3>1
      <3>3. l # 1
        <4>1. SUFFICES ASSUME l = 1 PROVE FALSE
          OBVIOUS
        <4>2. PICK p \in Nat : p = m - 1
          BY <1>5
        <4>3. Len(b) = 4 * p + 1
          BY <3>2, <4>1, <4>2 DEF Place
        <4> QED
          BY <1>3, <4>3
      <3> QED
        BY <3>1, <3>3
    <2> QED
      BY <1>5, <2>1, <2>2
  <1>7. ASSUME NEW k \in 1 .. m PROVE Carries(DecodeGroup(g[k]), g[k], Len(g[k]))
    <2>1. PICK l \in 2 .. 4 : l = Len(g[k])
      BY <1>6
    <2>2. ASSUME NEW j \in 1 .. l PROVE g[k][j] \in Alphabet
      <3>1. b[Place(4, k, j)] = g[k][j]
        BY <1>5, <2>1
      <3>2. Place(4, k, j) \in 1 .. Len(b)
        <4>1. m # 0
          BY <1>5
        <4>2. PICK e \in 1 .. 4 : e = Len(g[m]) /\ Len(b) = Place(4, m, e)
          <5>1. m \in 1 .. m
            BY <1>5, <4>1
          <5> QED
            BY <1>5, <4>1, <5>1
        <4>3. k = m => l = e
          BY <2>1, <4>2
        <4>4. PICK n \in Nat : n = Len(b) /\ n = 4 * (m - 1) + e
          BY <1>3, <4>2 DEF Place
        <4>5. PICK p \in Nat : p = 4 * (k - 1) + j /\ 1 <= p
          BY <1>5
        <4>6. p <= n
          <5>1. CASE k < m
            BY <1>5, <4>4, <4>5, <5>1
          <5>2. CASE k = m
            BY <4>3, <4>4, <4>5, <5>2
          <5> QED
            BY <1>5, <5>1, <5>2
        <4> QED
          BY <4>4, <4>5, <4>6 DEF Place
      <3> QED
        BY <1>4, <3>1, <3>2
    <2>3. Carries(DecodeGroup(g[k]), g[k], l)
      BY <2>1, <2>2, GroupCarries
    <2> QED
      BY <2>1, <2>3
  <1>8. /\ G \in Seq(Seq(0 .. 255)) /\ Len(G) = m
        /\ \A k \in 1 .. m : G[k] = DecodeGroup(g[k]) /\ Len(G[k]) = Len(g[k]) - 1
    <2> DEFINE S == Seq(0 .. 255)
    <2>1. \A k \in 1 .. m : DecodeGroup(g[k]) \in S /\ Len(DecodeGroup(g[k])) = Len(g[k]) - 1
      BY <1>7, Zenon DEF Carries
    <2> HIDE DEF S
    <2>2. G \in [1 .. m -> S]
      BY <1>2, <2>1
    <2>3. G \in Seq(S) /\ Len(G) = m
      BY <1>5, <2>2
    <2>4. \A k \in 1 .. m : G[k] = DecodeGroup(g[k])
      BY <1>2
    <2>5. \A k \in 1 .. m : G[k] = DecodeGroup(g[k]) /\ Len(G[k]) = Len(g[k]) - 1
      BY <2>1, <2>4, Zenon
    <2> QED
      BY <2>3, <2>5 DEF S
  <1>9. Full(G, 3)
    <2>1. ASSUME NEW k \in 1 .. m PROVE Len(G[k]) \in 1 .. 3 /\ (k < m => Len(G[k]) = 3)
      <3>1. PICK l \in 2 .. 4 : l = Len(g[k])
        BY <1>6
      <3>2. Len(G[k]) = l - 1 /\ (k < m => l = 4)
        BY <1>5, <1>8, <3>1
      <3> QED
        BY <3>2
    <2> QED
      BY <1>5, <1>8, <2>1 DEF Full
  <1>10. Divides(G, o, 3) /\ o \in Seq(0 .. 255)
    <2> DEFINE S == 0 .. 255
    <2>1. G \in Seq(Seq(S)) /\ 3 \in {3, 4}
      BY <1>8
    <2> HIDE DEF S
    <2>2. Divides(G, o, 3) /\ o \in Seq(S)
      BY <1>9, <2>1, JoinedDivides
    <2> QED
      BY <2>2 DEF S
  <1> HIDE DEF o
  <1>11. v \in Seq(Nat) /\ Len(v) = Len(b) /\ \A i \in 1 .. Len(b) : v[i] = B64Val(b[i])
    <2>1. \A i \in 1 .. Len(b) : B64Val(b[i]) \in Nat
      BY <1>4, ValueIsNumber
    <2>2. v \in [1 .. Len(b) -> Nat]
      BY <1>3, <2>1
    <2>3. \A i \in 1 .. Len(b) : v[i] = B64Val(b[i])
      BY <1>3
    <2> HIDE DEF v
    <2>4. PICK n \in Nat : n = Len(b)
      BY <1>3
    <2>5. v \in Seq(Nat) /\ Len(v) = n
      BY <2>2, <2>4
    <2> QED
      BY <2>3, <2>4, <2>5
  <1>12. AreBits(s, v, 6) /\ AreBits(t, o, 8)
    <2>1. s = Bits(v, 6)
      BY DEF Standing
    <2>2. o \in Seq(Nat) /\ 6 \in {6, 8} /\ 8 \in {6, 8}
      BY <1>10, OctetsAreNumbers
    <2> HIDE DEF v, s
    <2> QED
      BY <1>11, <2>1, <2>2, BitsAre
  <1> HIDE DEF v, s, t
  <1>13. PICK n \in Nat, c \in Nat : n = Len(o) /\ c = Len(b)
    BY <1>3, <1>10, LenProperties
  <1>14. /\ s \in Seq(0 .. 1) /\ Len(s) = 6 * c
         /\ \A i \in 1 .. Len(s) : s[i] = BitAt(v[(i - 1) \div 6 + 1], 6, i - 1)
         /\ t \in Seq(0 .. 1) /\ Len(t) = 8 * n
         /\ \A i \in 1 .. Len(t) : t[i] = BitAt(o[(i - 1) \div 8 + 1], 8, i - 1)
    BY <1>11, <1>12, <1>13, Zenon DEF AreBits
  <1>15. w = 8 * n
    <2>1. w = 6 * c - ((6 * c) % 8)
      BY <1>14, Zenon DEF WholeBits
    <2>2. CASE m = 0
      <3>1. n = 0 /\ c = 0
        BY <1>5, <1>8, <1>10, <1>13, <2>2 DEF Divides
      <3> QED
        BY <2>1, <3>1
    <2>3. CASE m # 0
      <3>1. m \in 1 .. m
        BY <1>5, <2>3
      <3>2. PICK l \in 2 .. 4 : l = Len(g[m])
        BY <1>6, <3>1
      <3>3. n = Place(3, m, l - 1) /\ c = Place(4, m, l)
        BY <1>5, <1>8, <1>10, <1>13, <2>3, <3>1, <3>2 DEF Divides
      <3>4. 8 * n = 6 * c - ((6 * c) % 8)
        <4>1. Fills(n, c)
          BY <1>5, <3>3, OctetsFill
        <4> QED
          BY <4>1 DEF Fills
      <3> QED
        BY <2>1, <3>4
    <2> QED
      BY <2>2, <2>3
  <1> HIDE DEF w
  <1>16. ASSUME NEW i \in 1 .. 8 * n PROVE t[i] = s[i]
    <2>1. m # 0 /\ m \in 1 .. m
      <3>1. n # 0
        BY <1>16
      <3>2. m # 0
        BY <1>8, <1>10, <1>13, <3>1 DEF Divides
      <3> QED
        BY <1>5, <3>2
    <2>2. PICK l \in 2 .. 4 : l = Len(g[m])
      BY <1>6, <2>1
    <2>3. n = Place(3, m, l - 1)
      BY <1>8, <1>10, <1>13, <2>1, <2>2 DEF Divides
    <2>4. HasPlace(i, m, l)
      <3>1. i \in Nat /\ 1 <= i /\ i <= 8 * Place(3, m, l - 1)
        BY <2>3
      <3> QED
        BY <1>5, <2>1, <3>1, BitHasPlace
    <2>5. PICK k \in 1 .. m, r \in 0 .. 23 : Located(i, k, r) /\ (k = m => r < 8 * (l - 1))
      BY <2>4, Zenon DEF HasPlace
    <2>6. PICK e \in 2 .. 4 : e = Len(g[k]) /\ r < 8 * (e - 1)
      <3>1. PICK e \in 2 .. 4 : e = Len(g[k])
        BY <1>6
      <3>2. k < m => e = 4
        BY <1>5, <3>1
      <3>3. k = m => e = l
        BY <2>2, <3>1
      <3>4. (k = m => r < 8 * (e - 1)) /\ r < 24
        BY <2>5, <3>3
      <3>5. k < m => r < 8 * (e - 1)
        BY <3>2, <3>4
      <3>6. k < m \/ k = m
        BY <1>5
      <3> QED
        BY <3>1, <3>4, <3>5, <3>6, Zenon
    <2>7. Carries(G[k], g[k], e)
      BY <1>7, <1>8, <2>6
    <2>8. BitAt(G[k][r \div 8 + 1], 8, r) = BitAt(B64Val(g[k][r \div 6 + 1]), 6, r)
      BY <2>6, <2>7, Zenon DEF Carries
    <2>9. r \div 8 + 1 \in 1 .. e - 1 /\ r \div 6 + 1 \in 1 .. e
      BY <2>6
    <2>10. o[(i - 1) \div 8 + 1] = G[k][r \div 8 + 1]
      <3>1. r \div 8 + 1 \in 1 .. Len(G[k])
        BY <1>8, <2>6, <2>9
      <3>2. o[Place(3, k, r \div 8 + 1)] = G[k][r \div 8 + 1]
        BY <1>8, <1>10, <3>1, Zenon DEF Divides
      <3> QED
        BY <2>5, <3>2, Zenon DEF Located
    <2>11. b[(i - 1) \div 6 + 1] = g[k][r \div 6 + 1]
      <3>1. b[Place(4, k, r \div 6 + 1)] = g[k][r \div 6 + 1]
        BY <1>5, <2>6, <2>9
      <3> QED
        BY <2>5, <3>1, Zenon DEF Located
    <2>12. i \in 1 .. 6 * c
      BY <1>14, <1>15 DEF w, WholeBits
    <2>13. v[(i - 1) \div 6 + 1] = B64Val(b[(i - 1) \div 6 + 1])
      <3>1. (i - 1) \div 6 + 1 \in 1 .. c
        BY <2>12
      <3> QED
        BY <1>11, <1>13, <3>1, Zenon
    <2>14. /\ s[i] = BitAt(B64Val(g[k][r \div 6 + 1]), 6, i - 1)
           /\ t[i] = BitAt(G[k][r \div 8 + 1], 8, i - 1)
      BY <1>14, <2>10, <2>11, <2>12, <2>13, Zenon
    <2>15. ASSUME NEW x
           PROVE  BitAt(x, 6, i - 1) = BitAt(x, 6, r) /\ BitAt(x, 8, i - 1) = BitAt(x, 8, r)
      BY <2>5, Zenon DEF Located, BitAt
    <2> QED
      BY <2>8, <2>14, <2>15, Zenon
  <1>17. SubSeq(s, 1, w) = t
    <2>1. w \in Nat /\ w <= Len(s) /\ Len(s) \in Nat /\ w = 8 * n
      BY <1>14, <1>15 DEF w, WholeBits
    <2>2. ASSUME NEW i \in 1 .. w PROVE s[i] \in 0 .. 1
      <3> DEFINE B == 0 .. 1
      <3>1. s \in Seq(B) /\ i \in 1 .. Len(s)
        BY <1>14, <2>1
      <3> HIDE DEF B
      <3>2. s[i] \in B
        BY <3>1, ElementOfSeq
      <3> QED
        BY <3>2 DEF B
    <2> DEFINE u == SubSeq(s, 1, w)
    <2>3. /\ u \in Seq(0 .. 1) /\ Len(u) = IF 1 <= w THEN (w - 1) + 1 ELSE 0
          /\ \A i \in 1 .. (w - 1) + 1 : u[i] = s[(1 + i) - 1]
      BY <2>1, <2>2, SubSeqProperties
    <2> HIDE DEF u
    <2>4. Len(u) = w
      BY <2>1, <2>3
    <2>5. ASSUME NEW i \in 1 .. w PROVE u[i] = t[i]
      <3>1. i \in 1 .. (w - 1) + 1 /\ (1 + i) - 1 = i /\ i \in 1 .. 8 * n
        BY <2>1
      <3> QED
        BY <1>16, <2>3, <3>1
    <2>6. /\ u \in Seq(0 .. 1) /\ t \in Seq(0 .. 1) /\ Len(u) = Len(t)
          /\ \A i \in 1 .. Len(u) : u[i] = t[i]
      BY <1>14, <2>1, <2>3, <2>4, <2>5
    <2>7. u = t
      BY <2>6, SeqEqual
    <2> QED
      BY <2>7 DEF u
  <1> QED
    BY <1>17, Zenon DEF Same, t, o, G, s, w

-----------------------------------------------------------------------------
(***************************************************************************)
(* The parts of crypto.rs, in every state.                                 *)
(***************************************************************************)

\* What every text is decoded to.
DecodesRightly(x) ==
  LET b == Trimmed(x)
  IN  IF Legal(b)
      THEN \E octets \in Decode(x) :
             Bits(octets, 8) = SubSeq(Standing(b), 1, WholeBits(Standing(b)))
      ELSE Decode(x) = {}

\* b64_decode_any(): a legal text is decoded to the bits of its characters, another to nothing.
LEMMA TextsDecode ==
  ASSUME NEW x \in Seq(0 .. 67)
  PROVE  DecodesRightly(x)
  <1> DEFINE T == 0 .. 67
             b == Trimmed(x)
             o == FlattenSeq(Octs(b))
  <1>1. b \in Seq(T)
    BY TrimmedTyped
  <1> HIDE DEF b
  <1>2. CASE Legal(b)
    <2>1. ~(Len(b) % 4 = 1 \/ \E i \in DOMAIN b : b[i] \notin Alphabet)
      BY <1>2, Zenon DEF Legal
    <2>2. Decode(x) = {o}
      BY <2>1, Zenon DEF Decode, Octs, b
    <2>3. Same(Bits(o, 8), SubSeq(Standing(b), 1, WholeBits(Standing(b))))
      BY <1>1, <1>2, DecodedIsExact
    <2> HIDE DEF o
    <2>4. o \in Decode(x)
      BY <2>2
    <2> QED
      BY <1>2, <2>3, <2>4, Zenon DEF DecodesRightly, Same, b
  <1>3. CASE ~Legal(b)
    <2>1. Len(b) % 4 = 1 \/ \E i \in DOMAIN b : b[i] \notin Alphabet
      BY <1>3, Zenon DEF Legal
    <2>2. Decode(x) = {}
      BY <2>1, Zenon DEF Decode, b
    <2> QED
      BY <1>3, <2>2, Zenon DEF DecodesRightly, b
  <1> QED
    BY <1>2, <1>3

\* The hasher has seen exactly what has been fed in, whatever the sizes of the calls.
CryptoInv ==
  /\ part \in {"none", "hash", "encode", "decode"}
  /\ part = "none" => input = <<>>
  /\ part \in {"none", "hash"} => input \in Seq(Fed) /\ Holds(hasher, input)
  /\ part = "encode" => input \in Seq(0 .. 255)
  /\ part = "decode" => input \in Seq(0 .. 67)

\* Sha256::new() has been fed nothing.
LEMMA NewHolds == Holds(NewHasher, <<>>)
  <1> DEFINE e == <<>>
             h == NewHasher
  <1>1. e \in Seq(Fed) /\ Len(e) = 0 /\ IsConcat(e, e, e) /\ BlockLen \in Nat \ {0}
    BY BlockLenPositive DEF IsConcat
  <1> HIDE DEF e
  <1>2. 0 \div BlockLen = 0 /\ 0 % BlockLen = 0
    <2>1. BlockLen \in Nat \ {0} /\ 0 \in 0 .. BlockLen - 1 /\ 0 = 0 * BlockLen + 0
      BY <1>1
    <2> QED
      BY <2>1, Quotient
  <1>3. Whole(e)
    BY <1>1, <1>2 DEF Whole
  <1>4. Blocks(e) = <<>>
    <2> DEFINE S == Seq(Fed)
    <2>1. Blocks(e) \in Seq(S) /\ Len(Blocks(e)) = 0
      BY <1>1, <1>2, BlocksTyped
    <2> HIDE DEF S
    <2> QED
      BY <2>1, EmptySeq
  <1>5. /\ h.blocks = <<>> /\ h.held = 0 /\ h.total = 0
        /\ h \in Hashers
    <2>1. Zero \in Fed
      BY DEF Zero, Fed
    <2>2. [i \in 1 .. BlockLen |-> Zero] \in [1 .. BlockLen -> Fed]
      BY <2>1
    <2>3. <<>> \in Seq(Seq(Fed))
      <3> DEFINE S == Seq(Fed)
      <3> HIDE DEF S
      <3>1. <<>> \in Seq(S)
        OBVIOUS
      <3> QED
        BY <3>1 DEF S
    <2> QED
      BY <2>2, <2>3 DEF NewHasher, Hashers
  <1> HIDE DEF h
  <1>6. Held(h, e, e)
    <2>1. \A i \in 1 .. Len(e) : h.buf[i] = e[i]
      BY <1>1
    <2>2. 0 < BlockLen /\ 0 = 0 + 0
      BY <1>1
    <2> QED
      BY <1>1, <1>3, <1>4, <1>5, <2>1, <2>2 DEF Held
  <1>7. Holds(h, e)
    BY <1>1, <1>6, Zenon DEF Holds
  <1> QED
    BY <1>7 DEF h, e

\* Every call keeps it so.
LEMMA CryptoInvStep ==
  ASSUME CryptoInv, [CryptoNext]_cryptoVars
  PROVE  CryptoInv'
  <1>1. CASE PickPart
    <2>1. /\ input' = input /\ hasher' = hasher
          /\ part = "none" /\ part' \in {"hash", "encode", "decode"}
      BY <1>1 DEF PickPart
    <2>2. input = <<>> /\ Holds(hasher, input) /\ input \in Seq(Fed)
      BY <2>1 DEF CryptoInv
    <2>3. input \in Seq(0 .. 255) /\ input \in Seq(0 .. 67)
      BY <2>2
    <2> QED
      BY <2>1, <2>2, <2>3 DEF CryptoInv
  <1>2. CASE Feed
    <2>1. part = "hash" /\ part' = part
      BY <1>2 DEF Feed
    <2>2. input \in Seq(Fed) /\ Holds(hasher, input)
      BY <2>1 DEF CryptoInv
    <2>3. PICK n \in 0 .. MaxMessage - Len(input) :
            /\ input' = input \o [i \in 1 .. n |-> Message(Len(input) + i)]
            /\ hasher' = Update(hasher, [i \in 1 .. n |-> Message(Len(input) + i)])
      BY <1>2 DEF Feed
    <2> DEFINE d == [i \in 1 .. n |-> Message(Len(input) + i)]
    <2>4. n \in Nat /\ Len(input) \in Nat
      BY <2>2, LenProperties, CryptoAssumption
    <2>5. d \in Seq(Fed)
      <3>1. ASSUME NEW i \in 1 .. n PROVE Message(Len(input) + i) \in Fed
        BY <2>4 DEF Message, Fed
      <3>2. d \in [1 .. n -> Fed]
        BY <3>1
      <3> HIDE DEF d
      <3> QED
        BY <2>4, <3>2
    <2>6. input' = input \o d /\ hasher' = Update(hasher, d)
      BY <2>3
    <2> HIDE DEF d
    <2>7. IsConcat(input', input, d)
      BY <2>6 DEF IsConcat
    <2>8. Holds(hasher', input')
      <3>1. PICK m : m = input' /\ IsConcat(m, input, d)
        BY <2>7
      <3>2. Holds(Update(hasher, d), m)
        BY <2>2, <2>5, <3>1, Updated
      <3> QED
        BY <2>6, <3>1, <3>2, Zenon
    <2>9. input' \in Seq(Fed)
      BY <2>2, <2>5, <2>6
    <2> QED
      BY <2>1, <2>8, <2>9 DEF CryptoInv
  <1>3. CASE OneMore
    <2>1. CASE part = "encode" /\ \E x \in Octets : input' = Append(input, x)
      <3>1. PICK x \in 0 .. 255 : input' = Append(input, x)
        BY <2>1, CryptoAssumption
      <3>2. part' = "encode" /\ input \in Seq(0 .. 255)
        BY <1>3, <2>1 DEF OneMore, CryptoInv
      <3>3. input' \in Seq(0 .. 255)
        BY <3>1, <3>2
      <3> QED
        BY <3>2, <3>3 DEF CryptoInv
    <2>2. CASE part = "decode" /\ \E x \in Symbols : input' = Append(input, x)
      <3>1. PICK x \in 0 .. 67 : input' = Append(input, x)
        BY <2>2, CryptoAssumption
      <3>2. part' = "decode" /\ input \in Seq(0 .. 67)
        BY <1>3, <2>2 DEF OneMore, CryptoInv
      <3>3. input' \in Seq(0 .. 67)
        BY <3>1, <3>2
      <3> QED
        BY <3>2, <3>3 DEF CryptoInv
    <2> QED
      BY <1>3, <2>1, <2>2 DEF OneMore
  <1>4. CASE UNCHANGED cryptoVars
    BY <1>4 DEF CryptoInv, cryptoVars
  <1> QED
    BY <1>1, <1>2, <1>3, <1>4 DEF CryptoNext

\* And then the digest and Base64 are exact.
LEMMA CryptoInvSuffices ==
  ASSUME CryptoInv
  PROVE  CryptoIsExact
  <1>1. ASSUME part = "hash" PROVE Finalize(hasher) = Blocks(Padded(input))
    <2>1. input \in Seq(Fed) /\ Holds(hasher, input)
      BY <1>1 DEF CryptoInv
    <2> QED
      BY <2>1, Finalized
  <1>2. ASSUME part = "encode", NEW url \in BOOLEAN, NEW pad \in BOOLEAN
        PROVE  Decode(Encode(input, url, pad)) = {input}
    <2>1. input \in Seq(0 .. 255)
      BY <1>2 DEF CryptoInv
    <2>2. Same(Decode(Encode(input, url, pad)), {input})
      BY <2>1, EncodedComesBack
    <2> QED
      BY <2>2 DEF Same
  <1>3. ASSUME part = "decode"
        PROVE  LET b == Trimmed(input)
                   stands == Bits([i \in DOMAIN b |-> B64Val(b[i])], 6)
                   whole == Len(stands) - (Len(stands) % 8)
               IN  IF Len(b) % 4 # 1 /\ \A i \in DOMAIN b : b[i] \in Alphabet
                   THEN \E octets \in Decode(input) : Bits(octets, 8) = SubSeq(stands, 1, whole)
                   ELSE Decode(input) = {}
    <2>1. input \in Seq(0 .. 67)
      BY <1>3 DEF CryptoInv
    <2>2. DecodesRightly(input)
      BY <2>1, TextsDecode
    <2> QED
      BY <2>2, Zenon DEF DecodesRightly, Legal, Standing, WholeBits
  <1> QED
    BY <1>1, <1>2, <1>3, Zenon DEF CryptoIsExact

\* "Chunk boundaries never affect the digest"; and Base64 loses nothing, in either alphabet,
\* padded or not, and makes nothing of a text that is in neither.
THEOREM CryptoStaysExact == CryptoInit /\ [][CryptoNext]_cryptoVars => []CryptoIsExact
  <1>1. CryptoInit => CryptoInv
    <2> SUFFICES ASSUME CryptoInit PROVE CryptoInv
      OBVIOUS
    <2>1. part = "none" /\ input = <<>> /\ hasher = NewHasher
      BY DEF CryptoInit
    <2>2. input \in Seq(Fed)
      BY <2>1
    <2>3. Holds(hasher, input)
      BY <2>1, NewHolds
    <2> QED
      BY <2>1, <2>2, <2>3 DEF CryptoInv
  <1>2. CryptoInv /\ [CryptoNext]_cryptoVars => CryptoInv'
    BY CryptoInvStep
  <1>3. CryptoInv => CryptoIsExact
    BY CryptoInvSuffices
  <1> QED
    BY <1>1, <1>2, <1>3, PTL

-----------------------------------------------------------------------------
(***************************************************************************)
(* The clock of one connection.  While a request line or a header block is *)
(* awaited, the time spent on it and the budget left are its whole time,   *)
(* and no read waits longer than the budget: time passes only in a read    *)
(* that waits, so none passes once the budget is used up.                  *)
(***************************************************************************)

USE HttpAssumption

TimesCount == {budget, armed, timer, spent} \subseteq Nat

Statuses == answers \in Seq(Nat)

BudgetInv ==
  /\ TimesCount
  /\ Statuses
  /\ phase = "head" => budget + spent = HeadTimeout /\ timer <= budget
  /\ phase = "fields" => budget + spent = RequestTimeout /\ timer <= budget

\* The lesser of two numbers is one, and no more than the first.
LEMMA LesserIsLess ==
  ASSUME NEW a \in Nat, NEW b \in Nat
  PROVE  Lesser(a, b) \in Nat /\ Lesser(a, b) <= a
  BY DEF Lesser

\* A step that keeps the clock and begins neither a head nor its fields keeps the invariant.
LEMMA ClockKept ==
  ASSUME BudgetInv, UNCHANGED timing, Statuses',
         phase' \in {"head", "fields"} => UNCHANGED <<phase, answers>>
  PROVE  BudgetInv'
  BY DEF BudgetInv, TimesCount, Statuses, timing, HeadTimeout

\* So does one that sets the socket's timeout from what is left.
LEMMA ClockArmed ==
  ASSUME BudgetInv, Arm(budget), UNCHANGED <<budget, spent>>, Statuses',
         phase' \in {"head", "fields"} => UNCHANGED <<phase, answers>>
  PROVE  BudgetInv'
  <1>1. budget \in Nat /\ ReadTimeout \in Nat  BY DEF BudgetInv, TimesCount
  <1>2. armed' \in Nat /\ timer' \in Nat /\ timer' <= budget'
    BY <1>1, LesserIsLess DEF Arm
  <1> QED  BY <1>2 DEF BudgetInv, TimesCount, HeadTimeout

\* A reader's step keeps the timer within what is left of the budget.
LEMMA ReadingKeepsBudget ==
  ASSUME BudgetInv, ReadLine \/ ReadBody \/ TimeOut \/ EndOfStream
  PROVE  BudgetInv'
  <1> Statuses
    BY DEF BudgetInv
  <1>1. CASE \E status \in Nat : Fail(status)
    <2>1. Statuses' /\ phase' = "closed"
      BY <1>1, AppendProperties DEF Fail, Statuses
    <2> QED  BY <1>1, <2>1, ClockKept DEF Fail
  <1>2. CASE RequestLine
    <2>1. budget' = RequestTimeout /\ spent' = 0 /\ RequestTimeout \in Nat
      BY <1>2 DEF RequestLine
    <2>2. armed' \in Nat /\ timer' \in Nat /\ timer' <= RequestTimeout
      BY <1>2, <2>1, LesserIsLess DEF RequestLine, Arm
    <2>3. phase' = "fields" /\ UNCHANGED answers
      BY <1>2 DEF RequestLine
    <2> QED  BY <2>1, <2>2, <2>3 DEF BudgetInv, TimesCount, Statuses
  <1>3. CASE BlankLine
    BY <1>3, ClockArmed DEF BlankLine, ReadsNext, Statuses
  <1>4. CASE Field
    BY <1>4, ClockArmed DEF Field, ReadsNext, Statuses
  <1>5. CASE EndOfHead
    <2>1. phase' \notin {"head", "fields"} /\ UNCHANGED <<budget, spent>>
      BY <1>5 DEF EndOfHead
    <2>2. Arm(budget) \/ UNCHANGED <<armed, timer>>
      BY <1>5 DEF EndOfHead
    <2>3. Statuses'
      <3>1. Framing \in Nat  BY DEF Framing
      <3>2. answers' = answers \/ answers' = Append(answers, Framing)
        BY <1>5 DEF EndOfHead
      <3>3. Append(answers, Framing) \in Seq(Nat)
        BY <3>1, AppendProperties DEF Statuses
      <3> QED  BY <3>2, <3>3 DEF Statuses
    <2> QED  BY <2>1, <2>2, <2>3, ClockArmed, ClockKept DEF timing
  <1>6. CASE Octet
    <2>1. phase' \notin {"head", "fields"} /\ UNCHANGED <<budget, spent, answers>>
      BY <1>6 DEF Octet, ReadsNext
    <2>2. Arm(budget) \/ (timer' \in {timer, armed} /\ UNCHANGED armed)
      BY <1>6 DEF Octet
    <2> QED  BY <2>1, <2>2, ClockArmed DEF BudgetInv, TimesCount, Statuses
  <1>7. CASE ChunkEnd \/ ChunkSize
    BY <1>7, ClockArmed DEF ChunkEnd, ChunkSize, Statuses
  <1>8. CASE Trailer
    <2>1. phase' \notin {"head", "fields"} /\ UNCHANGED <<budget, spent, answers>>
      BY <1>8 DEF Trailer, ReadsNext
    <2>2. Arm(budget) \/ UNCHANGED <<armed, timer>>
      BY <1>8 DEF Trailer
    <2> QED  BY <2>1, <2>2, ClockArmed, ClockKept DEF timing, Statuses
  <1>9. TooLong \/ BadRequestLine \/ BadField \/ BadChunk \/ ChunkTooLarge \/ TimeOut
          \/ EndOfStream => \E status \in Nat : Fail(status)
    BY DEF TooLong, BadRequestLine, BadField, BadChunk, ChunkTooLarge, TimeOut, EndOfStream
  <1> QED
    BY <1>1, <1>2, <1>3, <1>4, <1>5, <1>6, <1>7, <1>8, <1>9 DEF ReadLine, ReadBody

\* Config.request_timeout and idle_timeout, for any conversation and any limits: however a
\* client spaces its lines, it holds the reader of a request line no longer than the budget
\* of that line, and then the reader of the header block no longer than the budget of that.
THEOREM HeadsAreInTime == Spec => []HeadInBudget
  <1>1. Init => BudgetInv
    <2> SUFFICES ASSUME Init PROVE BudgetInv  OBVIOUS
    <2>1. Lesser(RequestTimeout, ReadTimeout) \in Nat
          /\ Lesser(RequestTimeout, ReadTimeout) <= RequestTimeout
      BY LesserIsLess
    <2> QED  BY <2>1 DEF Init, BudgetInv, TimesCount, Statuses, HeadTimeout
  <1>2. BudgetInv /\ [Next]_vars => BudgetInv'
    <2> SUFFICES ASSUME BudgetInv, [Next]_vars PROVE BudgetInv'  OBVIOUS
    <2>1. CASE Send \/ StopSending \/ WriteFails \/ UNCHANGED vars
      <3>1. UNCHANGED <<timing, answers>> /\ phase' \in {"closed", phase}
        BY <2>1 DEF Send, StopSending, WriteFails, vars
      <3> QED  BY <3>1, ClockKept DEF BudgetInv, Statuses
    <2>2. CASE Tick
      <3>1. /\ timer > 0 /\ timer' = timer - 1 /\ spent' = spent + 1
            /\ budget' = IF budget > 0 THEN budget - 1 ELSE 0
            /\ UNCHANGED <<phase, answers, armed>>
        BY <2>2 DEF Tick
      <3>2. TimesCount /\ TimesCount' /\ Statuses'
        <4>1. TimesCount /\ Statuses
          BY DEF BudgetInv
        <4>2. TimesCount'
          BY <3>1, <4>1 DEF TimesCount
        <4> QED  BY <3>1, <4>1, <4>2 DEF Statuses
      <3>3. UNCHANGED HeadTimeout
        BY <3>1 DEF HeadTimeout
      <3>4. HeadTimeout \in Nat /\ RequestTimeout \in Nat
        BY DEF HeadTimeout
      <3>5. ASSUME NEW limit \in Nat, budget + spent = limit, timer <= budget
            PROVE  budget' + spent' = limit /\ timer' <= budget'
        BY <3>1, <3>2, <3>5 DEF TimesCount
      <3> QED  BY <3>1, <3>2, <3>3, <3>4, <3>5 DEF BudgetInv
    <2>3. CASE ReadLine \/ ReadBody \/ TimeOut \/ EndOfStream
      BY <2>3, ReadingKeepsBudget
    <2>4. CASE Answer
      <3>1. /\ phase' \in {"head", "closed"} /\ budget' = IdleTimeout /\ spent' = 0
            /\ Arm(IdleTimeout) /\ answers' = Append(answers, 200)
        BY <2>4 DEF Answer
      <3>2. armed' \in Nat /\ timer' \in Nat /\ timer' <= IdleTimeout
        BY <3>1, LesserIsLess DEF Arm
      <3>3. Statuses' /\ answers' # <<>>
        <4>1. answers \in Seq(Nat)
          BY DEF BudgetInv, Statuses
        <4>2. answers' \in Seq(Nat) /\ Len(answers') = Len(answers) + 1 /\ Len(answers) \in Nat
          BY <3>1, <4>1, AppendProperties, LenProperties
        <4> QED  BY <4>2, EmptySeq DEF Statuses
      <3>4. HeadTimeout' = IdleTimeout /\ IdleTimeout \in Nat
        BY <3>3 DEF HeadTimeout
      <3>5. TimesCount'
        BY <3>1, <3>2, <3>3, <3>4 DEF TimesCount
      <3>6. budget' + spent' = IdleTimeout /\ timer' <= budget' /\ phase' # "fields"
        BY <3>1, <3>2, <3>4
      <3> QED  BY <3>3, <3>4, <3>5, <3>6 DEF BudgetInv
    <2> QED  BY <2>1, <2>2, <2>3, <2>4 DEF Next
  <1>3. BudgetInv => HeadInBudget
    BY DEF BudgetInv, TimesCount, HeadInBudget, HeadTimeout
  <1> QED  BY <1>1, <1>2, <1>3, PTL DEF Spec

-----------------------------------------------------------------------------
(***************************************************************************)
(* Signed tokens and deliveries.  A token in the browser was signed before *)
(* its answer was stored and is gone when its Max-Age is over.  A delivery *)
(* carries a signature under every secret that was in force when it was    *)
(* sent, and the process always holds one that is in force now.            *)
(***************************************************************************)

USE SignaturesAssumption

\* A token and the time of its signing, in an answer or in a cookie.
SignedInv(s) ==
  /\ s.signed \in Nat /\ 1 <= s.signed /\ s.signed <= clock
  /\ s.token = JwtSign(s.user, s.signed + TokenLife, s.under)

CookieInv ==
  cookie # Absent =>
    /\ cookie.until \in Nat /\ clock <= cookie.until
    /\ SignedInv(cookie.sent)
    /\ cookie.sent.signed + TokenLife <= cookie.until

KeysInv ==
  /\ inForce \in Seq(Nat) /\ Len(inForce) \in {1, 2}
  /\ \E i \in DOMAIN inForce : endpointSecret = inForce[i]

SignedBy(keys, t) == [t |-> t, v1 |-> [i \in DOMAIN keys |-> ExpectedSignature(keys[i], t)]]

DeliveryInv ==
  delivery # Absent =>
    /\ delivery.sent \in Nat /\ delivery.sent <= clock
    /\ \E skew \in -MaxSkew .. MaxSkew :
         delivery.header = SignedBy(delivery.keys, delivery.sent + skew)

SignedInputInv ==
  /\ clock \in Nat /\ 1 <= clock
  /\ answer # Absent => SignedInv(answer)
  /\ CookieInv /\ KeysInv /\ DeliveryInv

\* What jwt_verify finds in a token of this backend.
LEMMA TokensVerify ==
  ASSUME NEW user, NEW exp \in Nat, exp > 0, NEW under, NEW secret, NEW now \in Nat
  PROVE  LET verdict == JwtVerify(JwtSign(user, exp, under), secret, now)
         IN  /\ JwtSign(user, exp, under)[2][1] = user
             /\ verdict = "forged" <=> under # secret
             /\ verdict = "expired" => now > exp
             /\ verdict = "ok" => now <= exp
  <1> DEFINE token == JwtSign(user, exp, under)
             text == <<"head", <<user, exp>>>>
  <1>1. token = <<text[1], text[2], Hmac(under, text)>>  BY DEF JwtSign
  <1>2. token[2] = <<user, exp>> /\ token[3] = Hmac(under, text)  BY <1>1
  <1>3. SubSeq(token, 1, 2) = text
    <2> HIDE DEF text
    <2>1. SubSeq(token, 1, 2) = <<text[1], text[2]>>  BY <1>1, TakeTwo
    <2> QED  BY <2>1 DEF text
  <1>4. token[3] # Hmac(secret, SubSeq(token, 1, 2)) <=> under # secret
    <2> HIDE DEF text
    <2> QED  BY <1>2, <1>3 DEF Hmac
  <1> HIDE DEF token
  <1>5. JwtVerify(token, secret, now)
          = IF under # secret THEN "forged" ELSE IF now > exp THEN "expired" ELSE "ok"
    BY <1>2, <1>4 DEF JwtVerify
  <1> QED  BY <1>2, <1>5 DEF token

\* What verify_signature finds in a delivery.
LEMMA DeliveriesVerify ==
  ASSUME NEW keys, NEW t \in Int, NEW secret, NEW now \in Int
  PROVE  VerifySignature(SignedBy(keys, t), secret, now) <=>
           /\ now - t <= WebhookTolerance /\ t - now <= WebhookTolerance
           /\ \E i \in DOMAIN keys : keys[i] = secret
  <1>1. SignedBy(keys, t).t = t  BY DEF SignedBy
  <1>2. Candidates(SignedBy(keys, t).v1) = {<<keys[i], t>> : i \in DOMAIN keys}
    BY DEF SignedBy, Candidates, ExpectedSignature, Hmac
  <1>3. <<secret, t>> \in {<<keys[i], t>> : i \in DOMAIN keys}
          <=> \E i \in DOMAIN keys : keys[i] = secret
    OBVIOUS
  <1> QED  BY <1>1, <1>2, <1>3 DEF VerifySignature, ExpectedSignature, Hmac

\* What is signed, stored and in force stays in agreement through every step.
LEMMA SignedInputKept ==
  SignedInputInv /\ [SignaturesNext]_signatureVars => SignedInputInv'
  <1> SUFFICES ASSUME SignedInputInv, [SignaturesNext]_signatureVars PROVE SignedInputInv'
    OBVIOUS
  <1>0. /\ clock \in Nat /\ 1 <= clock /\ TokenLife \in Nat /\ MaxSkew \in Nat
        /\ answer # Absent => SignedInv(answer)
        /\ CookieInv /\ KeysInv /\ DeliveryInv
    BY DEF SignedInputInv
  <1>1. CASE Second
    <2>1. cookie' = Absent \/ (cookie' = cookie /\ ~(clock' >= cookie.until))
            \/ (cookie' = cookie /\ cookie = Absent)
      BY <1>0, <1>1 DEF Second
    <2>2. CookieInv'  BY <1>0, <1>1, <2>1 DEF Second, CookieInv, SignedInv
    <2>3. (answer # Absent => SignedInv(answer))'  BY <1>0, <1>1 DEF Second, SignedInv
    <2>4. DeliveryInv'  BY <1>0, <1>1 DEF Second, DeliveryInv
    <2> QED  BY <1>0, <1>1, <2>2, <2>3, <2>4 DEF Second, KeysInv, SignedInputInv
  <1>2. CASE SignIn
    <2>1. PICK user \in Visitors :
            answer' = [at |-> "answer", user |-> user, signed |-> clock, under |-> jwtSecret,
                       token |-> JwtSign(user, clock + TokenLife, jwtSecret)]
      BY <1>0, <1>2 DEF SignIn
    <2>2. SignedInv(answer)'  BY <1>0, <1>2, <2>1 DEF SignedInv, SignIn
    <2> QED  BY <1>0, <1>2, <2>2 DEF SignIn, CookieInv, SignedInv, KeysInv, DeliveryInv, SignedInputInv
  <1>3. CASE Store
    BY SMTT(30), <1>0, <1>3 DEF Store, SignedInv, CookieInv, KeysInv, DeliveryInv, SignedInputInv
  <1>4. CASE SignOut \/ Arrive
    BY <1>0, <1>4 DEF SignOut, Arrive, SignedInv, CookieInv, KeysInv, DeliveryInv, SignedInputInv
  <1>5. CASE RollSecret
    <2>1. KeysInv'
      <3>1. inForce[1] \in Nat /\ inForce[1] + 1 \in Nat  BY <1>0, <1>5 DEF RollSecret, KeysInv
      <3>2. inForce' = Append(inForce, inForce[1] + 1) /\ Len(inForce) = 1
        BY <1>5 DEF RollSecret
      <3>3. inForce' \in Seq(Nat) /\ Len(inForce') = 2 /\ inForce'[1] = inForce[1]
        BY <1>0, <3>1, <3>2, SecondKey DEF KeysInv
      <3>4. endpointSecret' = inForce'[1]  BY <1>0, <1>5, <3>3 DEF RollSecret, KeysInv
      <3> QED  BY <1>0, <3>3, <3>4 DEF KeysInv
    <2> QED  BY <1>0, <1>5, <2>1 DEF RollSecret, SignedInv, CookieInv, DeliveryInv, SignedInputInv
  <1>6. CASE Restarted
    BY <1>0, <1>6 DEF Restarted, SignedInv, CookieInv, KeysInv, DeliveryInv, SignedInputInv
  <1>7. CASE OverlapEnds
    <2>1. KeysInv'
      <3>1. inForce \in Seq(Nat) /\ Len(inForce) = 2 /\ inForce' = Tail(inForce)
        BY <1>0, <1>7 DEF OverlapEnds, KeysInv
      <3>2. inForce' \in Seq(Nat) /\ Len(inForce') = 1 /\ inForce'[1] = inForce[2]
        BY <3>1, FirstKeyGoes
      <3>3. endpointSecret' = inForce'[1]  BY <1>7, <3>2 DEF OverlapEnds
      <3>4. 1 \in DOMAIN inForce'  BY <3>2
      <3> QED  BY <3>2, <3>3, <3>4 DEF KeysInv
    <2> QED  BY <1>0, <1>7, <2>1 DEF OverlapEnds, SignedInv, CookieInv, DeliveryInv, SignedInputInv
  <1>8. CASE SendEvent
    <2>1. PICK skew \in -MaxSkew .. MaxSkew :
            delivery' = [at |-> "underway", sent |-> clock, keys |-> inForce,
                         header |-> SigHeader(clock + skew)]
      BY <1>0, <1>8 DEF SendEvent
    <2>2. DeliveryInv'
      BY <1>0, <1>8, <2>1 DEF SendEvent, DeliveryInv, SigHeader, SignedBy
    <2> QED  BY <1>0, <1>8, <2>2 DEF SendEvent, SignedInv, CookieInv, KeysInv, SignedInputInv
  <1>9. CASE UNCHANGED signatureVars
    BY <1>0, <1>9 DEF signatureVars, SignedInv, CookieInv, KeysInv, DeliveryInv, SignedInputInv
  <1> QED  BY <1>1, <1>2, <1>3, <1>4, <1>5, <1>6, <1>7, <1>8, <1>9 DEF SignaturesNext

\* That agreement decides each verdict as SignaturesHold asks.
LEMMA SignedInputSuffices == SignedInputInv => SignaturesHold
  <1> SUFFICES ASSUME SignedInputInv PROVE SignaturesHold  OBVIOUS
  <1>0. clock \in Nat /\ TokenLife \in Nat /\ MaxSkew \in Nat /\ WebhookTolerance \in Nat
    BY DEF SignedInputInv
  <1>1. ASSUME cookie # Absent
        PROVE  LET s == cookie.sent
                   verdict == JwtVerify(s.token, jwtSecret, clock)
               IN  /\ s.token[2][1] = s.user
                   /\ verdict = "forged" <=> s.under # jwtSecret
                   /\ verdict = "expired" => cookie.until - TokenLife > s.signed
                   /\ verdict = "ok" => clock - s.signed <= TokenLife
    <2> DEFINE s == cookie.sent
               exp == s.signed + TokenLife
    <2>1. /\ cookie.until \in Nat /\ clock <= cookie.until /\ exp <= cookie.until
          /\ s.signed \in Nat /\ 1 <= s.signed
          /\ s.token = JwtSign(s.user, exp, s.under)
      BY <1>1 DEF SignedInputInv, CookieInv, SignedInv
    <2>2. exp \in Nat /\ exp > 0  BY <1>0, <2>1
    <2> HIDE DEF exp
    <2>3. LET verdict == JwtVerify(s.token, jwtSecret, clock)
          IN  /\ s.token[2][1] = s.user
              /\ verdict = "forged" <=> s.under # jwtSecret
              /\ verdict = "expired" => clock > exp
              /\ verdict = "ok" => clock <= exp
      BY <1>0, <2>1, <2>2, TokensVerify
    <2> QED  BY <1>0, <2>1, <2>2, <2>3 DEF exp
  <1>2. ASSUME NEW skew \in -MaxSkew .. MaxSkew
        PROVE  Verified(SigHeader(clock + skew))
    <2>1. SigHeader(clock + skew) = SignedBy(inForce, clock + skew)
      BY DEF SigHeader, SignedBy
    <2>2. \E i \in DOMAIN inForce : inForce[i] = endpointSecret
      BY DEF SignedInputInv, KeysInv
    <2> QED  BY <1>0, <2>1, <2>2, DeliveriesVerify DEF Verified
  <1>3. ASSUME delivery # Absent
        PROVE  LET late == clock - delivery.sent
                   held == \E i \in DOMAIN delivery.keys : delivery.keys[i] = endpointSecret
               IN  /\ held /\ late + MaxSkew <= WebhookTolerance => Verified(delivery.header)
                   /\ Verified(delivery.header) => held /\ late <= WebhookTolerance + MaxSkew
    <2>1. delivery.sent \in Nat /\ delivery.sent <= clock
      BY <1>3 DEF SignedInputInv, DeliveryInv
    <2>2. PICK skew \in -MaxSkew .. MaxSkew :
            delivery.header = SignedBy(delivery.keys, delivery.sent + skew)
      BY <1>3 DEF SignedInputInv, DeliveryInv
    <2> DEFINE held == \E i \in DOMAIN delivery.keys : delivery.keys[i] = endpointSecret
    <2>3. Verified(delivery.header) <=>
            /\ clock - (delivery.sent + skew) <= WebhookTolerance
            /\ (delivery.sent + skew) - clock <= WebhookTolerance
            /\ held
      BY <1>0, <2>1, <2>2, DeliveriesVerify DEF Verified
    <2> HIDE DEF held
    <2>4. /\ held /\ clock - delivery.sent + MaxSkew <= WebhookTolerance
                => Verified(delivery.header)
          /\ Verified(delivery.header)
                => held /\ clock - delivery.sent <= WebhookTolerance + MaxSkew
      BY <1>0, <2>1, <2>3
    <2> QED  BY <2>4 DEF held
  <1> QED  BY <1>1, <1>2, <1>3 DEF SignaturesHold

\* jwt_verify() and verify_signature(), for any lives, tolerances and clocks: a session is
\* its user's and honoured no longer than its life, and rolling the endpoint secret, with
\* restarts and late deliveries in any order, refuses no fresh delivery and accepts no
\* stale one.
THEOREM SignaturesAreRight ==
  SignaturesInit /\ [][SignaturesNext]_signatureVars => []SignaturesHold
  <1>1. SignaturesInit => SignedInputInv
    BY DEF SignaturesInit, SignedInputInv, CookieInv, KeysInv, DeliveryInv
  <1> QED  BY <1>1, SignedInputKept, SignedInputSuffices, PTL

=============================================================================
