------------------------------- MODULE Crypto -------------------------------
(***************************************************************************)
(* crypto.rs around its arithmetic: the streaming hasher, which buffers    *)
(* what does not fill a block and pads the end, and Base64 in its two      *)
(* alphabets.  The compression function is ideal: a chaining value is      *)
(* known by the blocks that were compressed.                               *)
(***************************************************************************)
EXTENDS Integers, Sequences, SequencesExt

CONSTANTS
  BlockLen,      \* SHA256_BLOCK_LEN
  SuffixLen,     \* octets of the length at the end of the last block
  MaxMessage,    \* bound on the octets hashed
  Octets,        \* octets to encode
  MaxOctets,     \* bound on how many
  Symbols,       \* characters to decode
  MaxSymbols     \* bound on how many

VARIABLES
  part,      \* "hash", "encode" or "decode"
  input,     \* what has been fed in
  hasher     \* Sha256

ASSUME CryptoAssumption ==
  /\ BlockLen \in Nat /\ SuffixLen \in 1 .. BlockLen - 1
  /\ MaxMessage \in Nat /\ MaxOctets \in Nat /\ MaxSymbols \in Nat
  /\ Octets \subseteq 0 .. 255
  /\ Symbols \subseteq 0 .. 67

cryptoVars == <<part, input, hasher>>

-----------------------------------------------------------------------------
\* The octets a hasher sees, by what they are: the i-th of the message, a zero, 0x80, the
\* i-th of the length in bits.
Message(i) == <<"message", i, 0>>
Zero == <<"zero", 0, 0>>
Mark == <<"mark", 0, 0>>
Length(bits, i) == <<"length", bits, i>>

\* Sha256::new().
NewHasher ==
  [blocks |-> <<>>, buf |-> [i \in 1 .. BlockLen |-> Zero], held |-> 0, total |-> 0]

\* update(): the partial block is topped up first; take octets of data go into it.
TopUp(h, data, take) ==
  LET buf == [i \in 1 .. BlockLen |->
                IF i \in h.held + 1 .. h.held + take THEN data[i - h.held] ELSE h.buf[i]]
  IN  IF h.held + take = BlockLen
      THEN [h EXCEPT !.buf = buf, !.held = 0, !.blocks = Append(@, buf)]
      ELSE [h EXCEPT !.buf = buf, !.held = @ + take]

\* Whole blocks are compressed where they are.
Blocks(data) ==
  [k \in 1 .. Len(data) \div BlockLen |-> SubSeq(data, (k - 1) * BlockLen + 1, k * BlockLen)]

\* What is left, if anything, goes to the front of buf.
Keep(h, rest) ==
  IF rest = <<>> THEN h
  ELSE [h EXCEPT !.held = Len(rest),
                 !.buf = [i \in 1 .. BlockLen |-> IF i <= Len(rest) THEN rest[i] ELSE @[i]]]

Update(h, data) ==
  LET room == BlockLen - h.held
      take == IF h.held = 0 THEN 0 ELSE IF Len(data) < room THEN Len(data) ELSE room
      rest == SubSeq(data, take + 1, Len(data))
      whole == Len(rest) - (Len(rest) % BlockLen)
      topped == TopUp([h EXCEPT !.total = @ + Len(data)], data, take)
  IN  Keep([topped EXCEPT !.blocks = @ \o Blocks(rest)], SubSeq(rest, whole + 1, Len(rest)))

\* Plausible bug: < 56 became <= 56.
PadLenOffByOne(held) ==
  IF held <= BlockLen - SuffixLen THEN BlockLen - SuffixLen - held
  ELSE 2 * BlockLen - SuffixLen - held

PadLen(held) ==
  IF held < BlockLen - SuffixLen THEN BlockLen - SuffixLen - held
  ELSE 2 * BlockLen - SuffixLen - held

\* finalize(): the length is written over the zeros at the end of the padding.
Finalize(h) ==
  LET padLen == PadLen(h.held)
      padding == [i \in 1 .. padLen + SuffixLen |->
                    IF i > padLen THEN Length(8 * h.total, i - padLen)
                    ELSE IF i = 1 THEN Mark ELSE Zero]
  IN  Update(h, padding).blocks

-----------------------------------------------------------------------------
\* A character by its place in the standard alphabet, 64 and 65 for the two that the URL
\* alphabet has instead of the last; Other is in neither.
Pad == 66
Other == 67

Shown(sextet, url) == IF url /\ sextet >= 62 THEN sextet + 2 ELSE sextet

\* b64_val(), of a character of an alphabet.
B64Val(c) == IF c >= 64 THEN c - 2 ELSE c

Alphabet == 0 .. 65

\* s[i .. j], as far as s goes.
Chunk(s, i, size) == SubSeq(s, i, IF i + size - 1 < Len(s) THEN i + size - 1 ELSE Len(s))

Chunks(s, size) == [k \in 1 .. (Len(s) + size - 1) \div size |-> Chunk(s, (k - 1) * size + 1, size)]

\* b64_encode_with(), of one chunk: a character more than it has octets, and the padding.
EncodeChunk(chunk, url, pad) ==
  LET At(i) == IF i <= Len(chunk) THEN chunk[i] ELSE 0
      n == At(1) * 65536 + At(2) * 256 + At(3)
      digits == <<n \div 262144, (n \div 4096) % 64, (n \div 64) % 64, n % 64>>
  IN  [i \in 1 .. IF pad THEN 4 ELSE Len(chunk) + 1 |->
         IF i <= Len(chunk) + 1 THEN Shown(digits[i], url) ELSE Pad]

Encode(octets, url, pad) ==
  LET chunks == Chunks(octets, 3)
  IN  FlattenSeq([k \in DOMAIN chunks |-> EncodeChunk(chunks[k], url, pad)])

\* trim_end_matches('=').
Trimmed(text) ==
  SubSeq(text, 1, CHOOSE n \in 0 .. Len(text) :
                    /\ n > 0 => text[n] # Pad
                    /\ \A i \in n + 1 .. Len(text) : text[i] = Pad)

\* b64_decode_any(), of one group: an octet less than it has characters.
DecodeGroup(group) ==
  LET At(i) == IF i <= Len(group) THEN B64Val(group[i]) ELSE 0
      n == At(1) * 262144 + At(2) * 4096 + At(3) * 64 + At(4)
      octets == <<n \div 65536, (n \div 256) % 256, n % 256>>
  IN  [i \in 1 .. Len(group) - 1 |-> octets[i]]

\* The octets, or nothing.
Decode(text) ==
  LET b == Trimmed(text)
      groups == Chunks(b, 4)
  IN  IF Len(b) % 4 = 1 \/ \E i \in DOMAIN b : b[i] \notin Alphabet THEN {}
      ELSE {FlattenSeq([k \in DOMAIN groups |-> DecodeGroup(groups[k])])}

-----------------------------------------------------------------------------
CryptoInit == part = "none" /\ input = <<>> /\ hasher = NewHasher

PickPart ==
  /\ part = "none"
  /\ part' \in {"hash", "encode", "decode"}
  /\ UNCHANGED <<input, hasher>>

\* One call of update(), of any length.
Feed ==
  /\ part = "hash"
  /\ \E n \in 0 .. MaxMessage - Len(input) :
       LET data == [i \in 1 .. n |-> Message(Len(input) + i)]
       IN  input' = input \o data /\ hasher' = Update(hasher, data)
  /\ UNCHANGED part

OneMore ==
  /\ \/ part = "encode" /\ Len(input) < MaxOctets /\ \E x \in Octets : input' = Append(input, x)
     \/ part = "decode" /\ Len(input) < MaxSymbols /\ \E x \in Symbols : input' = Append(input, x)
  /\ UNCHANGED <<part, hasher>>

CryptoNext == PickPart \/ Feed \/ OneMore

-----------------------------------------------------------------------------
\* FIPS 180-4: the mark, as few zeros as fill a block with the length, the length.
Padded(message) ==
  LET zeros == CHOOSE k \in 0 .. BlockLen - 1 :
                 (Len(message) + 1 + k + SuffixLen) % BlockLen = 0
  IN  message \o <<Mark>> \o [i \in 1 .. zeros |-> Zero]
      \o [i \in 1 .. SuffixLen |-> Length(8 * Len(message), i)]

\* The bits of numbers of that width, the highest first.
Weight == <<1, 2, 4, 8, 16, 32, 64, 128>>

Bits(numbers, width) ==
  [i \in 1 .. width * Len(numbers) |->
     (numbers[(i - 1) \div width + 1] \div Weight[width - ((i - 1) % width)]) % 2]

\* update(): "Chunk boundaries never affect the digest", which is that of the padded
\* message.  b64_decode_any(): what either alphabet encodes, padded or not, comes back,
\* and what is decoded is the bits the characters stand for; every other text is refused.
CryptoIsExact ==
  /\ part = "hash" => Finalize(hasher) = Blocks(Padded(input))
  /\ part = "encode" =>
       \A url, pad \in BOOLEAN :
         Decode(Encode(input, url, pad)) = {input}
  /\ part = "decode" =>
       LET b == Trimmed(input)
           stands == Bits([i \in DOMAIN b |-> B64Val(b[i])], 6)
           whole == Len(stands) - (Len(stands) % 8)
       IN  IF Len(b) % 4 # 1 /\ \A i \in DOMAIN b : b[i] \in Alphabet
           THEN \E octets \in Decode(input) : Bits(octets, 8) = SubSeq(stands, 1, whole)
           ELSE Decode(input) = {}

=============================================================================
