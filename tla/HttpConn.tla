------------------------------ MODULE HttpConn ------------------------------
(***************************************************************************)
(* One connection of http.rs: handle_connection and the request reader     *)
(* under it.  The client sends the bytes of a conversation piece by piece  *)
(* and may stop anywhere; the reader finds the end of each request in them *)
(* and stops waiting when a limit is reached.                              *)
(*                                                                         *)
(* The stream is a sequence of pieces: a whole line, or one octet of a     *)
(* body.  Sizes are counted in pieces.  A body may hold any piece, one     *)
(* that would read as a request line included.                             *)
(***************************************************************************)
EXTENDS Integers, Sequences, FiniteSets, FiniteSetsExt, SequencesExt

CONSTANTS
  Conversations,  \* sequences of requests a client may send
  MaxHead,        \* max_header_bytes
  MaxBody,        \* max_body_bytes
  RequestTimeout, \* request_timeout, in ticks
  IdleTimeout,    \* idle_timeout
  ReadTimeout     \* read_timeout

ASSUME HttpAssumption ==
  /\ {MaxHead, MaxBody} \subseteq Nat
  /\ {RequestTimeout, IdleTimeout, ReadTimeout} \subseteq Nat \ {0}

(***************************************************************************)
(* A request is a record of the blank lines before it, its request line,   *)
(* its header fields, its body in chunks, and the line it ends a chunk     *)
(* with.  Pieces are pairs: a Content-Length comes with its number, a      *)
(* Connection with its set of tokens.                                      *)
(***************************************************************************)
Eol == <<"line", "empty">>
Chunked == <<"transfer-encoding", "chunked">>

Lengths(fields) == SelectSeq(fields, LAMBDA f : f[1] = "content-length")
Codings(fields) == SelectSeq(fields, LAMBDA f : f[1] = "transfer-encoding")
Connections(fields) == SelectSeq(fields, LAMBDA f : f[1] = "connection")

NotANumber == -1      \* a Content-Length that does not parse

\* Headers.get: of several Connection fields only the first is looked at.
HasToken(fields, token) ==
  Connections(fields) # <<>> /\ token \in Connections(fields)[1][2]

BodyOf(r) == FlattenSeq(r.chunks)

\* The body as it is sent: with a transfer coding, in chunks.
BodyWire(r) ==
  LET chunk(c) == << <<"size", Len(c)>> >> \o c \o <<r.end>>
  IN  IF Codings(r.fields) = <<>> THEN BodyOf(r)
      ELSE FlattenSeq([i \in DOMAIN r.chunks |-> chunk(r.chunks[i])])
           \o << <<"size", 0>>, Eol >>

Wire(r) ==
  [i \in 1 .. r.blank |-> Eol] \o <<r.line>> \o r.fields \o <<Eol>> \o BodyWire(r)

\* What the client sends can be told apart again: no line but its last is empty, and a
\* body has the length it is announced with; announced with two lengths or none that
\* parses, any.
Legible(r) ==
  LET lens == Lengths(r.fields) IN
  /\ r.blank \in Nat /\ r.line # Eol
  /\ r.fields \in Seq(ToSet(r.fields)) /\ Eol \notin ToSet(r.fields)
  /\ r.chunks \in Seq(ToSet(r.chunks))
  /\ \A c \in ToSet(r.chunks) : c \in Seq(ToSet(c))
  /\ IF Codings(r.fields) # <<>> THEN <<>> \notin ToSet(r.chunks)
     ELSE IF lens = <<>> THEN BodyOf(r) = <<>>
     ELSE (\A l \in ToSet(lens) : l = lens[1]) /\ lens[1][2] # NotANumber
            => lens[1] = <<"content-length", Len(BodyOf(r))>>

ASSUME ConversationsAssumption ==
  \A talk \in Conversations :
    talk \in Seq(ToSet(talk)) /\ \A r \in ToSet(talk) : Legible(r)

VARIABLES
  conversation, \* what the client sends, request after request
  sent,         \* pieces that have arrived
  eof,          \* the client has stopped sending
  pos,          \* pieces read
  phase,        \* what the reader waits for
  used,         \* header bytes counted
  fields,       \* the header fields read
  version,
  body,         \* the body read
  want,         \* octets read_exact is still to read
  handled,      \* requests given to the handler
  answers,      \* statuses written
  budget,       \* what is left until the deadline
  armed,        \* the socket's read timeout
  timer,        \* what is left of it in this read
  spent         \* ticks since the reader began to wait for this head, then for its fields

timing == <<budget, armed, timer, spent>>
head == <<used, fields, version>>
client == <<conversation, sent, eof>>
vars == <<client, pos, phase, head, body, want, handled, answers, timing>>

stream == FlattenSeq([i \in DOMAIN conversation |-> Wire(conversation[i])])

Lesser(a, b) == IF a < b THEN a ELSE b

\* Plausible bug: read_timeout alone, which every piece that arrives starts anew.
ArmReadTimeout(left) == armed' = ReadTimeout /\ timer' = ReadTimeout

\* arm_read_timeout, before a line, a body and a chunk: no longer than the budget.
Arm(left) ==
  /\ armed' = Lesser(left, ReadTimeout)
  /\ timer' = Lesser(left, ReadTimeout)

Init ==
  /\ conversation \in Conversations
  /\ sent = 0 /\ eof = FALSE /\ pos = 0
  /\ phase = "head"
  /\ used = 0 /\ fields = <<>> /\ version = "1.1"
  /\ body = <<>> /\ want = 0
  /\ handled = <<>> /\ answers = <<>>
  /\ budget = RequestTimeout /\ spent = 0
  /\ armed = Lesser(RequestTimeout, ReadTimeout) /\ timer = armed

-----------------------------------------------------------------------------
(***************************************************************************)
(* The client and the clock.                                               *)
(***************************************************************************)

Send ==
  /\ sent < Len(stream) /\ ~eof
  /\ sent' = sent + 1
  /\ UNCHANGED <<conversation, eof, pos, phase, head, body, want, handled, answers, timing>>

StopSending ==
  /\ ~eof
  /\ eof' = TRUE
  /\ UNCHANGED <<conversation, sent, pos, phase, head, body, want, handled, answers, timing>>

Reading == phase \notin {"handler", "closed"}

Tick ==
  /\ Reading /\ timer > 0
  /\ timer' = timer - 1
  /\ budget' = IF budget > 0 THEN budget - 1 ELSE 0
  /\ spent' = spent + 1
  /\ UNCHANGED <<client, pos, phase, head, body, want, handled, answers, armed>>

-----------------------------------------------------------------------------
(***************************************************************************)
(* The reader.                                                             *)
(***************************************************************************)

Available == pos < sent

\* The next piece, read in this phase, before the time is up.
ReadsNext(p) == phase = p /\ armed > 0 /\ Available /\ pos' = pos + 1

Piece == stream[pos + 1]

\* An error answer; status 0 closes silently.
Fail(status) ==
  /\ phase' = "closed"
  /\ answers' = IF status = 0 THEN answers ELSE Append(answers, status)
  /\ UNCHANGED <<client, head, body, want, handled, timing>>

\* TimedOut, EOF: read_line_limited and read_exact_timed; a head not begun closes silently.
TimeOut ==
  /\ Reading /\ UNCHANGED pos
  /\ armed = 0 \/ (timer = 0 /\ ~Available)
  /\ Fail(IF phase = "head" THEN 0 ELSE 408)

EndOfStream ==
  /\ Reading /\ armed > 0 /\ ~Available /\ eof /\ UNCHANGED pos
  /\ Fail(0)

\* read_line_limited: a line counts against the limit before it is looked at.
Fits == used < MaxHead

TooLong ==
  /\ phase \in {"head", "fields", "trailer"} /\ ReadsNext(phase)
  /\ ~Fits
  /\ Fail(431)

\* Stray empty lines before the request line.
BlankLine ==
  /\ ReadsNext("head") /\ Fits /\ Piece = Eol
  /\ used' = used + 1
  /\ Arm(budget)
  /\ UNCHANGED <<client, phase, fields, version, body, want, handled, answers, budget, spent>>

\* The request line; then the budget of the request starts.
RequestLine ==
  /\ ReadsNext("head") /\ Fits
  /\ Piece \in {<<"line", "1.1">>, <<"line", "1.0">>}
  /\ version' = Piece[2]
  /\ used' = used + 1
  /\ phase' = "fields"
  /\ budget' = RequestTimeout /\ spent' = 0
  /\ Arm(RequestTimeout)
  /\ UNCHANGED <<client, fields, body, want, handled, answers>>

BadRequestLine ==
  /\ ReadsNext("head") /\ Fits
  /\ Piece \notin {Eol, <<"line", "1.1">>, <<"line", "1.0">>}
  /\ Fail(IF Piece = <<"line", "2.0">> THEN 505 ELSE 400)

FieldNames == {"content-length", "transfer-encoding", "connection", "x"}

Field ==
  /\ ReadsNext("fields") /\ Fits /\ Piece[1] \in FieldNames
  /\ fields' = Append(fields, Piece)
  /\ used' = used + 1
  /\ Arm(budget)
  /\ UNCHANGED <<client, phase, version, body, want, handled, answers, budget, spent>>

BadField ==
  /\ ReadsNext("fields") /\ Fits /\ Piece # Eol /\ Piece[1] \notin FieldNames
  /\ Fail(400)

\* Plausible bug: Content-Length wins over Transfer-Encoding.
LengthFirst ==
  LET lens == Lengths(fields)  te == Codings(fields) IN
  IF lens # <<>> THEN IF lens[1][2] = NotANumber \/ \E l \in ToSet(lens) : l # lens[1] THEN 400
                      ELSE IF lens[1][2] > MaxBody THEN 413 ELSE 0
  ELSE IF te # <<>> /\ te[1] # Chunked THEN 501 ELSE 0

\* read_body's refusals, or 0.
Framing ==
  LET lens == Lengths(fields)  te == Codings(fields) IN
  IF te # <<>> /\ lens # <<>> THEN 400
  ELSE IF te # <<>> THEN IF te[1] # Chunked THEN 501 ELSE 0
  ELSE IF lens = <<>> THEN 0
  ELSE IF \E l \in ToSet(lens) : l # lens[1] THEN 400
  ELSE IF lens[1][2] = NotANumber THEN 400
  ELSE IF lens[1][2] > MaxBody THEN 413 ELSE 0

HandOver == handled' = Append(handled, [fields |-> fields, body |-> body'])

\* The end of the header block: read_body decides how the body ends.
EndOfHead ==
  /\ ReadsNext("fields") /\ Fits /\ Piece = Eol
  /\ used' = used + 1
  /\ IF Framing # 0
     THEN /\ phase' = "closed" /\ answers' = Append(answers, Framing)
          /\ UNCHANGED <<body, want, handled, armed, timer>>
     ELSE LET lens == Lengths(fields) IN
          /\ UNCHANGED <<body, answers>>
          /\ IF lens # <<>>
             THEN /\ want' = lens[1][2]
                  /\ phase' = IF want' = 0 THEN "handler" ELSE "octets"
                  /\ IF want' = 0 THEN HandOver ELSE UNCHANGED handled
                  /\ Arm(budget)
             ELSE IF Codings(fields) # <<>>
             THEN phase' = "size" /\ Arm(budget) /\ UNCHANGED <<want, handled>>
             ELSE phase' = "handler" /\ HandOver /\ UNCHANGED <<want, armed, timer>>
  /\ UNCHANGED <<client, fields, version, budget, spent>>

\* read_exact, armed once: every piece starts the socket's timeout anew, not the budget.
Octet ==
  /\ ReadsNext("octets")
  /\ body' = Append(body, Piece)
  /\ want' = want - 1
  /\ IF want' > 0
     THEN timer' = armed /\ UNCHANGED <<armed, phase, handled>>
     ELSE IF Lengths(fields) # <<>>
     THEN phase' = "handler" /\ HandOver /\ UNCHANGED <<armed, timer>>
     ELSE phase' = "crlf" /\ Arm(budget) /\ UNCHANGED handled
  /\ UNCHANGED <<client, head, answers, budget, spent>>

\* read_chunked: the two octets after a chunk.
ChunkEnd ==
  /\ ReadsNext("crlf") /\ Piece = Eol
  /\ phase' = "size"
  /\ Arm(budget)
  /\ UNCHANGED <<client, head, body, want, handled, answers, budget, spent>>

BadChunk ==
  /\ \/ ReadsNext("crlf") /\ Piece # Eol
     \/ ReadsNext("size") /\ Piece[1] # "size"
  /\ Fail(400)

ChunkSize ==
  /\ ReadsNext("size") /\ Piece[1] = "size"
  /\ Len(body) + Piece[2] <= MaxBody
  /\ want' = Piece[2]
  /\ phase' = IF want' = 0 THEN "trailer" ELSE "octets"
  /\ Arm(budget)
  /\ UNCHANGED <<client, head, body, handled, answers, budget, spent>>

ChunkTooLarge ==
  /\ ReadsNext("size") /\ Piece[1] = "size"
  /\ Len(body) + Piece[2] > MaxBody
  /\ Fail(413)

\* Trailer lines count as header bytes and are dropped.
Trailer ==
  /\ ReadsNext("trailer") /\ Fits
  /\ used' = used + 1
  /\ UNCHANGED body
  /\ IF Piece = Eol
     THEN phase' = "handler" /\ HandOver /\ UNCHANGED <<armed, timer>>
     ELSE Arm(budget) /\ UNCHANGED <<phase, handled>>
  /\ UNCHANGED <<client, fields, version, want, answers, budget, spent>>

-----------------------------------------------------------------------------
(***************************************************************************)
(* handle_connection: the handler, its answer, and the next request.       *)
(***************************************************************************)

KeepAlive ==
  /\ ~HasToken(fields, "close")
  /\ version = "1.1" \/ HasToken(fields, "keep-alive")

\* Plausible bug: the fields of the request before are not forgotten.
AnswerKeepingFields ==
  /\ phase = "handler"
  /\ answers' = Append(answers, 200)
  /\ phase' = IF KeepAlive THEN "head" ELSE "closed"
  /\ used' = 0 /\ body' = <<>> /\ want' = 0
  /\ budget' = IdleTimeout /\ spent' = 0
  /\ Arm(IdleTimeout)
  /\ UNCHANGED <<client, pos, fields, version, handled>>

\* One answer per request, a panic of the handler's included; HTTP/1.0 and close end it.
Answer ==
  /\ phase = "handler"
  /\ answers' = Append(answers, 200)
  /\ phase' = IF KeepAlive THEN "head" ELSE "closed"
  /\ used' = 0 /\ fields' = <<>> /\ version' = "1.1" /\ body' = <<>> /\ want' = 0
  /\ budget' = IdleTimeout /\ spent' = 0
  /\ Arm(IdleTimeout)
  /\ UNCHANGED <<client, pos, handled>>

\* The answer cannot be written.
WriteFails ==
  /\ phase = "handler"
  /\ phase' = "closed"
  /\ UNCHANGED <<client, pos, head, body, want, handled, answers, timing>>

ReadLine ==
  \/ BlankLine \/ RequestLine \/ BadRequestLine \/ Field \/ BadField \/ EndOfHead \/ TooLong

ReadBody == Octet \/ ChunkEnd \/ BadChunk \/ ChunkSize \/ ChunkTooLarge \/ Trailer

Next ==
  \/ Send \/ StopSending \/ Tick
  \/ ReadLine \/ ReadBody \/ TimeOut \/ EndOfStream
  \/ Answer \/ WriteFails

Spec == Init /\ [][Next]_vars

-----------------------------------------------------------------------------
(***************************************************************************)
(* What the conversation means, whatever its pieces look like.             *)
(***************************************************************************)

WellFormed(r) ==
  LET lens == Lengths(r.fields)  te == Codings(r.fields)
      trailer == IF te = <<>> THEN 0 ELSE 1
  IN  /\ r.line \in {<<"line", "1.1">>, <<"line", "1.0">>}
      /\ \A f \in ToSet(r.fields) : f[1] \in FieldNames
      /\ r.blank + Len(r.fields) + 2 + trailer <= MaxHead
      /\ lens = <<>> \/ te = <<>>
      /\ te # <<>> => te[1] = Chunked /\ (r.chunks # <<>> => r.end = Eol)
      /\ lens # <<>> => lens[1] = <<"content-length", Len(BodyOf(r))>>
      /\ \A l \in ToSet(lens) : l = lens[1]
      /\ Len(BodyOf(r)) <= MaxBody

Stays(r) ==
  /\ ~HasToken(r.fields, "close")
  /\ r.line = <<"line", "1.1">> \/ HasToken(r.fields, "keep-alive")

\* The requests a server must see: up to one it must refuse, or that ends the connection.
Meant ==
  LET n == {i \in 0 .. Len(conversation) :
              /\ \A j \in 1 .. i : WellFormed(conversation[j])
              /\ \A j \in 1 .. i - 1 : Stays(conversation[j])}
  IN  [i \in 1 .. Max(n) |-> [fields |-> conversation[i].fields,
                              body |-> BodyOf(conversation[i])]]

(***************************************************************************)
(* Properties.                                                             *)
(***************************************************************************)

\* read_request, read_body, read_chunked: "reject instead of guessing": however the bytes
\* arrive, the handler gets the requests the client sent, in order, each with its own
\* body, none made of the bytes of another, and nothing after one that was refused.
HandledAsSent == IsPrefix(handled, Meant)

\* HttpError: only a request that is malformed or too large is refused, with one answer,
\* the last; one that is well formed is answered once, unless its client was too slow or
\* left, and a client whose every byte has been read has had all its requests answered.
RefusedRightly ==
  LET refused == {i \in DOMAIN answers : answers[i] \notin {200, 408}}
      n == Len(handled)
  IN  /\ refused # {} => /\ refused = {Len(answers)} /\ Len(answers) = n + 1
                         /\ n < Len(conversation) /\ ~WellFormed(conversation[n + 1])
      /\ phase = "head" /\ pos = Len(stream) => Len(answers) = n /\ handled = Meant

\* Config.request_timeout and idle_timeout: a request line is read, or the connection is
\* closed, within the one for the first request and the other for a later one; then the
\* header block is read, or answered 408, within a request_timeout of its own; however the
\* client spaces its lines.
HeadTimeout == IF answers = <<>> THEN RequestTimeout ELSE IdleTimeout

HeadInBudget ==
  /\ phase = "head" => spent <= HeadTimeout
  /\ phase = "fields" => spent <= RequestTimeout

=============================================================================
