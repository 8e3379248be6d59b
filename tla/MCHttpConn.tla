----------------------------- MODULE MCHttpConn -----------------------------
(***************************************************************************)
(* An instance of HttpConn for TLC: a first request of every kind, and a   *)
(* second one of few.                                                      *)
(***************************************************************************)
EXTENDS HttpConn

Line(v) == <<"line", v>>
Length(n) == <<"content-length", n>>

\* What a body may hold: the look of an empty line, of a request, of a chunk.
Octets == {Eol, Line("1.1"), <<"size", 0>>}

Req(line, f, chunks, end) ==
  [blank |-> 0, line |-> line, fields |-> f, chunks |-> chunks, end |-> end]

Bodies(n) == [1 .. n -> Octets]

Close == <<"connection", {"close"}>>
Keep == <<"connection", {"keep-alive"}>>
Both == <<"connection", {"close", "keep-alive"}>>

Plain == {Req(Line(v), f, <<>>, Eol) :
            v \in {"1.1", "1.0", "2.0", "junk"},
            f \in {<<>>, <<Close>>, <<Keep>>, <<Both>>, <<Close, Keep>>, <<Keep, Close>>}}

Sized == UNION {{Req(Line("1.1"), f, <<b>>, Eol) : b \in Bodies(n),
                   f \in {<<Length(n)>>, <<Length(n), Length(n)>>}} : n \in 0 .. 2}

InChunks ==
  {Req(Line("1.1"), <<Chunked>>, c, e) :
     c \in {<<>>} \cup {<<b>> : b \in Bodies(2)} \cup {<< <<x>>, <<y>> >> : x, y \in Octets},
     e \in {Eol, Line("1.1")}}

Refused ==
  {Req(Line("1.1"), f, << <<Line("1.1"), Eol>> >>, Eol) :
     f \in {<<Length(2), Chunked>>, <<Length(2), Length(1)>>, <<Length(NotANumber)>>, <<Length(2), <<"fold", "">> >>,
            << <<"transfer-encoding", "gzip">> >>,
            <<Length(2), <<"x", "">>, <<"x", "">>, <<"x", "">> >>}}
  \cup {Req(Line("1.1"), <<Length(3)>>, << <<Line("1.1"), Eol, Eol>> >>, Eol),
        Req(Line("1.1"), <<Chunked>>, << <<Line("1.1"), Eol>>, <<Eol>> >>, Eol)}

Second ==
  {[Req(Line("1.1"), <<>>, <<>>, Eol) EXCEPT !.blank = 1],
   Req(Line("1.1"), <<Length(1)>>, << <<Eol>> >>, Eol)}

Talks == {<<a, b>> : a \in Plain \cup Sized \cup InChunks \cup Refused, b \in Second}

=============================================================================
