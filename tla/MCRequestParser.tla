-------------------------- MODULE MCRequestParser --------------------------
(* Streams for model checking RequestParser: every concatenation of up to  *)
(* MaxPieces pieces of requests, well-formed or not.                       *)
EXTENDS RequestParser, SequencesExt

CONSTANT MaxPieces

MCLengthLine == [cl1 |-> 1, cl2 |-> 2, cl9 |-> 9]

\* Requests, with and without bodies, both line terminators, stray ones.
FramingPieces ==
  { <<"req", "lf">>, <<"req", "cr", "lf">>, <<"cl1", "lf">>, <<"cl2", "cr", "lf">>,
    <<"cr">>, <<"lf">>, <<"field", "lf">>, <<"text">>,
    <<"req", "lf", "cl1", "lf", "lf">>, <<"req", "lf", "cl2", "lf", "lf", "text">> }

\* Lines of heads that are refused, for every status, and of one that is not.
RefusedPieces ==
  { <<"req2", "lf">>, <<"req", "lf">>, <<"cl9", "lf">>, <<"cl1", "lf">>, <<"clx", "lf">>,
    <<"te", "lf">>, <<"lf">>, <<"field", "lf">>, <<"text">> }

StreamsOf(pieces) ==
  {FlattenSeq(s) : s \in UNION {[1 .. n -> pieces] : n \in 1 .. MaxPieces}}

MCStreams == StreamsOf(FramingPieces) \cup StreamsOf(RefusedPieces)

=============================================================================
