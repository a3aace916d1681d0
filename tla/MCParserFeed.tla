---------------------------- MODULE MCParserFeed ----------------------------
(* Streams that exercise every branch of the two parsers. *)
EXTENDS ParserFeed

Key(word) == <<word>>
NoBody == [Cleared("REQUEST") EXCEPT !.version = "HTTP/1.1", !.method = "GET", !.uri = <<"/">>]
\* The body looks like the end of a line.
Plain == [NoBody EXCEPT !.version = "HTTP/1.0", !.method = "POST", !.body = EOL,
             !.headers = (Key("Content-Length") :> <<"2">>) @@ (Key("k") :> <<"v">>)]
Chunked == [NoBody EXCEPT !.headers = (Key("Transfer-Encoding") :> <<"chunked">>)]
Ok == [Cleared("RESPONSE") EXCEPT !.version = "HTTP/1.1", !.state = 200, !.body = <<"x">>,
          !.headers = (Key("Content-Length") :> <<"1">>)]

\* Where the first n texts of a stream end.
Ends(texts, n) == [i \in 1..n |-> Len(FlattenSeq(SubSeq(texts, 1, i)))]

Http(proto, texts, msgs, bad) ==
    [proto |-> proto, bytes |-> FlattenSeq(texts), msgs |-> msgs, numbers |-> <<>>, bad |-> bad,
     ends |-> Ends(texts, Len(msgs))]
Written(m) == CHOOSE text \in {dump(m, keys) : keys \in SetToSeqs(DOMAIN m.headers)} : TRUE
Order(m) == SetToSeqs(DOMAIN m.headers)

\* Chunks, an extension and the final chunk; data that looks like a size line.
ChunkedText(end) ==
    dump(Chunked, <<Key("Transfer-Encoding")>>)
        \o <<"2", CR, LF, "0", CR, CR, LF>> \o <<"1", ";", "x", CR, LF, LF, CR, LF>> \o end
ChunkedMsg == [Chunked EXCEPT !.body = <<"0", CR, LF>>]
LastChunk == <<"0", CR, LF, CR, LF>>

HttpStreams ==
    {Http("REQUEST", <<dump(Plain, keys), dump(NoBody, <<>>)>>, <<Plain, NoBody>>, FALSE) :
        keys \in Order(Plain)}
    \cup {Http("REQUEST", <<ChunkedText(LastChunk), dump(NoBody, <<>>)>>, <<ChunkedMsg, NoBody>>, FALSE),
          Http("RESPONSE", <<Written(Ok), Written(Ok)>>, <<Ok, Ok>>, FALSE)}

\* Malformed: a method, a header without a colon, a chunk size, the end of a
\* chunk, and a description of two words, which Response::dump does write.
BadStreams ==
    {Http("REQUEST", <<dump(NoBody, <<>>), <<"GOT">> \o Tail(dump(NoBody, <<>>))>>, <<NoBody>>, TRUE),
     Http("REQUEST", <<dump(NoBody, <<>>), StartLine(NoBody) \o EOL \o <<"k">> \o EOL>>, <<NoBody>>, TRUE),
     Http("REQUEST", <<ChunkedText(<<"z">> \o EOL)>>, <<>>, TRUE),
     Http("REQUEST", <<ChunkedText(<<"1", CR, LF, "y", "y", CR, LF>>)>>, <<>>, TRUE),
     Http("RESPONSE", <<Written(Ok), Written([Ok EXCEPT !.state = 404])>>, <<Ok>>, TRUE)}

\* The format parser.cc describes, with a trailer: 0 CRLF, trailer CRLF, CRLF.
TrailerStreams ==
    {Http("REQUEST", <<ChunkedText(<<"0", CR, LF, "k", ":", "v", CR, LF, CR, LF>>)>>, <<ChunkedMsg>>, FALSE)}

----------------------------------------------------------------------------
Number(v, w) == [v |-> v, w |-> w]
\* The edges of an 8 bit type, which is promoted, and of one as wide as int.
Numbers == {Number(v, 8) : v \in {-128, -64, -1, 0, 63, 127}}
           \cup {Number(v, 16) : v \in {-32767, -8192, 64, 32767}}

Carrier(number) ==
    LET value == VARIANT_ENCODE(ZIGZAG_ENCODE(number.v, number.w), number.w, BUFLEN(number.w))
    IN  [type |-> 256 + number.w, length |-> Len(value), value |-> value]
Nothing == [type |-> 7, length |-> 0, value |-> <<>>]

Tlv(msgs, numbers) ==
    LET texts == [i \in DOMAIN msgs |-> TlvDump(msgs[i])]
    IN  [proto |-> "TLV", bytes |-> FlattenSeq(texts), msgs |-> msgs, numbers |-> numbers, bad |-> FALSE,
         ends |-> Ends(texts, Len(msgs))]

TlvStreams == {Tlv(<<Carrier(a), Carrier(b), Nothing>>, <<a, b>>) : a, b \in Numbers}

AllStreams == HttpStreams \cup BadStreams \cup TlvStreams

\* Trailer lines are in none of these and in all of those.
ASSUME TrailersAssumption ==
    (\A s \in AllStreams : Untrailed(s)) /\ (\A s \in TrailerStreams : ~Untrailed(s))
=============================================================================
