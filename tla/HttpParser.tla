----------------------------- MODULE HttpParser -----------------------------
(***************************************************************************)
(* The incremental HTTP parser of lcy::protocol (protocol/src/http/        *)
(* parser.cc).  Each call is handed the whole unread input again and goes  *)
(* on at the offset already_parse_.  A turn of its loop is a start line, a *)
(* header line, what has come of a plain body, a chunk or a trailer line.  *)
(***************************************************************************)
EXTENDS HttpMessage, ParserCall

\* The text from position n + 1 on.
From(text, n) == SubSeq(text, n + 1, Len(text))

\* Length of the text between position n and the next CR LF, or -1.
CRLF(text, n) ==
    LET at == {i \in n + 1..Len(text) - 1 : text[i] = CR /\ text[i + 1] = LF}
    IN  IF at = {} THEN -1 ELSE Min(at) - 1 - n

----------------------------------------------------------------------------
(* Splitting a line. *)

\* Three fields between exactly two blanks, the last one not empty; <<>> else.
lineSplit(line) ==
    LET blanks == {i \in DOMAIN line : line[i] = Blank}
    IN  IF Cardinality(blanks) # 2 \/ Len(line) \in blanks THEN <<>>
        ELSE << SubSeq(line, 1, Min(blanks) - 1),
                SubSeq(line, Min(blanks) + 1, Max(blanks) - 1),
                From(line, Max(blanks)) >>

\* The first run of characters that are not blank.
trim(text) ==
    LET i == Min({k \in DOMAIN text : text[k] # Blank} \cup {Len(text) + 1})
        j == Min({k \in i..Len(text) : text[k] = Blank} \cup {Len(text) + 1})
    IN  SubSeq(text, i, j - 1)

\* Key and value around the first colon; <<>> when there is none.
headerSplit(line) ==
    LET colons == {i \in DOMAIN line : line[i] = ":"}
    IN  IF colons = {} THEN <<>>
        ELSE << trim(SubSeq(line, 1, Min(colons) - 1)), trim(From(line, Min(colons))) >>

isValidURI(uri) == uri # <<>> /\ uri[1] = "/"
isValidHTTPVersion(text) == Len(text) = 1 /\ text[1] \in {"HTTP/1.0", "HTTP/1.1", "HTTP/2.0"}

----------------------------------------------------------------------------
(* The start line: a return code and the message with it.                   *)

Result(ret, msg) == [ret |-> ret, msg |-> msg]

parseRequestLine(line, msg) ==
    LET field == lineSplit(line)
    IN  IF /\ field # <<>>
           /\ isValidURI(field[2]) /\ isValidHTTPVersion(field[3])
           /\ StringToMethod(field[1]) # INVALID
        THEN Result(READY, [msg EXCEPT !.method = StringToMethod(field[1]), !.uri = field[2],
                                       !.version = StringToVersion(field[3])])
        ELSE Result(ERROR, msg)

parseResponseLine(line, msg) ==
    LET field == lineSplit(line)
    IN  IF field # <<>> /\ isValidHTTPVersion(field[1]) /\ Atoi(field[2]) \in DOMAIN StatusMap
        THEN Result(READY, [msg EXCEPT !.version = StringToVersion(field[1]),
                                       !.state = Atoi(field[2])])
        ELSE Result(ERROR, msg)

parseStart(line, msg) ==
    IF msg.type = "REQUEST" THEN parseRequestLine(line, msg) ELSE parseResponseLine(line, msg)

----------------------------------------------------------------------------
(* Parser::Impl: its members as a record, reset() and the turns of parse(). *)
(* "TRAILER" is not a tag of the code: it stands for the inner loop over    *)
(* the trailer lines, and no call returns with it.                          *)

HttpReset ==
    [tag |-> "LINE", already_parse |-> 0, content_length |-> 0, chunked |-> FALSE, body_buf |-> <<>>]

\* After an error nothing of the part that it is in counts as parsed.
Fail(s) == [s EXCEPT !.ret = ERROR, !.parser.already_parse = s.base]

parseLine(s, data) ==
    LET len == CRLF(data, 0)
        res == parseStart(SubSeq(data, 1, len), s.msg)
    IN  IF len = -1 THEN Return(s, WAITING)
        ELSE IF res.ret = READY
        THEN Enter(s, [Skip(s.parser, len + 2) EXCEPT !.tag = "HEADER"], res.msg)
        ELSE Fail(s)

\* What the end of the headers tells about the body.
BodyKind(p, msg) ==
    [p EXCEPT !.tag = "BODY",
              !.content_length = Atoi(getHeader(msg, <<"Content-Length">>, <<"0">>)),
              !.chunked = p.chunked \/ getHeader(msg, <<"Transfer-Encoding">>, <<>>) = <<"chunked">>]

\* A complete header line is consumed at once, the empty line ends the headers.
parseHeader(s, data) ==
    LET at == s.parser.already_parse
        len == CRLF(data, at)
        field == headerSplit(SubSeq(data, at + 1, at + len))
    IN  IF len = -1 THEN Return(s, WAITING)
        ELSE IF len = 0 THEN Enter(s, BodyKind(Skip(s.parser, 2), s.msg), s.msg)
        ELSE IF field = <<>> THEN Fail(s)
        ELSE [s EXCEPT !.parser = Skip(s.parser, len + 2),
                       !.msg = setHeader(s.msg, field[1], field[2])]

\* The message is complete: body is moved into it.
Finish(s, n, body) ==
    [s EXCEPT !.parser = [Skip(s.parser, n) EXCEPT !.tag = READY, !.body_buf = <<>>],
              !.msg.body = body]

\* n symbols more are in body_buf_.
Gather(s, n, body) == [s EXCEPT !.parser = [Skip(s.parser, n) EXCEPT !.body_buf = body]]

\* Mutated: what has come already is not counted.
parsePlainAnew(s, data) ==
    LET p == s.parser
        n == Min({p.content_length, Len(data) - p.already_parse})
        body == p.body_buf \o SubSeq(data, p.already_parse + 1, p.already_parse + n)
    IN  IF Len(body) >= p.content_length THEN Finish(s, n, body)
        ELSE Return(Gather(s, n, body), WAITING)

\* Mutated: the body must come in one piece to be complete.
parsePlainAtOnce(s, data) ==
    LET p == s.parser
        n == Min({p.content_length - Len(p.body_buf), Len(data) - p.already_parse})
        body == p.body_buf \o SubSeq(data, p.already_parse + 1, p.already_parse + n)
    IN  IF n >= p.content_length THEN Finish(s, n, body)
        ELSE Return(Gather(s, n, body), WAITING)

\* What has come of a body of content_length_ bytes.
parsePlain(s, data) ==
    LET p == s.parser
        n == Min({p.content_length - Len(p.body_buf), Len(data) - p.already_parse})
        body == p.body_buf \o SubSeq(data, p.already_parse + 1, p.already_parse + n)
    IN  IF Len(body) >= p.content_length THEN Finish(s, n, body)
        ELSE Return(Gather(s, n, body), WAITING)

\* The hexadecimal number of a chunk-size line, up to an extension; -1 when it
\* has another character.
Hex == Digit \o <<"a", "b", "c", "d", "e", "f", "A", "B", "C", "D", "E", "F">>
HexValue(c) == LET i == CHOOSE k \in DOMAIN Hex : Hex[k] = c IN IF i > 16 THEN i - 7 ELSE i - 1
ChunkSize(line) ==
    LET stop == {i \in DOMAIN line : line[i] = ";"}
        n == IF stop = {} THEN Len(line) ELSE Min(stop) - 1
    IN  IF \E i \in 1..n : ~Contains(Hex, line[i]) THEN -1
        ELSE Numeral([i \in 1..n |-> HexValue(line[i])], 16)

\* A chunk is consumed when its size line, its data and its CR LF are there.
parseChunk(s, data) ==
    LET at == s.parser.already_parse
        len == CRLF(data, at)
        size == ChunkSize(SubSeq(data, at + 1, at + len))
        start == at + len + 2
        next == start + size + 2
        body == s.parser.body_buf \o SubSeq(data, start + 1, start + size)
    IN  IF len = -1 THEN Return(s, WAITING)
        ELSE IF len = 0 \/ size = -1 THEN Fail(s)
        ELSE IF next > Len(data) THEN Return(s, WAITING)
        ELSE IF size = 0 THEN [s EXCEPT !.parser = [Skip(@, len + 2) EXCEPT !.tag = "TRAILER"]]
        ELSE IF SubSeq(data, next - 1, next) # EOL THEN Fail(Gather(s, 0, body))
        ELSE Gather(s, next - at, body)

\* Trailer lines after the last chunk: each complete one is consumed and
\* ignored, the empty one ends the message.  When it has not come the place is
\* forgotten: the next call looks for a chunk there.
parseTrailer(s, data) ==
    LET at == s.parser.already_parse
        len == CRLF(data, at)
    IN  IF len = -1 THEN [s EXCEPT !.ret = WAITING, !.parser.tag = "BODY"]
        ELSE IF len = 0 THEN Finish(s, 2, s.parser.body_buf)
        ELSE [s EXCEPT !.parser = Skip(@, len + 2)]

HttpTurn(s, data) ==
    CASE s.parser.tag = "LINE" -> parseLine(s, data)
      [] s.parser.tag = "HEADER" -> parseHeader(s, data)
      [] s.parser.tag = "BODY" -> IF s.parser.chunked THEN parseChunk(s, data) ELSE parsePlain(s, data)
      [] s.parser.tag = "TRAILER" -> parseTrailer(s, data)
      [] OTHER -> Return(s, READY)
=============================================================================
