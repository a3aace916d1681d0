---------------------------- MODULE ParserFeed ----------------------------
(***************************************************************************)
(* A byte stream reaches a parser in pieces.  TCP may cut it anywhere, so  *)
(* the receiver keeps what is unread in a buffer (module ByteQueue), hands *)
(* the parser all of it whenever it likes, and on READY takes the message, *)
(* drops nparse() bytes, clears the message and resets the parser, as      *)
(* examples/protocol_examples/http_examples/http_connection.cc does.  On   *)
(* ERROR it gives up.  (The example parses once per read and so leaves a   *)
(* message that is already in its buffer to the next read; the receiver    *)
(* here goes on parsing.)                                                  *)
(***************************************************************************)
EXTENDS HttpParser, TlvParser, VariantEncode

CONSTANT
    Streams    \* what may be sent: [proto, bytes, msgs, ends, numbers, bad], where bytes
               \* writes the messages msgs, the i-th up to position ends[i] (TLV
               \* messages carry numbers), and, if bad, something malformed after them

\* The parser of a stream and its message before the first byte, where the i-th
\* message ends, and what is behind position n.
Fresh(s) == IF s.proto = "TLV" THEN TlvReset ELSE HttpReset
Empty(s) == IF s.proto = "TLV" THEN TlvCleared ELSE Cleared(s.proto)
End(s, i) == IF i = 0 THEN 0 ELSE s.ends[i]
Rest(s, n) == SubSeq(s.bytes, n + 1, Len(s.bytes))

----------------------------------------------------------------------------
(* A call of parse. *)

Turn(proto, s, data) ==
    IF s.ret # PARSING THEN s
    ELSE IF proto = "TLV" THEN TlvTurn(s, data) ELSE HttpTurn(s, data)

\* What the call may have come to after each number of turns.
Turns(proto, s, data) ==
    LET after[k \in Nat] == IF k = 0 THEN {s} ELSE {Turn(proto, x, data) : x \in after[k - 1]}
    IN  after

\* The result of a call.  Every turn but two reads two bytes at least, so that by
\* then it has returned.
ParseWith(proto, p, msg, data) == Turns(proto, Call(p, msg), data)[Len(data) \div 2 + 2]

\* A call on all that is behind the i-th message.
Whole(s, i) == ParseWith(s.proto, Fresh(s), Empty(s), Rest(s, End(s, i)))

\* The bytes of a stream are symbols of HTTP or TLV bytes, and in one piece they
\* parse to the messages they write, and to what is behind them.
Symbol(s) == IF s.proto = "TLV" THEN 0..255 ELSE STRING

IsWritten(s) ==
    /\ s.proto \in {"TLV", "REQUEST", "RESPONSE"} /\ s.bad \in BOOLEAN
    /\ s.bytes \in Seq(Symbol(s))
    /\ s.msgs \in Seq(Range(s.msgs)) /\ Len(s.ends) = Len(s.msgs)
    /\ \A i \in 0..Len(s.msgs) : End(s, i) \in 0..Len(s.bytes)
    /\ \A i \in 1..Len(s.msgs) :
          \A res \in Whole(s, i - 1) :
             /\ res.ret = READY /\ res.msg = s.msgs[i]
             /\ End(s, i) = End(s, i - 1) + res.parser.already_parse
    /\ \A res \in Whole(s, Len(s.msgs)) : res.ret = IF s.bad THEN ERROR ELSE WAITING

\* The value of the i-th message encodes the i-th number, whose negation is defined.
CarriesNumbers(s) ==
    \A i \in DOMAIN s.numbers :
        LET number == s.numbers[i]
            w == number.w
        IN  /\ i \in DOMAIN s.msgs
            /\ w \in Nat \ {0} /\ number.v \in Least(w)..Greatest(w) /\ Defined(number.v, w)
            /\ s.msgs[i].value = VARIANT_ENCODE(ZIGZAG_ENCODE(number.v, w), w, BUFLEN(w))

StreamsAssumption == \A s \in Streams : IsWritten(s) /\ CarriesNumbers(s)
ASSUME StreamsAssumption

\* No chunked message of the stream has trailer lines: the empty line is behind
\* its last chunk.
Untrailed(s) ==
    \A i \in 0..Len(s.msgs) : \A data \in {Rest(s, End(s, i))} :
        \A k \in 0..Len(data) \div 2 + 2 :
            \A x \in Turns(s.proto, Call(Fresh(s), Empty(s)), data)[k] :
                x.parser.tag = "TRAILER" => CRLF(data, x.parser.already_parse) = 0

----------------------------------------------------------------------------
VARIABLES
    stream,    \* the stream sent
    fed,       \* how much of it has arrived
    taken,     \* how much of that was consumed with complete messages
    parser,    \* the parser's members
    msg,       \* the message being filled
    got,       \* the messages received
    ret        \* what the last call of parse returned; "new": more has come since

vars == <<stream, fed, taken, parser, msg, got, ret>>

IsTlv == stream.proto = "TLV"
Buffer == SubSeq(stream.bytes, taken + 1, fed)

Init ==
    /\ stream \in Streams
    /\ fed = 0 /\ taken = 0
    /\ parser = Fresh(stream) /\ msg = Empty(stream)
    /\ got = <<>> /\ ret = "new"

\* One more byte arrives.  (Pieces of several bytes are as many steps with no
\* call of parse between them.)
Deliver ==
    /\ ret # ERROR
    /\ fed < Len(stream.bytes)
    /\ fed' = fed + 1
    /\ ret' = "new"
    /\ UNCHANGED <<stream, taken, parser, msg, got>>

\* A call of parse on the whole buffer, and what the receiver does with it.
Parse ==
    /\ ret # ERROR
    /\ UNCHANGED <<stream, fed>>
    /\ \E data \in {Buffer} : \E res \in ParseWith(stream.proto, parser, msg, data) :
        /\ ret' = res.ret
        /\ IF res.ret = READY
           THEN /\ got' = Append(got, res.msg)
                /\ taken' = taken + res.parser.already_parse
                /\ parser' = Fresh(stream)
                /\ msg' = Empty(stream)
           ELSE /\ parser' = res.parser
                /\ msg' = res.msg
                /\ UNCHANGED <<got, taken>>

Next == Deliver \/ Parse

\* The peer sends everything it has, and the receiver parses what it gets.
Spec == Init /\ [][Next]_vars /\ WF_vars(Deliver) /\ WF_vars(Parse)

----------------------------------------------------------------------------
(* Properties. *)

\* However the stream is cut and however often parse is called, the parser
\* finds the messages that were written, in order, counts as parsed what they
\* take up, and calls an error only what is malformed, after all messages
\* before it.
SameHoweverCut ==
    /\ IsPrefix(got, stream.msgs)
    /\ taken = End(stream, Len(got))
    /\ ret = ERROR => stream.bad /\ got = stream.msgs

\* Nothing is held back: every message is found in the end, not a byte of the
\* stream is left over, and what is malformed is called so.
AllIsParsed ==
    <>[](got = stream.msgs /\ IF stream.bad THEN ret = ERROR ELSE taken = Len(stream.bytes))

\* A number written by zigzag and variable length encoding is read back from
\* the value of the message that carried it, at the edges of each type too.
NumbersReadBack ==
    IsTlv => \A i \in DOMAIN got \cap DOMAIN stream.numbers :
        LET number == stream.numbers[i]
        IN  ZIGZAG_DECODE(VARIANT_DECODE(got[i].value, number.w), number.w) = number.v
=============================================================================
