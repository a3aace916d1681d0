----------------------------- MODULE ParserCall -----------------------------
(***************************************************************************)
(* A call of a parser's parse(data, len, msg): a loop over the parts of a  *)
(* message that goes on until it can return.  HttpParser and TlvParser     *)
(* each give one turn of their loop, from the state of the call to the     *)
(* next one.                                                               *)
(***************************************************************************)
EXTENDS Integers, Sequences

\* Parser::RetCode, and a call that has not returned.
READY == "READY"
WAITING == "WAITING_DATA"
ERROR == "ERROR"
PARSING == "PARSING"

\* The parser's members p and the message at the beginning of a call.  base is
\* where the part of the message that the loop is in began in this call.
Call(p, msg) == [parser |-> p, msg |-> msg, base |-> p.already_parse, ret |-> PARSING]

\* The call returns and leaves everything as it is.
Return(s, ret) == [s EXCEPT !.ret = ret]

\* n bytes count as parsed; a new part of the message begins behind them.
Skip(p, n) == [p EXCEPT !.already_parse = @ + n]
Enter(s, p, msg) == [s EXCEPT !.parser = p, !.msg = msg, !.base = p.already_parse]
=============================================================================
