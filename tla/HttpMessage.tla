---------------------------- MODULE HttpMessage ----------------------------
(***************************************************************************)
(* HTTP messages and how they are written: protocol/src/http/message.cc,   *)
(* request.cc, response.cc.                                                *)
(*                                                                         *)
(* Text is a sequence of symbols.  A symbol is one character where the     *)
(* parser looks at characters (blank, colon, CR, LF, digits, body bytes)   *)
(* and a word where it only compares ("GET", "HTTP/1.1", a header's name). *)
(***************************************************************************)
EXTENDS Numerals, SequencesExt

CR == "CR"
LF == "LF"
EOL == <<CR, LF>>
Blank == " "

Digit == <<"0", "1", "2", "3", "4", "5", "6", "7", "8", "9">>
IsDigit(c) == \E i \in DOMAIN Digit : Digit[i] = c
DigitValue(c) == (CHOOSE i \in DOMAIN Digit : Digit[i] = c) - 1

\* std::atoi: the number the leading digits write, 0 if there are none.
Atoi(text) ==
    LET stop == {i \in DOMAIN text : ~IsDigit(text[i])}
        n == IF stop = {} THEN Len(text) ELSE Min(stop) - 1
    IN  Numeral([i \in 1..n |-> DigitValue(text[i])], 10)

----------------------------------------------------------------------------
(* The tables of methods, versions and states. *)

Method == {"GET", "POST"}
INVALID == "INVALID"
StringToMethod(text) == IF Len(text) = 1 /\ text[1] \in Method THEN text[1] ELSE INVALID

HTTP_ERR == "HTTP_ERR"
VersionToString(v) == IF v = "HTTP/1.0" THEN <<v>> ELSE <<"HTTP/1.1">>
StringToVersion(text) == IF text = <<"HTTP/1.0">> THEN "HTTP/1.0" ELSE "HTTP/1.1"

\* Some rows of HTTP_STATUS_MAP: the code and the words of its description.
StatusMap == (200 :> <<"OK">>) @@ (404 :> <<"Not", Blank, "Found">>)
StateToDesc(state) == StatusMap[state]
CodeText(state) == IF state = 200 THEN <<"2", "0", "0">> ELSE <<"4", "0", "4">>

----------------------------------------------------------------------------
(* Message, Request and Response: one record, with the fields of the other   *)
(* class left at what its constructor and clear() give them.                *)

Cleared(type) ==
    [type |-> type, version |-> HTTP_ERR, headers |-> <<>>, body |-> <<>>,
     method |-> INVALID, uri |-> <<>>, state |-> 0]

setHeader(msg, key, value) ==
    [msg EXCEPT !.headers =
        [k \in DOMAIN msg.headers \cup {key} |-> IF k = key THEN value ELSE msg.headers[k]]]
getHeader(msg, key, def) ==
    IF key \in DOMAIN msg.headers THEN msg.headers[key] ELSE def

\* Request::dump and Response::dump.  The order of the headers is the hash
\* table's: keys lists them in any order.
StartLine(msg) ==
    IF msg.type = "REQUEST"
    THEN <<msg.method, Blank>> \o msg.uri \o <<Blank>> \o VersionToString(msg.version)
    ELSE VersionToString(msg.version) \o <<Blank>> \o CodeText(msg.state)
            \o <<Blank>> \o StateToDesc(msg.state)

HeaderLines(msg, keys) ==
    FlattenSeq([i \in DOMAIN keys |-> keys[i] \o <<":", Blank>> \o msg.headers[keys[i]] \o EOL])

dump(msg, keys) == StartLine(msg) \o EOL \o HeaderLines(msg, keys) \o EOL \o msg.body
=============================================================================
