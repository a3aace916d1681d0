----------------------------- MODULE TlvParser -----------------------------
(***************************************************************************)
(* Type-length-value messages and their incremental parser:                *)
(* protocol/src/tlv/message.cc and parser.cc.  As with HTTP, each call is  *)
(* handed the whole unread input again and goes on at already_parse_.      *)
(***************************************************************************)
EXTENDS ParserCall, Numerals

TypeBytes == 2      \* sizeof(uint16_t)
LengthBytes == 4    \* sizeof(uint32_t)

\* htons, htonl: n in the given number of bytes, the highest first.
NetworkOrder(n, bytes) == [i \in 1..bytes |-> (n \div 256^(bytes - i)) % 256]
HostOrder(bytes) == Numeral(bytes, 256)

TlvCleared == [type |-> 0, length |-> 0, value |-> <<>>]

\* Message::dump: nothing when the value is shorter than the length says.
TlvDump(msg) ==
    IF Len(msg.value) < msg.length THEN <<>>
    ELSE NetworkOrder(msg.type, TypeBytes) \o NetworkOrder(msg.length, LengthBytes)
            \o SubSeq(msg.value, 1, msg.length)

----------------------------------------------------------------------------
(* Parser::Impl. *)

TlvReset == [tag |-> "TYPE", already_parse |-> 0]

\* The bytes the current field needs, the message with it, the next field.
Need(tag, msg) ==
    CASE tag = "TYPE" -> TypeBytes
      [] tag = "LENGTH" -> LengthBytes
      [] tag = "VALUE" -> msg.length
NextTag(tag) == CASE tag = "TYPE" -> "LENGTH" [] tag = "LENGTH" -> "VALUE" [] tag = "VALUE" -> READY
Store(tag, msg, bytes) ==
    CASE tag = "TYPE" -> [msg EXCEPT !.type = HostOrder(bytes)]
      [] tag = "LENGTH" -> [msg EXCEPT !.length = HostOrder(bytes)]
      [] tag = "VALUE" -> [msg EXCEPT !.value = bytes]

\* The rest of the data is too short for the current field.
Short(s, data) == Len(data) - s.parser.already_parse < Need(s.parser.tag, s.msg)

\* The current field is there: it is stored, and the next one begins.
TakeField(s, data) ==
    LET p == s.parser
        end == p.already_parse + Need(p.tag, s.msg)
    IN  Enter(s, [tag |-> NextTag(p.tag), already_parse |-> end],
              Store(p.tag, s.msg, SubSeq(data, p.already_parse + 1, end)))

\* A turn of the loop of parse: one field, as long as there are bytes for it.
TlvTurn(s, data) ==
    IF s.parser.tag = READY THEN Return(s, READY)
    ELSE IF Short(s, data) THEN Return(s, WAITING)
    ELSE TakeField(s, data)
=============================================================================
