------------------------------ MODULE RpcProofs ------------------------------
(***************************************************************************)
(* Proofs about Rpc, for any channels, methods and requests, any number of *)
(* calls and of failures and any length of the header.                     *)
(*                                                                         *)
(* A call's id passes through five places, in this order: the client's     *)
(* deque, the bytes on their way to the server, the server's deque, the    *)
(* bytes on their way back, and done.  Each keeps the order of the ids, so *)
(* four numbers separate them (Lanes), and no id is in two places or twice *)
(* in one.  A message counts as on its way once its first byte is written: *)
(* the reader starts a message nowhere else, whatever it reads after a     *)
(* failed send.                                                            *)
(***************************************************************************)
EXTENDS Rpc, SequenceTheorems, FiniteSetTheorems, WellFoundedInduction, TLAPS

----------------------------------------------------------------------------
(* The invariant. *)

Req == [tp : {"request"}, id : Nat, ask : Asks]
Codes == {"SUCCESS", "NOT_SUPPORT", "NO_SERVICE", "NO_METHOD", "INVALID_REQUEST"}
Resp == [tp : {"response"}, id : Nat, code : Codes, result : Asks \cup {NoResult}]
Message == Req \cup Resp
Byte == Message \X Nat

ConnectionType ==
    [sock : {"none", "connecting", "open", "hung", "closed"}, rop : {"none", "posted", "read"},
     wop : {"none", "connect", "write"}, sent : Nat, deque : Seq(Message), rbuf : Seq(Byte)]

Typed ==
    /\ conn \in [End -> ConnectionType]
    /\ wire \in [End -> Seq(Byte)]
    /\ id_method \in [Chan -> SUBSET Nat]
    /\ called \in [Chan -> Seq(Asks)]
    /\ done \in [Chan -> Seq(Message)]
    /\ trouble \in [Chan -> SUBSET Troubles]
    /\ astray \in SUBSET End

\* What a Connection keeps of its queue and its registered write.
QueueOK(c) ==
    /\ c.sock \in {"none", "connecting"} => c.deque = <<>> /\ c.wop # "write"
    /\ c.sock = "connecting" => c.wop = "connect"
    /\ c.sock \in {"none", "closed"} => c.wop = "none"
    /\ c.sock = "open" => c.wop # "connect" /\ (c.wop = "write" <=> c.deque # <<>>)
    /\ c.sock = "open" /\ c.wop = "write" => c.sent < Len(Frame(Head(c.deque)))

Queues == \A e \in End : QueueOK(conn[e])

\* What is read and not yet cut, and what is under way.
Stream(e) == conn[e].rbuf \o wire[e]

\* Before the server has a connection nothing has come back on it.
NotYet ==
    \A ch \in Chan :
        /\ server = "new" => conn[<<ch, Server>>].sock = "none"
        /\ conn[<<ch, Server>>].sock = "none" =>
              /\ conn[<<ch, Server>>].rbuf = <<>>
              /\ Stream(<<ch, Client>>) = <<>> /\ done[ch] = <<>>

\* A request carries what its call asked for; asked is called[ch].
IsRequest(asked, m) ==
    /\ m.tp = "request"
    /\ m.id \in 0..Len(asked) - 1
    /\ m.ask = asked[m.id + 1]

\* A response answers the call whose id it carries.
IsResponse(asked, registered, m) ==
    /\ m.tp = "response"
    /\ m.id \in 0..Len(asked) - 1
    /\ LET ask == asked[m.id + 1]
           served == <<ask.service, ask.method>> \in Methods /\ ask.service \in registered
       IN  IF m.code = "SUCCESS" THEN served /\ m.result = ask
           ELSE served => m.code = "INVALID_REQUEST" /\ ask.arguments = "garbled"

Contents ==
    \A ch \in Chan :
        /\ \A i \in DOMAIN conn[<<ch, Client>>].deque :
              IsRequest(called[ch], conn[<<ch, Client>>].deque[i])
        /\ \A i \in DOMAIN Stream(<<ch, Server>>) : IsRequest(called[ch], Stream(<<ch, Server>>)[i][1])
        /\ \A i \in DOMAIN conn[<<ch, Server>>].deque :
              IsResponse(called[ch], services, conn[<<ch, Server>>].deque[i])
        /\ \A i \in DOMAIN Stream(<<ch, Client>>) :
              IsResponse(called[ch], services, Stream(<<ch, Client>>)[i][1])
        /\ \A i \in DOMAIN done[ch] : IsResponse(called[ch], services, done[ch][i])

\* Messages with increasing ids from lo on and below hi.
MessageLane(q, lo, hi) ==
    /\ \A i \in DOMAIN q : lo <= q[i].id /\ q[i].id < hi
    /\ \A i, j \in DOMAIN q : i < j => q[i].id < q[j].id

\* The same of the messages whose first byte is in a stream.
StreamLane(s, lo, hi) ==
    /\ \A i \in DOMAIN s : s[i][2] = 1 => lo <= s[i][1].id /\ s[i][1].id < hi
    /\ \A i, j \in DOMAIN s : i < j /\ s[i][2] = 1 /\ s[j][2] = 1 => s[i][1].id < s[j][1].id

\* The front message has its first byte written.
Begun(c) == c.wop = "write" /\ c.sent > 0

\* The same of a deque; its front message may have gone on already.
DequeLane(c, lo, hi) ==
    /\ \A i \in DOMAIN c.deque : c.deque[i].id < hi /\ (lo <= c.deque[i].id \/ (i = 1 /\ Begun(c)))
    /\ \A i, j \in DOMAIN c.deque : i < j => c.deque[i].id < c.deque[j].id

LanesAt(ch, w1, w2, w3, w4) ==
    /\ w1 <= w2 /\ w2 <= w3 /\ w3 <= w4 /\ w4 <= Len(called[ch])
    /\ MessageLane(done[ch], 0, w1)
    /\ StreamLane(Stream(<<ch, Client>>), w1, w2)
    /\ DequeLane(conn[<<ch, Server>>], w2, w3)
    /\ StreamLane(Stream(<<ch, Server>>), w3, w4)
    /\ DequeLane(conn[<<ch, Client>>], w4, Len(called[ch]))

Lanes ==
    \A ch \in Chan : \E w1, w2, w3, w4 \in 0..Len(called[ch]) : LanesAt(ch, w1, w2, w3, w4)

Waiting == \A ch \in Chan : id_method[ch] = (0..Len(called[ch]) - 1) \ Ids(done[ch])

\* What Cut leaves of a stream.
Rest(s) == SubSeq(s, Cut(s).end + 1, Len(s))

\* A stream is whole messages and then the beginning of one.
WellCut(s) ==
    /\ Cut(s).sound
    /\ Rest(s) # <<>> => Rest(s) = SubSeq(Frame(Rest(s)[1][1]), 1, Len(Rest(s)))

\* The beginning of the message that the sender is writing, if it is.
LeftBy(c, s) ==
    /\ c.sock = "open" /\ c.wop = "write" => Rest(s) = SubSeq(Frame(Head(c.deque)), 1, c.sent)
    /\ c.sock \in {"none", "connecting"} \/ (c.sock = "open" /\ c.wop # "write") => Rest(s) = <<>>

Framing ==
    \A e \in End : "send" \notin trouble[e[1]] =>
        WellCut(Stream(e)) /\ LeftBy(conn[PeerEnd(e)], Stream(e))

Blamed ==
    \A e \in End :
        /\ conn[e].sock = "hung" => trouble[e[1]] \cap {"hangup", "connect"} # {}
        /\ e \in astray => trouble[e[1]] \cap {"hangup", "connect", "send", "stop"} # {}

IInv ==
    /\ Typed
    /\ Queues
    /\ NotYet
    /\ Contents
    /\ Lanes
    /\ Waiting
    /\ Framing
    /\ Blamed

----------------------------------------------------------------------------
(* Induction over data: a set of numbers has a least one. *)

\* A nonempty set of natural numbers has a least element.
LEMMA LeastNumber ==
    ASSUME NEW T \in SUBSET Nat, T # {}
    PROVE  \E m \in T : \A k \in T : m <= k
  <1>1. \E x \in T : \A y \in T : ~ (<<y, x>> \in OpToRel(<, Nat))
    BY WFMin, NatLessThanWellFounded, Zenon
  <1>2. \A x, y \in Nat : x < y => <<x, y>> \in OpToRel(<, Nat)
    BY SMT DEF OpToRel
  <1>3. \A x, y \in Nat : ~(x < y) => y <= x
    OBVIOUS
  <1> QED
    BY <1>1, <1>2, <1>3, Zenon

\* Induction from n down to 0.
LEMMA Downward ==
    ASSUME NEW n \in Nat, NEW T,
           \A i \in 0..n : (\A j \in i + 1..n : j \in T) => i \in T
    PROVE  \A i \in 0..n : i \in T
  <1> DEFINE F == {k \in 0..n : n - k \notin T}
  <1>1. ASSUME F # {} PROVE FALSE
    <2>1. PICK m \in F : \A k \in F : m <= k
      <3>1. F \in SUBSET Nat
        OBVIOUS
      <3> HIDE DEF F
      <3> QED
        BY <1>1, <3>1, LeastNumber
    <2>2. n - m \in 0..n /\ n - m \notin T
      BY <2>1
    <2>3. ASSUME NEW j \in n - m + 1..n PROVE j \in T
      <3>1. n - j \in 0..n /\ n - j < m /\ n - (n - j) = j
        BY <2>1, <2>2
      <3>2. n - j \notin F
        BY <2>1, <3>1
      <3> QED
        BY <3>1, <3>2
    <2> QED
      BY <2>2, <2>3
  <1>2. \A i \in 0..n : n - i \in 0..n /\ n - (n - i) = i
    OBVIOUS
  <1> QED
    BY <1>1, <1>2

\* Induction from 0 up to n.
LEMMA Upward ==
    ASSUME NEW n \in Nat, NEW T, 0 \in T,
           \A i \in 1..n : i - 1 \in T => i \in T
    PROVE  \A i \in 0..n : i \in T
  <1> DEFINE F == {k \in 0..n : k \notin T}
  <1>1. ASSUME F # {} PROVE FALSE
    <2>1. PICK m \in F : \A k \in F : m <= k
      <3>1. F \in SUBSET Nat
        OBVIOUS
      <3> HIDE DEF F
      <3> QED
        BY <1>1, <3>1, LeastNumber
    <2>2. m \in 1..n /\ m - 1 \in 0..n /\ m - 1 < m /\ m \notin T
      BY <2>1
    <2>3. m - 1 \notin F
      BY <2>1, <2>2
    <2> QED
      BY <2>2, <2>3
  <1> QED
    BY <1>1

----------------------------------------------------------------------------
(* Messages, frames and what Cut makes of a buffer. *)

\* How long a frame is and what its bytes are.
LEMMA FrameFacts ==
    ASSUME NEW m \in Message
    PROVE  /\ m.id \in Nat
           /\ BodyBytes(m) \in {1, 2}
           /\ Frame(m) \in Seq(Byte)
           /\ Len(Frame(m)) = HeaderBytes + BodyBytes(m)
           /\ DOMAIN Frame(m) = 1..HeaderBytes + BodyBytes(m)
           /\ \A k \in 1..HeaderBytes + BodyBytes(m) : Frame(m)[k] = <<m, k>>
  <1>1. m.id \in Nat
    BY DEF Message, Req, Resp
  <1>2. BodyBytes(m) \in {1, 2}
    BY <1>1 DEF BodyBytes
  <1>3. HeaderBytes + BodyBytes(m) \in Nat
    BY <1>2, HeaderAssumption
  <1>4. \A k \in 1..HeaderBytes + BodyBytes(m) : <<m, k>> \in Byte
    BY <1>3 DEF Byte
  <1> HIDE DEF Byte, Message
  <1>5. Frame(m) \in Seq(Byte)
    BY <1>3, <1>4 DEF Frame
  <1> QED
    BY <1>1, <1>2, <1>3, <1>5 DEF Frame

\* Part of one sequence equals the beginning of another, element by element.
LEMMA SamePart ==
    ASSUME NEW S, NEW s \in Seq(S), NEW t \in Seq(S), NEW i \in Nat, NEW n \in Nat,
           i + n <= Len(s), n <= Len(t)
    PROVE  SubSeq(s, i + 1, i + n) = SubSeq(t, 1, n) <=> \A k \in 1..n : s[i + k] = t[k]
  <1> DEFINE a == SubSeq(s, i + 1, i + n)
             b == SubSeq(t, 1, n)
  <1>1. a \in Seq(S) /\ Len(a) = n /\ \A k \in 1..n : a[k] = s[i + k]
    <2>1. \A k \in i + 1..i + n : s[k] \in S
      OBVIOUS
    <2>2. i + 1 \in Int /\ i + n \in Int
      OBVIOUS
    <2> QED
      BY <2>1, <2>2, SubSeqProperties
  <1>2. b \in Seq(S) /\ Len(b) = n /\ \A k \in 1..n : b[k] = t[k]
    <2>1. \A k \in 1..n : t[k] \in S
      OBVIOUS
    <2> QED
      BY <2>1, SubSeqProperties
  <1> HIDE DEF a, b
  <1>3. (\A k \in 1..n : a[k] = b[k]) => a = b
    BY <1>1, <1>2, SeqEqual
  <1>4. a = b <=> \A k \in 1..n : s[i + k] = t[k]
    BY <1>1, <1>2, <1>3
  <1> QED
    BY <1>4 DEF a, b

\* The message that starts behind position i, and where it ends.
At(buf, i) == buf[i + 1][1]
EndOf(buf, i) == i + HeaderBytes + BodyBytes(At(buf, i))

\* The first n bytes behind position i are those of the message's frame.
Matches(buf, i, n) == \A k \in 1..n : buf[i + k] = <<At(buf, i), k>>

Headed(buf, i) == i + HeaderBytes <= Len(buf) /\ Matches(buf, i, HeaderBytes)
Whole(buf, i) == Headed(buf, i) /\ EndOf(buf, i) <= Len(buf)

\* The body of the recursion in Cut, and a function that satisfies it from lo on.
CutBody(buf, cut, i) ==
    LET msg == buf[i + 1][1]
        end == i + HeaderBytes + BodyBytes(msg)
        rest == cut[end]
    IN  IF Len(buf) - i < HeaderBytes THEN [msgs |-> <<>>, end |-> i, sound |-> TRUE]
        ELSE IF SubSeq(buf, i + 1, i + HeaderBytes) # SubSeq(Frame(msg), 1, HeaderBytes)
        THEN [msgs |-> <<>>, end |-> i, sound |-> FALSE]
        ELSE IF Len(buf) < end THEN [msgs |-> <<>>, end |-> i, sound |-> TRUE]
        ELSE [rest EXCEPT !.msgs = <<msg>> \o @,
                          !.sound = @ /\ SubSeq(buf, i + 1, end) = Frame(msg)]
CutFrom(buf, lo, f) == f = [i \in lo..Len(buf) |-> CutBody(buf, f, i)]

\* A buffer with room for a header behind i has a message there.
LEMMA AtFacts ==
    ASSUME NEW buf \in Seq(Byte), NEW i \in 0..Len(buf), i + HeaderBytes <= Len(buf)
    PROVE  /\ At(buf, i) \in Message
           /\ BodyBytes(At(buf, i)) \in {1, 2}
           /\ EndOf(buf, i) \in Nat /\ EndOf(buf, i) > i + HeaderBytes /\ EndOf(buf, i) > i + 1
  <1>1. i + 1 \in 1..Len(buf)
    BY HeaderAssumption
  <1>2. buf[i + 1] \in Byte
    BY <1>1
  <1>3. At(buf, i) \in Message
    BY <1>2 DEF At, Byte
  <1>4. BodyBytes(At(buf, i)) \in {1, 2}
    BY <1>3, FrameFacts
  <1> QED
    BY <1>3, <1>4, HeaderAssumption DEF EndOf

\* The tests Cut makes, byte by byte.
LEMMA CutTests ==
    ASSUME NEW buf \in Seq(Byte), NEW i \in 0..Len(buf), i + HeaderBytes <= Len(buf)
    PROVE  /\ SubSeq(buf, i + 1, i + HeaderBytes) = SubSeq(Frame(At(buf, i)), 1, HeaderBytes)
                 <=> Matches(buf, i, HeaderBytes)
           /\ EndOf(buf, i) <= Len(buf) =>
                 (SubSeq(buf, i + 1, EndOf(buf, i)) = Frame(At(buf, i))
                     <=> Matches(buf, i, HeaderBytes + BodyBytes(At(buf, i))))
  <1> DEFINE m == At(buf, i)
             n == HeaderBytes + BodyBytes(m)
             f == Frame(m)
  <1>1. m \in Message /\ BodyBytes(m) \in {1, 2}
    BY AtFacts
  <1>2. /\ f \in Seq(Byte) /\ Len(f) = n /\ n \in Nat
        /\ \A k \in 1..n : f[k] = <<m, k>>
    BY <1>1, FrameFacts, HeaderAssumption
  <1>3. SubSeq(buf, i + 1, i + HeaderBytes) = SubSeq(f, 1, HeaderBytes)
           <=> \A k \in 1..HeaderBytes : buf[i + k] = f[k]
    <2>1. HeaderBytes \in Nat /\ HeaderBytes <= Len(f)
      BY <1>1, <1>2, HeaderAssumption
    <2> HIDE DEF f, n, m
    <2> QED
      BY <1>2, <2>1, SamePart
  <1>4. \A k \in 1..HeaderBytes : f[k] = <<m, k>>
    BY <1>1, <1>2, HeaderAssumption
  <1>5. ASSUME i + n <= Len(buf)
        PROVE  SubSeq(buf, i + 1, i + n) = f <=> \A k \in 1..n : buf[i + k] = f[k]
    <2> HIDE DEF f, n, m
    <2>1. SubSeq(buf, i + 1, i + n) = SubSeq(f, 1, n) <=> \A k \in 1..n : buf[i + k] = f[k]
      BY <1>2, <1>5, SamePart
    <2>2. SubSeq(f, 1, n) = f
      BY <1>2, SubSeqFull
    <2> QED
      BY <2>1, <2>2
  <1>6. EndOf(buf, i) = i + n
    BY <1>1, HeaderAssumption DEF EndOf
  <1> HIDE DEF f, n, m
  <1>7. (\A k \in 1..HeaderBytes : buf[i + k] = f[k]) <=> Matches(buf, i, HeaderBytes)
    BY <1>4 DEF Matches, m
  <1>8. (\A k \in 1..n : buf[i + k] = f[k]) <=> Matches(buf, i, n)
    BY <1>2 DEF Matches, m
  <1> QED
    BY <1>3, <1>5, <1>6, <1>7, <1>8 DEF f, n, m

\* The recursion looks at the function only where the message ends.
LEMMA CutBodySame ==
    ASSUME NEW buf \in Seq(Byte), NEW i \in 0..Len(buf), NEW f, NEW g,
           i + HeaderBytes <= Len(buf) /\ EndOf(buf, i) <= Len(buf)
              => f[EndOf(buf, i)] = g[EndOf(buf, i)]
    PROVE  CutBody(buf, f, i) = CutBody(buf, g, i)
  <1>1. CASE Len(buf) - i < HeaderBytes
    BY <1>1 DEF CutBody
  <1>2. CASE ~(Len(buf) - i < HeaderBytes) /\ Len(buf) < EndOf(buf, i)
    BY <1>2 DEF CutBody, EndOf, At
  <1>3. CASE ~(Len(buf) - i < HeaderBytes) /\ ~(Len(buf) < EndOf(buf, i))
    <2>1. i + HeaderBytes <= Len(buf)
      BY <1>3, HeaderAssumption
    <2>2. EndOf(buf, i) <= Len(buf)
      BY <1>3, <2>1, AtFacts
    <2>3. f[EndOf(buf, i)] = g[EndOf(buf, i)]
      BY <2>1, <2>2
    <2> QED
      BY <2>3 DEF CutBody, EndOf, At
  <1> QED
    BY <1>1, <1>2, <1>3

\* The recursion of Cut has a solution.
LEMMA CutExists ==
    ASSUME NEW buf \in Seq(Byte)
    PROVE  \E f : CutFrom(buf, 0, f)
  <1> DEFINE n == Len(buf)
             T == {k \in 0..n : ~ \E f : CutFrom(buf, n - k, f)}
  <1>1. n \in Nat
    OBVIOUS
  <1>2. SUFFICES ASSUME T # {} PROVE FALSE
    BY <1>1
  <1>3. PICK m \in T : \A k \in T : m <= k
    <2>1. T \in SUBSET Nat
      BY <1>1
    <2> HIDE DEF T
    <2> QED
      BY <1>2, <2>1, LeastNumber
  <1>4. ASSUME NEW f, NEW lo \in 0..n, NEW g,
               \/ lo = n
               \/ lo < n /\ CutFrom(buf, lo + 1, f),
               g = [i \in lo..n |-> IF i = lo THEN CutBody(buf, f, lo) ELSE f[i]]
        PROVE  CutFrom(buf, lo, g)
    <2>1. ASSUME NEW i \in lo..n PROVE CutBody(buf, f, i) = CutBody(buf, g, i)
      <3>1. i \in 0..Len(buf)
        OBVIOUS
      <3>2. ASSUME i + HeaderBytes <= Len(buf), EndOf(buf, i) <= Len(buf)
            PROVE  f[EndOf(buf, i)] = g[EndOf(buf, i)]
        <4>1. EndOf(buf, i) \in lo + 1..n
          BY <3>1, <3>2, AtFacts, <1>1
        <4>2. EndOf(buf, i) \in lo..n /\ EndOf(buf, i) # lo
          BY <4>1, <1>1
        <4> QED
          BY <4>2, <1>4
      <3> QED
        BY <3>1, <3>2, CutBodySame
    <2>2. ASSUME NEW i \in lo..n PROVE g[i] = CutBody(buf, g, i)
      <3>1. CASE i = lo
        BY <1>4, <2>1, <3>1
      <3>2. CASE i # lo
        <4>1. lo < n /\ i \in lo + 1..n
          BY <3>2, <1>1
        <4>2. f = [j \in lo + 1..n |-> CutBody(buf, f, j)]
          BY <1>4, <4>1 DEF CutFrom
        <4>3. f[i] = CutBody(buf, f, i)
          BY <4>1, <4>2
        <4> QED
          BY <1>4, <2>1, <3>2, <4>3
      <3> QED
        BY <3>1, <3>2
    <2>3. DOMAIN g = lo..n /\ g = [i \in DOMAIN g |-> g[i]]
      BY <1>4
    <2>4. g = [i \in lo..n |-> CutBody(buf, g, i)]
      BY <2>2, <2>3
    <2> QED
      BY <2>4 DEF CutFrom
  <1>5. m \in 0..n /\ n - m \in 0..n
    BY <1>1
  <1>6. \E f : \/ n - m = n
               \/ n - m < n /\ CutFrom(buf, (n - m) + 1, f)
    <2>1. CASE m = 0
      BY <2>1, <1>1
    <2>2. CASE m # 0
      <3>1. m - 1 \in 0..n /\ m - 1 \notin T
        BY <1>1, <1>3, <2>2
      <3>2. \E f : CutFrom(buf, n - (m - 1), f)
        BY <3>1
      <3>3. n - (m - 1) = (n - m) + 1 /\ n - m < n
        BY <1>1, <1>5, <2>2
      <3> QED
        BY <3>2, <3>3
    <2> QED
      BY <2>1, <2>2
  <1>7. PICK f : \/ n - m = n
                 \/ n - m < n /\ CutFrom(buf, (n - m) + 1, f)
    BY <1>6
  <1>8. \E g : g = [i \in n - m..n |-> IF i = n - m THEN CutBody(buf, f, n - m) ELSE f[i]]
    OBVIOUS
  <1>9. \E g : CutFrom(buf, n - m, g)
    BY <1>4, <1>5, <1>7, <1>8
  <1> QED
    BY <1>3, <1>9

\* What Cut computes: the record that a function on the positions gives at 0.
CutIs(buf, f) ==
    \A i \in 0..Len(buf) :
       /\ f[i].msgs \in Seq(Message) /\ f[i].end \in i..Len(buf) /\ f[i].sound \in BOOLEAN
       /\ ~Whole(buf, i) =>
             /\ f[i].msgs = <<>> /\ f[i].end = i
             /\ f[i].sound <=> Len(buf) - i < HeaderBytes \/ Headed(buf, i)
       /\ Whole(buf, i) =>
             /\ f[i].msgs = <<At(buf, i)>> \o f[EndOf(buf, i)].msgs
             /\ f[i].end = f[EndOf(buf, i)].end
             /\ f[i].sound <=> /\ f[EndOf(buf, i)].sound
                               /\ Matches(buf, i, HeaderBytes + BodyBytes(At(buf, i)))

\* One position, case by case.
LEMMA CutBodyStops ==
    ASSUME NEW buf \in Seq(Byte), NEW f, NEW i \in 0..Len(buf), ~Whole(buf, i),
           NEW b \in BOOLEAN, b <=> Len(buf) - i < HeaderBytes \/ Headed(buf, i)
    PROVE  CutBody(buf, f, i) = [msgs |-> <<>>, end |-> i, sound |-> b]
  <1>1. CASE Len(buf) - i < HeaderBytes
    <2>1. b = TRUE
      BY <1>1
    <2> QED
      BY <1>1, <2>1 DEF CutBody
  <1>2. CASE ~(Len(buf) - i < HeaderBytes)
    <2>1. i + HeaderBytes <= Len(buf)
      BY <1>2, HeaderAssumption
    <2>2. SubSeq(buf, i + 1, i + HeaderBytes) = SubSeq(Frame(At(buf, i)), 1, HeaderBytes)
             <=> Headed(buf, i)
      BY <2>1, CutTests DEF Headed
    <2>3. Headed(buf, i) => Len(buf) < EndOf(buf, i)
      BY <2>1, AtFacts DEF Whole
    <2>4. CASE Headed(buf, i)
      <3>1. b = TRUE
        BY <2>4
      <3> QED
        BY <1>2, <2>2, <2>3, <2>4, <3>1 DEF CutBody, EndOf, At
    <2>5. CASE ~Headed(buf, i)
      <3>1. b = FALSE
        BY <1>2, <2>5
      <3> QED
        BY <1>2, <2>2, <2>5, <3>1 DEF CutBody, EndOf, At
    <2> QED
      BY <2>4, <2>5
  <1> QED
    BY <1>1, <1>2

CutResult == [msgs : Seq(Message), end : Nat, sound : BOOLEAN]

\* The message at a position is whole: the rest follows.
LEMMA CutBodyGoesOn ==
    ASSUME NEW buf \in Seq(Byte), NEW f, NEW i \in 0..Len(buf), Whole(buf, i),
           f[EndOf(buf, i)] \in CutResult
    PROVE  /\ CutBody(buf, f, i) \in CutResult
           /\ CutBody(buf, f, i).msgs = <<At(buf, i)>> \o f[EndOf(buf, i)].msgs
           /\ CutBody(buf, f, i).end = f[EndOf(buf, i)].end
           /\ CutBody(buf, f, i).sound <=>
                 /\ f[EndOf(buf, i)].sound
                 /\ Matches(buf, i, HeaderBytes + BodyBytes(At(buf, i)))
  <1>1. i + HeaderBytes <= Len(buf)
    BY DEF Whole, Headed
  <1>2. ~(Len(buf) - i < HeaderBytes)
    BY <1>1, HeaderAssumption
  <1>3. SubSeq(buf, i + 1, i + HeaderBytes) = SubSeq(Frame(At(buf, i)), 1, HeaderBytes)
    BY <1>1, CutTests DEF Whole, Headed
  <1>4. ~(Len(buf) < EndOf(buf, i))
    BY <1>1, AtFacts DEF Whole
  <1>5. PICK b \in BOOLEAN : b = (SubSeq(buf, i + 1, EndOf(buf, i)) = Frame(At(buf, i)))
    OBVIOUS
  <1>6. b <=> Matches(buf, i, HeaderBytes + BodyBytes(At(buf, i)))
    BY <1>1, <1>5, CutTests DEF Whole
  <1> DEFINE r == f[EndOf(buf, i)]
             x == CutBody(buf, f, i)
  <1>7. x = [r EXCEPT !.msgs = <<At(buf, i)>> \o @, !.sound = @ /\ b]
    BY <1>2, <1>3, <1>4, <1>5, Zenon DEF CutBody, EndOf, At
  <1>8. At(buf, i) \in Message /\ r \in CutResult
    BY <1>1, AtFacts
  <1> HIDE DEF r, x
  <1>9. r.msgs \in Seq(Message) /\ r.end \in Nat /\ r.sound \in BOOLEAN
    BY <1>8 DEF CutResult
  <1>10. x = [msgs |-> <<At(buf, i)>> \o r.msgs, end |-> r.end, sound |-> (r.sound /\ b)]
    BY <1>7, <1>8 DEF CutResult
  <1>11. <<At(buf, i)>> \o r.msgs \in Seq(Message)
    BY <1>8, <1>9
  <1>12. x.msgs = <<At(buf, i)>> \o r.msgs /\ x.end = r.end
    BY <1>10
  <1>13. x.sound <=> r.sound /\ b
    BY <1>10, Zenon
  <1>14. (r.sound /\ b) \in BOOLEAN
    OBVIOUS
  <1>15. x \in CutResult
    BY <1>9, <1>10, <1>11, <1>14, Zenon DEF CutResult
  <1> QED
    BY <1>6, <1>12, <1>13, <1>15, Zenon DEF r, x

\* A result of Cut without messages.
LEMMA CutNothingFacts ==
    ASSUME NEW i \in Nat, NEW b \in BOOLEAN,
           NEW x, x = [msgs |-> <<>>, end |-> i, sound |-> b]
    PROVE  /\ x \in CutResult
           /\ x.msgs = <<>> /\ x.end = i /\ (x.sound <=> b)
  <1>1. <<>> \in Seq(Message)
    OBVIOUS
  <1>2. x \in CutResult
    BY <1>1, Zenon DEF CutResult
  <1>3. x.msgs = <<>> /\ x.end = i
    OBVIOUS
  <1>4. x.sound <=> b
    BY Zenon
  <1> QED
    BY <1>2, <1>3, <1>4

\* Cut gives what the recursion says, of the right types.
LEMMA CutFacts ==
    ASSUME NEW buf \in Seq(Byte)
    PROVE  \E f : CutIs(buf, f) /\ Cut(buf) = f[0]
  <1> DEFINE n == Len(buf)
             g == CHOOSE h : CutFrom(buf, 0, h)
  <1>10. CutFrom(buf, 0, g)
    BY CutExists, Zenon
  <1>11. Cut(buf) = g[0]
    BY DEF Cut, CutFrom, CutBody
  <1>12. \E f : CutFrom(buf, 0, f) /\ Cut(buf) = f[0]
    <2> HIDE DEF g
    <2> QED
      BY <1>10, <1>11
  <1>1. PICK f : CutFrom(buf, 0, f) /\ Cut(buf) = f[0]
    BY <1>12
  <1>2. Cut(buf) = f[0]
    BY <1>1
  <1>3. n \in Nat
    OBVIOUS
  <1>4. \A i \in 0..n : f[i] = CutBody(buf, f, i)
    BY <1>1 DEF CutFrom
  <1>5. ASSUME NEW i \in 0..n, ~Whole(buf, i)
        PROVE  /\ f[i] \in CutResult /\ f[i].msgs = <<>> /\ f[i].end = i
               /\ f[i].sound <=> Len(buf) - i < HeaderBytes \/ Headed(buf, i)
    <2>10. PICK b \in BOOLEAN : b <=> Len(buf) - i < HeaderBytes \/ Headed(buf, i)
      OBVIOUS
    <2>2. CutBody(buf, f, i) = [msgs |-> <<>>, end |-> i, sound |-> b]
      BY <1>5, <2>10, CutBodyStops
    <2>3. f[i] = [msgs |-> <<>>, end |-> i, sound |-> b]
      BY <1>4, <2>2, Zenon
    <2>4. i \in Nat
      BY <1>3
    <2>6. \A x : x = [msgs |-> <<>>, end |-> i, sound |-> b] =>
             x \in CutResult /\ x.msgs = <<>> /\ x.end = i /\ (x.sound <=> b)
      BY <2>4, CutNothingFacts
    <2>5. /\ f[i] \in CutResult /\ f[i].msgs = <<>> /\ f[i].end = i
          /\ f[i].sound <=> b
      BY <2>3, <2>6, Zenon
    <2> QED
      BY <2>5, <2>10, Zenon
  <1>6. ASSUME NEW i \in 0..n, Whole(buf, i)
        PROVE  /\ EndOf(buf, i) \in i + 1..n
               /\ f[EndOf(buf, i)] \in CutResult =>
                     /\ f[i] \in CutResult
                     /\ f[i].msgs = <<At(buf, i)>> \o f[EndOf(buf, i)].msgs
                     /\ f[i].end = f[EndOf(buf, i)].end
                     /\ f[i].sound <=> /\ f[EndOf(buf, i)].sound
                                       /\ Matches(buf, i, HeaderBytes + BodyBytes(At(buf, i)))
    <2>1. i + HeaderBytes <= Len(buf) /\ EndOf(buf, i) <= n
      BY <1>6 DEF Whole, Headed
    <2>2. At(buf, i) \in Message /\ EndOf(buf, i) \in i + 1..n
      BY <1>3, <2>1, AtFacts
    <2>3. f[i] = CutBody(buf, f, i)
      BY <1>4
    <2>4. ASSUME f[EndOf(buf, i)] \in CutResult
          PROVE  /\ CutBody(buf, f, i) \in CutResult
                 /\ CutBody(buf, f, i).msgs = <<At(buf, i)>> \o f[EndOf(buf, i)].msgs
                 /\ CutBody(buf, f, i).end = f[EndOf(buf, i)].end
                 /\ CutBody(buf, f, i).sound <=>
                       /\ f[EndOf(buf, i)].sound
                       /\ Matches(buf, i, HeaderBytes + BodyBytes(At(buf, i)))
      BY <1>6, <2>4, CutBodyGoesOn, Zenon
    <2> QED
      BY <2>2, <2>3, <2>4, Zenon
  <1>7. \A i \in 0..n : f[i] \in CutResult /\ f[i].end \in i..n
    <2> DEFINE T == {k \in 0..n : ~(f[n - k] \in CutResult /\ f[n - k].end \in n - k..n)}
    <2>1. ASSUME T # {} PROVE FALSE
      <3>1. PICK m \in T : \A k \in T : m <= k
        <4>1. T \in SUBSET Nat
          BY <1>3
        <4> HIDE DEF T
        <4> QED
          BY <2>1, <4>1, LeastNumber
      <3> DEFINE i == n - m
      <3>2. i \in 0..n /\ m \in 0..n /\ ~(f[i] \in CutResult /\ f[i].end \in i..n)
        BY <1>3, <3>1
      <3>3. Whole(buf, i)
        BY <1>3, <1>5, <3>2
      <3>4. EndOf(buf, i) \in i + 1..n
        BY <1>6, <3>2, <3>3
      <3>5. n - EndOf(buf, i) \in 0..n /\ n - EndOf(buf, i) < m
        BY <1>3, <3>2, <3>4
      <3>6. n - EndOf(buf, i) \notin T
        BY <3>1, <3>5, <1>3
      <3>7. n - (n - EndOf(buf, i)) = EndOf(buf, i)
        BY <1>3, <3>4
      <3>8. f[EndOf(buf, i)] \in CutResult /\ f[EndOf(buf, i)].end \in EndOf(buf, i)..n
        BY <3>5, <3>6, <3>7
      <3>9. f[i] \in CutResult /\ f[i].end = f[EndOf(buf, i)].end
        BY <1>6, <3>2, <3>3, <3>8
      <3> QED
        BY <1>3, <3>2, <3>4, <3>8, <3>9
    <2>2. \A i \in 0..n : n - i \in 0..n /\ n - (n - i) = i
      BY <1>3
    <2> QED
      BY <2>1, <2>2
  <1>8. CutIs(buf, f)
    <2> SUFFICES ASSUME NEW i \in 0..n
                 PROVE  /\ f[i].msgs \in Seq(Message) /\ f[i].end \in i..Len(buf)
                        /\ f[i].sound \in BOOLEAN
                        /\ ~Whole(buf, i) =>
                              /\ f[i].msgs = <<>> /\ f[i].end = i
                              /\ f[i].sound <=> Len(buf) - i < HeaderBytes \/ Headed(buf, i)
                        /\ Whole(buf, i) =>
                              /\ f[i].msgs = <<At(buf, i)>> \o f[EndOf(buf, i)].msgs
                              /\ f[i].end = f[EndOf(buf, i)].end
                              /\ f[i].sound <=>
                                    /\ f[EndOf(buf, i)].sound
                                    /\ Matches(buf, i, HeaderBytes + BodyBytes(At(buf, i)))
      BY Zenon DEF CutIs
    <2>1. f[i].msgs \in Seq(Message) /\ f[i].sound \in BOOLEAN
      BY <1>7 DEF CutResult
    <2>2. ASSUME Whole(buf, i) PROVE f[EndOf(buf, i)] \in CutResult
      <3>1. EndOf(buf, i) \in i + 1..n
        BY <1>6, <2>2
      <3>2. EndOf(buf, i) \in 0..n
        BY <1>3, <3>1
      <3> QED
        BY <1>7, <3>2
    <2> QED
      BY <1>5, <1>6, <1>7, <2>1, <2>2, Zenon
  <1> QED
    BY <1>2, <1>8

\* Each message cut starts at a first byte of the buffer, one behind the other.
LEMMA CutPositions ==
    ASSUME NEW buf \in Seq(Byte)
    PROVE  /\ Cut(buf).msgs \in Seq(Message)
           /\ Cut(buf).end \in 0..Len(buf)
           /\ \E pos \in [1..Len(Cut(buf).msgs) -> 1..Cut(buf).end] :
                 /\ \A j, k \in 1..Len(Cut(buf).msgs) : j < k => pos[j] < pos[k]
                 /\ \A k \in 1..Len(Cut(buf).msgs) : buf[pos[k]] = <<Cut(buf).msgs[k], 1>>
  <1>1. PICK f : CutIs(buf, f) /\ Cut(buf) = f[0]
    BY CutFacts
  <1> DEFINE n == Len(buf)
             Placed(i) == \E pos \in [1..Len(f[i].msgs) -> i + 1..f[i].end] :
                             /\ \A j, k \in 1..Len(f[i].msgs) : j < k => pos[j] < pos[k]
                             /\ \A k \in 1..Len(f[i].msgs) : buf[pos[k]] = <<f[i].msgs[k], 1>>
             T == {i \in 0..n : Placed(i)}
  <1>2. n \in Nat
    OBVIOUS
  <1>3. ASSUME NEW i \in 0..n, \A j \in i + 1..n : j \in T
        PROVE  i \in T
    <2>1. CASE ~Whole(buf, i)
      <3>1. f[i].msgs = <<>>
        BY <1>1, <2>1 DEF CutIs
      <3>2. Len(f[i].msgs) = 0
        BY <3>1
      <3>3. 1..Len(f[i].msgs) = {}
        BY <3>2
      <3>4. [k \in {} |-> 0] \in [1..Len(f[i].msgs) -> i + 1..f[i].end]
        BY <3>3
      <3> QED
        BY <3>3, <3>4
    <2>2. CASE Whole(buf, i)
      <3> DEFINE e == EndOf(buf, i)
                 q == f[e].msgs
      <3>1. i + HeaderBytes <= n /\ e <= n /\ Matches(buf, i, HeaderBytes)
        BY <2>2 DEF Whole, Headed
      <3>2. At(buf, i) \in Message /\ e \in i + 1..n /\ e > i + 1
        BY <1>2, <3>1, AtFacts
      <3>3. /\ f[i].msgs = <<At(buf, i)>> \o q /\ f[i].end = f[e].end
            /\ q \in Seq(Message) /\ f[e].end \in e..n
        <4>1. e \in 0..n
          BY <1>2, <3>2
        <4> QED
          BY <1>1, <2>2, <4>1 DEF CutIs
      <3>4. PICK pos \in [1..Len(q) -> e + 1..f[e].end] :
               /\ \A j, k \in 1..Len(q) : j < k => pos[j] < pos[k]
               /\ \A k \in 1..Len(q) : buf[pos[k]] = <<q[k], 1>>
        BY <1>3, <3>2
      <3>5. buf[i + 1] = <<At(buf, i), 1>>
        BY <3>1, HeaderAssumption DEF Matches
      <3> HIDE DEF e, q
      <3> DEFINE all == f[i].msgs
                 new == [k \in 1..Len(all) |-> IF k = 1 THEN i + 1 ELSE pos[k - 1]]
      <3>6. /\ Len(q) \in Nat /\ Len(all) = Len(q) + 1 /\ all[1] = At(buf, i)
            /\ \A k \in 2..Len(all) : all[k] = q[k - 1]
        BY <3>2, <3>3
      <3>7. \A k \in 2..Len(all) : k - 1 \in 1..Len(q) /\ new[k] = pos[k - 1] /\ k \in 1..Len(all)
        BY <3>6
      <3>8. new[1] = i + 1 /\ 1 \in 1..Len(all)
        BY <3>6
      <3>9. \A k \in 1..Len(all) : k = 1 \/ k \in 2..Len(all)
        BY <3>6
      <3> HIDE DEF all
      <3>10. new \in [1..Len(all) -> i + 1..f[i].end]
        <4>1. i + 1 \in i + 1..f[i].end
          BY <1>2, <3>2, <3>3
        <4>2. \A k \in 1..Len(q) : pos[k] \in i + 1..f[i].end
          BY <1>2, <3>2, <3>3, <3>4
        <4>3. \A k \in 1..Len(all) : new[k] \in i + 1..f[i].end
          BY <3>7, <3>8, <3>9, <4>1, <4>2
        <4> QED
          BY <4>3
      <3>11. \A k \in 1..Len(all) : buf[new[k]] = <<all[k], 1>>
        <4> HIDE DEF new
        <4> QED
          BY <3>4, <3>5, <3>6, <3>7, <3>8, <3>9
      <3>12. ASSUME NEW j \in 1..Len(all), NEW k \in 1..Len(all), j < k
             PROVE  new[j] < new[k]
        <4> HIDE DEF new
        <4>1. k \in 2..Len(all) /\ k - 1 \in 1..Len(q) /\ new[k] = pos[k - 1]
          BY <3>6, <3>7, <3>12
        <4>2. CASE j = 1
          <5>1. pos[k - 1] \in e + 1..f[e].end
            BY <3>4, <4>1
          <5>2. i + 1 < pos[k - 1]
            BY <1>2, <3>2, <3>3, <5>1
          <5> QED
            BY <3>8, <4>1, <4>2, <5>2
        <4>3. CASE j # 1
          <5>1. j \in 2..Len(all) /\ j - 1 < k - 1
            BY <3>12, <4>3
          <5>2. new[j] = pos[j - 1] /\ j - 1 \in 1..Len(q)
            BY <3>7, <5>1
          <5> QED
            BY <3>4, <4>1, <5>1, <5>2
        <4> QED
          BY <4>2, <4>3
      <3> HIDE DEF new
      <3>13. Placed(i)
        BY <3>10, <3>11, <3>12 DEF all
      <3> QED
        BY <3>13
    <2> QED
      BY <2>1, <2>2
  <1>4. 0 \in T
    <2> HIDE DEF T
    <2>1. \A i \in 0..n : i \in T
      BY <1>2, <1>3, Downward
    <2> QED
      BY <1>2, <2>1
  <1>5. 0 \in 0..Len(buf)
    BY <1>2
  <1>6. f[0].msgs \in Seq(Message) /\ f[0].end \in 0..Len(buf)
    BY <1>1, <1>5 DEF CutIs
  <1>7. \E pos \in [1..Len(f[0].msgs) -> 1..f[0].end] :
           /\ \A j, k \in 1..Len(f[0].msgs) : j < k => pos[j] < pos[k]
           /\ \A k \in 1..Len(f[0].msgs) : buf[pos[k]] = <<f[0].msgs[k], 1>>
    <2>1. 0 + 1 = 1 /\ Placed(0)
      BY <1>4
    <2> QED
      BY <2>1
  <1> HIDE DEF Placed
  <1> QED
    BY <1>1, <1>6, <1>7, Zenon

\* A buffer and a longer one look the same where both reach.
LEMMA Extended ==
    ASSUME NEW a \in Seq(Byte), NEW s \in Seq(Byte), Len(a) <= Len(s),
           \A i \in 1..Len(a) : s[i] = a[i],
           NEW i \in 0..Len(a), i + HeaderBytes <= Len(a)
    PROVE  /\ At(s, i) = At(a, i) /\ EndOf(s, i) = EndOf(a, i)
           /\ Headed(s, i) <=> Headed(a, i)
           /\ Whole(a, i) =>
                 /\ Whole(s, i)
                 /\ Matches(s, i, HeaderBytes + BodyBytes(At(s, i)))
                       <=> Matches(a, i, HeaderBytes + BodyBytes(At(a, i)))
  <1>1. At(s, i) = At(a, i) /\ EndOf(s, i) = EndOf(a, i)
    <2>1. i + 1 \in 1..Len(a)
      BY HeaderAssumption
    <2> QED
      BY <2>1 DEF At, EndOf
  <1>2. ASSUME NEW n \in Nat, i + n <= Len(a) PROVE Matches(s, i, n) <=> Matches(a, i, n)
    <2>1. \A k \in 1..n : i + k \in 1..Len(a)
      BY <1>2
    <2> QED
      BY <1>1, <2>1 DEF Matches
  <1>3. Headed(s, i) <=> Headed(a, i)
    BY <1>2, HeaderAssumption DEF Headed
  <1>4. BodyBytes(At(a, i)) \in {1, 2}
    BY AtFacts
  <1>5. ASSUME Whole(a, i)
        PROVE  /\ Whole(s, i)
               /\ Matches(s, i, HeaderBytes + BodyBytes(At(s, i)))
                     <=> Matches(a, i, HeaderBytes + BodyBytes(At(a, i)))
    <2>1. EndOf(a, i) <= Len(a) /\ EndOf(a, i) \in Nat
      BY <1>5, AtFacts DEF Whole
    <2>2. Whole(s, i)
      BY <1>1, <1>3, <1>5, <2>1 DEF Whole
    <2>3. HeaderBytes + BodyBytes(At(a, i)) \in Nat /\ i + (HeaderBytes + BodyBytes(At(a, i))) <= Len(a)
      BY <1>4, <2>1, HeaderAssumption DEF EndOf
    <2> QED
      BY <1>1, <1>2, <2>2, <2>3
  <1> QED
    BY <1>1, <1>3, <1>5

\* Cutting more of a stream: what was sound stays so, and cutting goes on where
\* it stopped.
LEMMA CutLonger ==
    ASSUME NEW a \in Seq(Byte), NEW s \in Seq(Byte), Len(a) <= Len(s),
           \A i \in 1..Len(a) : s[i] = a[i],
           NEW f, CutIs(a, f), NEW g, CutIs(s, g)
    PROVE  \A i \in 0..Len(a) :
              /\ g[i].sound => f[i].sound
              /\ f[i].sound => /\ g[i].end = g[f[i].end].end
                               /\ g[i].sound <=> g[f[i].end].sound
  <1> DEFINE n == Len(a)
             Good(i) == /\ g[i].sound => f[i].sound
                        /\ f[i].sound => /\ g[i].end = g[f[i].end].end
                                         /\ g[i].sound <=> g[f[i].end].sound
             T == {i \in 0..n : Good(i)}
  <1>1. n \in Nat /\ \A i \in 0..n : i \in 0..Len(s)
    OBVIOUS
  <1>2. ASSUME NEW i \in 0..n, \A j \in i + 1..n : j \in T
        PROVE  i \in T
    <2>1. CASE ~Whole(a, i)
      <3>1. f[i].end = i /\ (f[i].sound <=> n - i < HeaderBytes \/ Headed(a, i))
        BY <2>1 DEF CutIs
      <3>2. ASSUME ~f[i].sound PROVE ~g[i].sound
        <4>1. i + HeaderBytes <= n /\ ~Headed(a, i)
          BY <3>1, <3>2, HeaderAssumption
        <4>2. ~Headed(s, i) /\ ~(Len(s) - i < HeaderBytes)
          BY <4>1, Extended, HeaderAssumption
        <4>3. ~Whole(s, i)
          BY <4>2 DEF Whole
        <4> QED
          BY <1>1, <4>2, <4>3 DEF CutIs
      <3> QED
        BY <3>1, <3>2
    <2>2. CASE Whole(a, i)
      <3> DEFINE e == EndOf(a, i)
      <3>1. i + HeaderBytes <= n /\ e \in i + 1..n
        BY <1>1, <2>2, AtFacts DEF Whole, Headed
      <3>2. /\ EndOf(s, i) = e /\ Whole(s, i)
            /\ Matches(s, i, HeaderBytes + BodyBytes(At(s, i)))
                  <=> Matches(a, i, HeaderBytes + BodyBytes(At(a, i)))
        BY <2>2, <3>1, Extended
      <3>3. e \in T
        BY <1>2, <3>1
      <3>4. /\ f[i].end = f[e].end
            /\ f[i].sound <=> f[e].sound /\ Matches(a, i, HeaderBytes + BodyBytes(At(a, i)))
        BY <2>2 DEF CutIs
      <3>5. /\ g[i].end = g[e].end
            /\ g[i].sound <=> g[e].sound /\ Matches(s, i, HeaderBytes + BodyBytes(At(s, i)))
        <4>1. i \in 0..Len(s)
          BY <1>1
        <4>2. /\ g[i].end = g[EndOf(s, i)].end
              /\ g[i].sound <=> /\ g[EndOf(s, i)].sound
                                /\ Matches(s, i, HeaderBytes + BodyBytes(At(s, i)))
          BY <3>2, <4>1, Zenon DEF CutIs
        <4> QED
          BY <3>2, <4>2, Zenon
      <3> HIDE DEF e
      <3>6. Good(e)
        BY <3>3
      <3>7. Good(i)
        BY <3>2, <3>4, <3>5, <3>6
      <3> QED
        BY <3>7
    <2> QED
      BY <2>1, <2>2
  <1>3. \A i \in 0..n : i \in T
    <2> HIDE DEF T
    <2> QED
      BY <1>1, <1>2, Downward
  <1> QED
    BY <1>3

\* Cutting from a position on is cutting what follows it.
LEMMA CutShifted ==
    ASSUME NEW s \in Seq(Byte), NEW k \in 0..Len(s), NEW t \in Seq(Byte), Len(t) = Len(s) - k,
           \A i \in 1..Len(t) : t[i] = s[k + i],
           NEW g, CutIs(s, g), NEW h, CutIs(t, h)
    PROVE  \A i \in 0..Len(t) : /\ g[k + i].end = k + h[i].end
                                /\ g[k + i].sound <=> h[i].sound
  <1> DEFINE n == Len(t)
             Good(i) == /\ g[k + i].end = k + h[i].end
                        /\ g[k + i].sound <=> h[i].sound
             T == {i \in 0..n : Good(i)}
  <1>1. n \in Nat /\ Len(s) \in Nat /\ \A i \in 0..n : k + i \in 0..Len(s)
    OBVIOUS
  <1>2. ASSUME NEW i \in 0..n, i + HeaderBytes <= n
        PROVE  /\ At(s, k + i) = At(t, i) /\ EndOf(s, k + i) = k + EndOf(t, i)
               /\ BodyBytes(At(t, i)) \in {1, 2}
    <2>1. i + 1 \in 1..n /\ k + (i + 1) = (k + i) + 1
      BY <1>1, <1>2, HeaderAssumption
    <2>2. t[i + 1] = s[(k + i) + 1]
      BY <2>1
    <2>3. At(s, k + i) = At(t, i)
      BY <2>2 DEF At
    <2>4. BodyBytes(At(t, i)) \in {1, 2}
      BY <1>2, AtFacts
    <2> QED
      BY <2>3, <2>4, HeaderAssumption DEF EndOf
  <1>3. ASSUME NEW i \in 0..n, i + HeaderBytes <= n, NEW m \in Nat, i + m <= n
        PROVE  Matches(s, k + i, m) <=> Matches(t, i, m)
    <2>1. \A l \in 1..m : i + l \in 1..n /\ k + (i + l) = (k + i) + l
      BY <1>1, <1>3
    <2>2. \A l \in 1..m : t[i + l] = s[(k + i) + l]
      BY <2>1
    <2>3. At(s, k + i) = At(t, i)
      BY <1>2, <1>3
    <2> QED
      BY <2>2, <2>3 DEF Matches
  <1>4. ASSUME NEW i \in 0..n
        PROVE  /\ Len(s) - (k + i) < HeaderBytes <=> n - i < HeaderBytes
               /\ Headed(s, k + i) <=> Headed(t, i)
               /\ Whole(s, k + i) <=> Whole(t, i)
    <2>1. Len(s) - (k + i) < HeaderBytes <=> n - i < HeaderBytes
      BY <1>1, HeaderAssumption
    <2>2. (k + i) + HeaderBytes <= Len(s) <=> i + HeaderBytes <= n
      BY <1>1, HeaderAssumption
    <2>3. Headed(s, k + i) <=> Headed(t, i)
      BY <1>3, <2>2, HeaderAssumption DEF Headed
    <2>4. ASSUME i + HeaderBytes <= n PROVE EndOf(s, k + i) <= Len(s) <=> EndOf(t, i) <= n
      <3>1. EndOf(s, k + i) = k + EndOf(t, i) /\ EndOf(t, i) \in Nat
        BY <1>2, <2>4, AtFacts
      <3> QED
        BY <1>1, <3>1
    <2>5. Whole(s, k + i) <=> Whole(t, i)
      BY <2>3, <2>4 DEF Whole, Headed
    <2> QED
      BY <2>1, <2>3, <2>5
  <1>5. ASSUME NEW i \in 0..n, \A j \in i + 1..n : j \in T
        PROVE  i \in T
    <2>1. k + i \in 0..Len(s)
      BY <1>1
    <2>2. CASE ~Whole(t, i)
      <3>1. h[i].end = i /\ (h[i].sound <=> n - i < HeaderBytes \/ Headed(t, i))
        BY <2>2 DEF CutIs
      <3>2. /\ g[k + i].end = k + i
            /\ g[k + i].sound <=> Len(s) - (k + i) < HeaderBytes \/ Headed(s, k + i)
        BY <1>4, <2>1, <2>2 DEF CutIs
      <3>3. Good(i)
        BY <1>4, <3>1, <3>2
      <3> QED
        BY <3>3
    <2>3. CASE Whole(t, i)
      <3> DEFINE e == EndOf(t, i)
      <3>0. i + HeaderBytes <= n /\ e <= n
        BY <2>3 DEF Whole, Headed
      <3>9. e \in Nat /\ e > i + 1
        BY <3>0, AtFacts
      <3> HIDE DEF e
      <3>1. i + HeaderBytes <= n /\ e \in i + 1..n
        BY <1>1, <3>0, <3>9
      <3> USE DEF e
      <3>2. EndOf(s, k + i) = k + e /\ At(s, k + i) = At(t, i)
        BY <1>2, <3>1
      <3>3. Matches(s, k + i, HeaderBytes + BodyBytes(At(s, k + i)))
               <=> Matches(t, i, HeaderBytes + BodyBytes(At(t, i)))
        <4>1. /\ HeaderBytes + BodyBytes(At(t, i)) \in Nat
              /\ i + (HeaderBytes + BodyBytes(At(t, i))) <= n
          <5>1. BodyBytes(At(t, i)) \in {1, 2}
            BY <1>2, <3>0
          <5>2. (i + HeaderBytes) + BodyBytes(At(t, i)) <= n
            BY <3>0 DEF EndOf
          <5> QED
            BY <5>1, <5>2, HeaderAssumption
        <4> QED
          BY <1>3, <3>1, <3>2, <4>1
      <3>4. Good(e)
        BY <1>5, <3>1
      <3>5. /\ h[i].end = h[e].end
            /\ h[i].sound <=> h[e].sound /\ Matches(t, i, HeaderBytes + BodyBytes(At(t, i)))
        BY <2>3 DEF CutIs
      <3>6. Whole(s, k + i)
        BY <1>4, <2>3
      <3>7. /\ g[k + i].end = g[EndOf(s, k + i)].end
            /\ g[k + i].sound <=> /\ g[EndOf(s, k + i)].sound
                                  /\ Matches(s, k + i, HeaderBytes + BodyBytes(At(s, k + i)))
        BY <2>1, <3>6, Zenon DEF CutIs
      <3> HIDE DEF e
      <3>8. Good(i)
        BY <3>2, <3>3, <3>4, <3>5, <3>7
      <3> QED
        BY <3>8
    <2> QED
      BY <2>2, <2>3
  <1>6. \A i \in 0..n : i \in T
    <2> HIDE DEF T
    <2> QED
      BY <1>1, <1>5, Downward
  <1> QED
    BY <1>6

\* The types of a cut and of what it leaves.
LEMMA RestFacts ==
    ASSUME NEW s \in Seq(Byte)
    PROVE  /\ Cut(s).end \in 0..Len(s) /\ Cut(s).sound \in BOOLEAN
           /\ Rest(s) \in Seq(Byte) /\ Len(Rest(s)) = Len(s) - Cut(s).end
           /\ \A i \in 1..Len(Rest(s)) : Rest(s)[i] = s[Cut(s).end + i]
  <1>1. PICK f : CutIs(s, f) /\ Cut(s) = f[0]
    BY CutFacts
  <1>2. 0 \in 0..Len(s)
    OBVIOUS
  <1>3. Cut(s).end \in 0..Len(s) /\ Cut(s).sound \in BOOLEAN
    BY <1>1, <1>2 DEF CutIs
  <1> DEFINE e == Cut(s).end
             r == SubSeq(s, e + 1, Len(s))
  <1> HIDE DEF e
  <1>4. e \in 0..Len(s) /\ Len(s) \in Nat
    BY <1>3 DEF e
  <1>5. \A i \in e + 1..Len(s) : s[i] \in Byte
    BY <1>4
  <1>6. /\ r \in Seq(Byte) /\ Len(r) = (IF e + 1 <= Len(s) THEN Len(s) - (e + 1) + 1 ELSE 0)
        /\ \A i \in 1..Len(s) - (e + 1) + 1 : r[i] = s[(e + 1) + i - 1]
    <2>1. e + 1 \in Int /\ Len(s) \in Int
      BY <1>4
    <2> QED
      BY <1>5, <2>1, SubSeqProperties
  <1>7. Len(r) = Len(s) - e /\ \A i \in 1..Len(r) : r[i] = s[e + i]
    <2> HIDE DEF r
    <2> QED
      BY <1>4, <1>6
  <1> QED
    BY <1>3, <1>6, <1>7 DEF Rest, e

\* One sequence behind another.
LEMMA JoinFacts ==
    ASSUME NEW S, NEW a \in Seq(S), NEW b \in Seq(S)
    PROVE  /\ a \o b \in Seq(S) /\ Len(a \o b) = Len(a) + Len(b) /\ Len(a) \in Nat /\ Len(b) \in Nat
           /\ \A i \in 1..Len(a) : (a \o b)[i] = a[i]
           /\ \A i \in 1..Len(b) : (a \o b)[Len(a) + i] = b[i]
  OBVIOUS

\* Concatenation is associative.
LEMMA JoinThree ==
    ASSUME NEW x \in Seq(Byte), NEW y \in Seq(Byte), NEW z \in Seq(Byte)
    PROVE  (x \o y) \o z = x \o (y \o z)
  BY ConcatAssociative

\* What is left of a stream after a cut, with what follows, is a part of it.
LEMMA RestJoin ==
    ASSUME NEW a \in Seq(Byte), NEW b \in Seq(Byte)
    PROVE  LET s == a \o b
               t == Rest(a) \o b
           IN  /\ s \in Seq(Byte) /\ t \in Seq(Byte)
               /\ Cut(a).end \in 0..Len(a) /\ Len(a) <= Len(s) /\ Len(t) = Len(s) - Cut(a).end
               /\ \A i \in 1..Len(a) : s[i] = a[i]
               /\ \A i \in 1..Len(t) : t[i] = s[Cut(a).end + i]
  <1> DEFINE s == a \o b
             r == Rest(a)
             t == r \o b
             k == Cut(a).end
  <1>1. /\ s \in Seq(Byte) /\ Len(s) = Len(a) + Len(b) /\ Len(a) \in Nat /\ Len(b) \in Nat
        /\ \A i \in 1..Len(a) : s[i] = a[i]
        /\ \A i \in 1..Len(b) : s[Len(a) + i] = b[i]
    OBVIOUS
  <1>2. /\ k \in 0..Len(a) /\ r \in Seq(Byte) /\ Len(r) = Len(a) - k
        /\ \A i \in 1..Len(r) : r[i] = a[k + i]
    BY RestFacts
  <1> HIDE DEF r, k, s
  <1>3. /\ t \in Seq(Byte) /\ Len(t) = Len(r) + Len(b) /\ Len(r) \in Nat
        /\ \A i \in 1..Len(r) : t[i] = r[i]
        /\ \A i \in 1..Len(b) : t[Len(r) + i] = b[i]
    <2>1. r \in Seq(Byte)
      BY <1>2
    <2> QED
      BY <2>1, JoinFacts
  <1> HIDE DEF t
  <1>4. Len(t) = Len(s) - k /\ k \in 0..Len(s)
    BY <1>1, <1>2, <1>3
  <1>5. ASSUME NEW i \in 1..Len(t) PROVE t[i] = s[k + i]
    <2>1. CASE i <= Len(r)
      <3>1. i \in 1..Len(r) /\ k + i \in 1..Len(a)
        BY <1>1, <1>2, <1>3, <2>1
      <3> QED
        BY <1>1, <1>2, <1>3, <3>1
    <2>2. CASE i > Len(r)
      <3>1. i - Len(r) \in 1..Len(b) /\ Len(r) + (i - Len(r)) = i /\ Len(a) + (i - Len(r)) = k + i
        BY <1>1, <1>2, <1>3, <2>2
      <3> QED
        BY <1>1, <1>3, <3>1
    <2> QED
      BY <1>3, <2>1, <2>2
  <1>6. Len(a) <= Len(s)
    BY <1>1
  <1> QED
    BY <1>1, <1>2, <1>3, <1>4, <1>5, <1>6 DEF s, t, r, k

\* Cutting a stream that got longer.
LEMMA CutJoin ==
    ASSUME NEW a \in Seq(Byte), NEW b \in Seq(Byte)
    PROVE  /\ Cut(a \o b).sound => Cut(a).sound
           /\ Cut(a).sound =>
                 /\ Cut(a \o b).sound <=> Cut(Rest(a) \o b).sound
                 /\ Rest(a \o b) = Rest(Rest(a) \o b)
  <1> DEFINE s == a \o b
             r == Rest(a)
             t == r \o b
             k == Cut(a).end
  <1>1. s \in Seq(Byte) /\ Len(a) <= Len(s) /\ \A i \in 1..Len(a) : s[i] = a[i]
    BY RestJoin
  <1>2. k \in 0..Len(a)
    BY RestFacts
  <1>3. t \in Seq(Byte)
    BY RestJoin
  <1>4. Len(t) = Len(s) - k /\ k \in 0..Len(s)
    <2>1. Len(t) = Len(s) - k
      BY RestJoin
    <2> QED
      BY <1>1, <1>2, <2>1
  <1>5. \A i \in 1..Len(t) : t[i] = s[k + i]
    BY RestJoin
  <1> HIDE DEF r, k, s, t
  <1>6. PICK f : CutIs(a, f) /\ Cut(a) = f[0]
    BY CutFacts
  <1>7. PICK g : CutIs(s, g) /\ Cut(s) = g[0]
    BY <1>1, CutFacts
  <1>8. PICK h : CutIs(t, h) /\ Cut(t) = h[0]
    BY <1>3, CutFacts
  <1>9. /\ g[0].sound => f[0].sound
        /\ f[0].sound => /\ g[0].end = g[f[0].end].end
                         /\ g[0].sound <=> g[f[0].end].sound
    <2>1. 0 \in 0..Len(a) /\ Len(a) <= Len(s)
      BY <1>1
    <2> QED
      BY <1>1, <1>6, <1>7, <2>1, CutLonger
  <1>10. g[k].end = k + h[0].end /\ (g[k].sound <=> h[0].sound)
    <2>1. 0 \in 0..Len(t) /\ k + 0 = k
      BY <1>2, <1>3
    <2>3. s \in Seq(Byte) /\ t \in Seq(Byte) /\ CutIs(s, g) /\ CutIs(t, h)
      BY <1>1, <1>3, <1>7, <1>8
    <2>4. \A i \in 0..Len(t) : /\ g[k + i].end = k + h[i].end
                               /\ g[k + i].sound <=> h[i].sound
      BY <1>4, <1>5, <2>3, CutShifted
    <2>2. g[k + 0].end = k + h[0].end /\ (g[k + 0].sound <=> h[0].sound)
      BY <2>1, <2>4
    <2> QED
      BY <2>1, <2>2
  <1>11. f[0].end = k
    BY <1>6 DEF k
  <1>12. Cut(s).sound => Cut(a).sound
    BY <1>6, <1>7, <1>9
  <1>13. ASSUME Cut(a).sound
         PROVE  Cut(s).end = k + Cut(t).end /\ (Cut(s).sound <=> Cut(t).sound)
    BY <1>6, <1>7, <1>8, <1>9, <1>10, <1>11, <1>13
  <1>14. ASSUME Cut(a).sound PROVE Rest(s) = Rest(t)
    <2>1. /\ Rest(s) \in Seq(Byte) /\ Len(Rest(s)) = Len(s) - Cut(s).end
          /\ \A i \in 1..Len(Rest(s)) : Rest(s)[i] = s[Cut(s).end + i]
      BY <1>1, RestFacts
    <2>2. /\ Rest(t) \in Seq(Byte) /\ Len(Rest(t)) = Len(t) - Cut(t).end /\ Cut(t).end \in 0..Len(t)
          /\ \A i \in 1..Len(Rest(t)) : Rest(t)[i] = t[Cut(t).end + i]
      BY <1>3, RestFacts
    <2>3. Cut(s).end = k + Cut(t).end
      BY <1>13, <1>14
    <2>4. Len(Rest(s)) = Len(Rest(t))
      BY <1>1, <1>2, <1>3, <1>4, <2>1, <2>2, <2>3
    <2>5. ASSUME NEW i \in 1..Len(Rest(s)) PROVE Rest(s)[i] = Rest(t)[i]
      <3>1. Cut(t).end + i \in 1..Len(t)
        BY <1>3, <2>2, <2>4
      <3>2. t[Cut(t).end + i] = s[k + (Cut(t).end + i)]
        BY <1>5, <3>1
      <3>3. k + (Cut(t).end + i) = Cut(s).end + i
        BY <1>2, <2>2, <2>3
      <3> QED
        BY <2>1, <2>2, <2>4, <3>2, <3>3
    <2> QED
      BY <2>1, <2>2, <2>4, <2>5, SeqEqual
  <1> QED
    BY <1>12, <1>13, <1>14 DEF s, t, r

\* The empty sequence, and a sequence with nothing left of it.
LEMMA EmptyFacts ==
    ASSUME NEW S, NEW s \in Seq(S)
    PROVE  /\ Len(s) = 0 <=> s = <<>>
           /\ SubSeq(s, 1, Len(s)) = s
           /\ <<>> \o s = s /\ s \o <<>> = s
  <1>1. SubSeq(s, 1, Len(s)) = s
    BY SubSeqFull
  <1>2. <<>> \o s = s /\ s \o <<>> = s
    BY ConcatEmptySeq
  <1>3. Len(s) = 0 <=> s = <<>>
    BY EmptySeq
  <1> QED
    BY <1>1, <1>2, <1>3

\* The first bytes of a frame.
LEMMA PartFacts ==
    ASSUME NEW m \in Message, NEW n \in 0..Len(Frame(m)), NEW j \in 0..Len(Frame(m)) - n
    PROVE  LET p == SubSeq(Frame(m), n + 1, n + j)
           IN  /\ p \in Seq(Byte) /\ Len(p) = j
               /\ \A k \in 1..j : p[k] = <<m, n + k>>
  <1> DEFINE f == Frame(m)
             p == SubSeq(f, n + 1, n + j)
  <1>1. /\ f \in Seq(Byte) /\ Len(f) = HeaderBytes + BodyBytes(m) /\ Len(f) \in Nat
        /\ \A k \in 1..Len(f) : f[k] = <<m, k>>
    BY FrameFacts, HeaderAssumption
  <1> HIDE DEF f
  <1>2. n \in Nat /\ j \in Nat /\ n + j <= Len(f)
    BY <1>1 DEF f
  <1>3. /\ \A k \in n + 1..n + j : f[k] \in Byte
        /\ n + 1 \in Int /\ n + j \in Int
    BY <1>1, <1>2
  <1>4. /\ p \in Seq(Byte) /\ Len(p) = (IF n + 1 <= n + j THEN (n + j) - (n + 1) + 1 ELSE 0)
        /\ \A i \in 1..(n + j) - (n + 1) + 1 : p[i] = f[(n + 1) + i - 1]
    BY <1>3, SubSeqProperties
  <1> HIDE DEF p
  <1>5. Len(p) = j
    BY <1>2, <1>4
  <1>6. ASSUME NEW k \in 1..j PROVE p[k] = <<m, n + k>>
    <2>1. k \in 1..(n + j) - (n + 1) + 1 /\ (n + 1) + k - 1 = n + k /\ n + k \in 1..Len(f)
      BY <1>2
    <2> QED
      BY <1>1, <1>4, <2>1
  <1> QED
    BY <1>4, <1>5, <1>6 DEF p, f

\* A frame is cut as a whole, and its beginning is left.
LEMMA CutPart ==
    ASSUME NEW m \in Message, NEW n \in 0..Len(Frame(m)),
           NEW p \in Seq(Byte), Len(p) = n, \A k \in 1..n : p[k] = <<m, k>>
    PROVE  /\ Cut(p).sound
           /\ n = Len(Frame(m)) => Rest(p) = <<>>
           /\ n # Len(Frame(m)) => Rest(p) = p
  <1> DEFINE L == Len(Frame(m))
  <1>1. BodyBytes(m) \in {1, 2} /\ L = HeaderBytes + BodyBytes(m)
    BY FrameFacts
  <1>2. L \in Nat /\ HeaderBytes \in Nat /\ HeaderBytes >= 1 /\ HeaderBytes < L
    BY <1>1, HeaderAssumption
  <1>3. PICK f : CutIs(p, f) /\ Cut(p) = f[0]
    BY CutFacts
  <1>4. 0 \in 0..Len(p) /\ n \in 0..Len(p) /\ n \in Nat
    BY <1>2
  <1>5. ASSUME NEW i \in Nat, i <= n, i >= 1 PROVE At(p, 0) = m /\ Matches(p, 0, i)
    <2>1. 1 \in 1..n /\ \A k \in 1..i : k \in 1..n /\ 0 + k = k
      BY <1>4, <1>5
    <2>2. p[1] = <<m, 1>> /\ \A k \in 1..i : p[0 + k] = <<m, k>>
      BY <2>1
    <2>3. At(p, 0) = m
      BY <2>2 DEF At
    <2> QED
      BY <2>2, <2>3 DEF Matches
  <1>6. HeaderBytes <= n => At(p, 0) = m /\ Headed(p, 0) /\ EndOf(p, 0) = L
    <2>1. ASSUME HeaderBytes <= n PROVE At(p, 0) = m /\ Matches(p, 0, HeaderBytes)
      BY <1>2, <1>5, <2>1
    <2>2. ASSUME HeaderBytes <= n PROVE EndOf(p, 0) = L
      BY <1>1, <1>2, <2>1, <2>2 DEF EndOf
    <2>3. HeaderBytes <= n => 0 + HeaderBytes <= Len(p)
      BY <1>2
    <2> QED
      BY <2>1, <2>2, <2>3 DEF Headed
  <1> HIDE DEF L
  <1>7. CASE n # L
    <2>1. n < L
      BY <1>2, <1>4, <1>7 DEF L
    <2>2. ~Whole(p, 0)
      <3>1. ASSUME Whole(p, 0) PROVE FALSE
        <4>1. 0 + HeaderBytes <= n /\ EndOf(p, 0) <= n
          BY <3>1 DEF Whole, Headed
        <4> QED
          BY <1>2, <1>4, <1>6, <2>1, <4>1
      <3> QED
        BY <3>1
    <2>3. n - 0 < HeaderBytes \/ Headed(p, 0)
      BY <1>2, <1>4, <1>6
    <2>4. f[0].end = 0 /\ f[0].sound
      BY <1>3, <1>4, <2>2, <2>3 DEF CutIs
    <2>5. Rest(p) = SubSeq(p, 0 + 1, Len(p))
      BY <1>3, <2>4 DEF Rest
    <2>6. Rest(p) = p
      BY <2>5, EmptyFacts
    <2> QED
      BY <1>3, <1>7, <2>4, <2>6 DEF L
  <1>8. CASE n = L
    <2>1. HeaderBytes <= n /\ HeaderBytes + BodyBytes(m) \in Nat /\ HeaderBytes + BodyBytes(m) = n
          /\ n >= 1
      BY <1>1, <1>2, <1>8
    <2>2. At(p, 0) = m /\ EndOf(p, 0) = n /\ Whole(p, 0)
      BY <1>4, <1>6, <1>8, <2>1 DEF Whole
    <2>3. Matches(p, 0, HeaderBytes + BodyBytes(At(p, 0)))
      BY <1>5, <1>4, <2>1, <2>2
    <2>4. ~Whole(p, n) /\ n - n < HeaderBytes
      BY <1>2, <1>4 DEF Whole, Headed
    <2>5. f[n].end = n /\ f[n].sound
      BY <1>3, <1>4, <2>4 DEF CutIs
    <2>9. /\ f[0].end = f[EndOf(p, 0)].end
          /\ f[0].sound <=> /\ f[EndOf(p, 0)].sound
                            /\ Matches(p, 0, HeaderBytes + BodyBytes(At(p, 0)))
      BY <1>3, <1>4, <2>2, Zenon DEF CutIs
    <2>6. f[0].end = f[n].end /\ (f[0].sound <=> f[n].sound)
      BY <2>2, <2>3, <2>9, Zenon
    <2>7. Rest(p) \in Seq(Byte) /\ Len(Rest(p)) = 0
      BY <1>3, <1>4, <2>5, <2>6, RestFacts
    <2>8. Rest(p) = <<>>
      BY <2>7, EmptyFacts
    <2> QED
      BY <1>3, <1>8, <2>5, <2>6, <2>8 DEF L
  <1> QED
    BY <1>7, <1>8

\* More of a message is written: the stream stays whole messages and then the
\* beginning of this one, until it is complete.
LEMMA WriteKeepsCut ==
    ASSUME NEW s \in Seq(Byte), Cut(s).sound, NEW m \in Message,
           NEW n \in 0..Len(Frame(m)), Rest(s) = SubSeq(Frame(m), 1, n),
           NEW j \in 0..Len(Frame(m)) - n
    PROVE  LET s2 == s \o SubSeq(Frame(m), n + 1, n + j)
           IN  /\ WellCut(s2)
               /\ n + j = Len(Frame(m)) => Rest(s2) = <<>>
               /\ n + j # Len(Frame(m)) => Rest(s2) = SubSeq(Frame(m), 1, n + j)
  <1> DEFINE L == Len(Frame(m))
             q == SubSeq(Frame(m), n + 1, n + j)
             r == Rest(s)
             p == SubSeq(Frame(m), 1, n + j)
  <1>1. L \in Nat /\ n \in Nat /\ j \in Nat /\ n + j \in 0..L /\ 0 \in 0..L /\ n \in 0..L - 0
        /\ n + j \in 0..L - 0
    BY FrameFacts, HeaderAssumption
  <1>2. q \in Seq(Byte) /\ Len(q) = j /\ \A k \in 1..j : q[k] = <<m, n + k>>
    BY PartFacts
  <1>3. \A i \in 0..L - 0 :
           LET x == SubSeq(Frame(m), 0 + 1, 0 + i)
           IN  x \in Seq(Byte) /\ Len(x) = i /\ \A k \in 1..i : x[k] = <<m, 0 + k>>
    BY <1>1, PartFacts
  <1>4. \A i \in 0..L : 0 + i = i /\ i \in 0..L - 0
    BY <1>1
  <1>5. /\ r \in Seq(Byte) /\ Len(r) = n /\ \A k \in 1..n : r[k] = <<m, 0 + k>>
    BY <1>1, <1>3, <1>4
  <1>6. /\ p \in Seq(Byte) /\ Len(p) = n + j /\ \A k \in 1..n + j : p[k] = <<m, 0 + k>>
    BY <1>1, <1>3, <1>4
  <1> HIDE DEF q, r, p, L
  <1>7. /\ r \o q \in Seq(Byte) /\ Len(r \o q) = n + j
        /\ \A k \in 1..n : (r \o q)[k] = r[k]
        /\ \A k \in 1..j : (r \o q)[n + k] = q[k]
    BY <1>2, <1>5, JoinFacts
  <1>8. ASSUME NEW k \in 1..n + j PROVE (r \o q)[k] = <<m, k>>
    <2>1. CASE k <= n
      <3>1. k \in 1..n /\ 0 + k = k
        BY <1>1, <2>1
      <3> QED
        BY <1>5, <1>7, <3>1
    <2>2. CASE k > n
      <3>1. k - n \in 1..j /\ n + (k - n) = k
        BY <1>1, <2>2
      <3> QED
        BY <1>2, <1>7, <3>1
    <2>3. k <= n \/ k > n
      BY <1>1
    <2> QED
      BY <2>1, <2>2, <2>3, Zenon
  <1>9. \A k \in 1..n + j : p[k] = <<m, k>>
    BY <1>1, <1>6
  <1>10. r \o q = p
    <2>1. \A k \in 1..Len(p) : (r \o q)[k] = p[k]
      BY <1>6, <1>8, <1>9
    <2> QED
      BY <1>6, <1>7, <2>1, SeqEqual
  <1>11. /\ Cut(p).sound
         /\ n + j = L => Rest(p) = <<>>
         /\ n + j # L => Rest(p) = p
    BY <1>1, <1>6, <1>9, CutPart DEF L
  <1>12. Cut(s \o q).sound /\ Rest(s \o q) = Rest(p)
    BY <1>2, <1>10, <1>11, CutJoin DEF r
  <1>13. ASSUME Rest(s \o q) # <<>>
         PROVE  Rest(s \o q) = SubSeq(Frame(Rest(s \o q)[1][1]), 1, Len(Rest(s \o q)))
    <2>1. Rest(s \o q) = p
      BY <1>11, <1>12, <1>13
    <2>2. Len(p) # 0
      BY <1>6, <1>13, <2>1, EmptyFacts
    <2>3. 1 \in 1..n + j
      BY <1>1, <1>6, <2>2
    <2>4. p[1][1] = m
      BY <1>9, <2>3
    <2> QED
      BY <1>6, <2>1, <2>4 DEF p
  <1> QED
    BY <1>11, <1>12, <1>13 DEF WellCut, q, p, L

\* Part of the stream is read and cut: what is left with what is under way is as
\* before.
LEMMA ReadKeepsCut ==
    ASSUME NEW a \in Seq(Byte), NEW b \in Seq(Byte), WellCut(a \o b)
    PROVE  /\ Cut(a).sound
           /\ WellCut(Rest(a) \o b)
           /\ Rest(Rest(a) \o b) = Rest(a \o b)
  BY CutJoin DEF WellCut

----------------------------------------------------------------------------
(* The lanes. *)

\* A byte is a byte of a message with an id.
LEMMA ByteFacts ==
    ASSUME NEW s \in Seq(Byte), NEW i \in 1..Len(s)
    PROVE  s[i][1] \in Message /\ s[i][1].id \in Nat /\ s[i][2] \in Nat
  <1>1. s[i] \in Byte
    OBVIOUS
  <1>2. s[i][1] \in Message /\ s[i][2] \in Nat
    BY <1>1 DEF Byte
  <1> QED
    BY <1>2, FrameFacts

\* What a queue holds are messages, and their ids numbers.
LEMMA QueueFacts ==
    ASSUME NEW q \in Seq(Message), NEW i \in 1..Len(q)
    PROVE  q[i] \in Message /\ q[i].id \in Nat
  <1>1. q[i] \in Message
    OBVIOUS
  <1> QED
    BY <1>1, FrameFacts

\* What is cut out of a stream leaves its lane at the near end.
LEMMA ReadLane ==
    ASSUME NEW a \in Seq(Byte), NEW b \in Seq(Byte), NEW lo \in Nat, NEW hi \in Nat, lo <= hi,
           StreamLane(a \o b, lo, hi)
    PROVE  \E mid \in lo..hi : /\ MessageLane(Cut(a).msgs, lo, mid)
                               /\ StreamLane(Rest(a) \o b, mid, hi)
  <1> DEFINE s == a \o b
             t == Rest(a) \o b
             e == Cut(a).end
             ms == Cut(a).msgs
             n == Len(ms)
  <1>1. /\ s \in Seq(Byte) /\ t \in Seq(Byte)
        /\ e \in 0..Len(a) /\ Len(a) <= Len(s) /\ Len(t) = Len(s) - e
        /\ \A i \in 1..Len(a) : s[i] = a[i]
        /\ \A i \in 1..Len(t) : t[i] = s[e + i]
    BY RestJoin
  <1>2. ms \in Seq(Message)
    BY CutPositions
  <1>3. PICK pos \in [1..n -> 1..e] :
           /\ \A j, k \in 1..n : j < k => pos[j] < pos[k]
           /\ \A k \in 1..n : a[pos[k]] = <<ms[k], 1>>
    BY CutPositions
  <1> HIDE DEF s, t, e, ms
  <1>4. /\ DOMAIN s = 1..Len(s) /\ DOMAIN t = 1..Len(t) /\ DOMAIN ms = 1..n
        /\ Len(s) \in Nat /\ Len(t) \in Nat /\ n \in Nat
    BY <1>1, <1>2
  <1>5. /\ \A i \in 1..Len(s) : s[i][2] = 1 => lo <= s[i][1].id /\ s[i][1].id < hi
        /\ \A i, j \in 1..Len(s) : i < j /\ s[i][2] = 1 /\ s[j][2] = 1 => s[i][1].id < s[j][1].id
    BY <1>4 DEF StreamLane, s
  <1>6. ASSUME NEW k \in 1..n
        PROVE  /\ pos[k] \in 1..e /\ pos[k] \in 1..Len(s)
               /\ s[pos[k]][1] = ms[k] /\ s[pos[k]][2] = 1
    <2>1. pos[k] \in 1..e
      BY <1>3
    <2>2. pos[k] \in 1..Len(a) /\ pos[k] \in 1..Len(s)
      BY <1>1, <1>4, <2>1
    <2>3. s[pos[k]] = <<ms[k], 1>>
      BY <1>1, <1>3, <2>2
    <2> QED
      BY <2>1, <2>2, <2>3
  <1>7. ASSUME NEW i \in 1..Len(t)
        PROVE  /\ e + i \in 1..Len(s) /\ t[i] = s[e + i]
               /\ t[i][2] = 1 => lo <= t[i][1].id /\ t[i][1].id < hi
               /\ \A k \in 1..n : t[i][2] = 1 => ms[k].id < t[i][1].id
    <2>1. e + i \in 1..Len(s) /\ t[i] = s[e + i] /\ \A k \in 1..e : k < e + i
      BY <1>1, <1>4
    <2>2. ASSUME NEW k \in 1..n, t[i][2] = 1 PROVE ms[k].id < t[i][1].id
      <3>1. pos[k] < e + i /\ pos[k] \in 1..Len(s)
        BY <1>6, <2>1
      <3>2. s[pos[k]][1].id < s[e + i][1].id
        BY <1>5, <1>6, <2>1, <2>2, <3>1
      <3> QED
        BY <1>6, <2>1, <3>2
    <2> QED
      BY <1>5, <2>1, <2>2
  <1>8. ASSUME NEW i \in 1..Len(t), NEW j \in 1..Len(t), i < j, t[i][2] = 1, t[j][2] = 1
        PROVE  t[i][1].id < t[j][1].id
    <2>1. e + i < e + j
      BY <1>1, <1>8
    <2> QED
      BY <1>5, <1>7, <1>8, <2>1
  <1>9. ASSUME NEW k \in 1..n PROVE lo <= ms[k].id /\ ms[k].id < hi /\ ms[k].id \in Nat
    <2>1. ms[k].id \in Nat
      BY <1>2, QueueFacts
    <2> QED
      BY <1>5, <1>6, <2>1
  <1>10. ASSUME NEW j \in 1..n, NEW k \in 1..n, j < k PROVE ms[j].id < ms[k].id
    <2>1. pos[j] < pos[k]
      BY <1>3, <1>10
    <2>2. s[pos[j]][1].id < s[pos[k]][1].id
      BY <1>5, <1>6, <2>1
    <2> QED
      BY <1>6, <2>2
  <1>11. ASSUME NEW i \in 1..Len(t) PROVE t[i][1].id \in Nat
    BY <1>1, ByteFacts
  <1>12. CASE n = 0
    <2>1. MessageLane(ms, lo, lo)
      BY <1>4, <1>12 DEF MessageLane
    <2>2. StreamLane(t, lo, hi)
      BY <1>4, <1>7, <1>8 DEF StreamLane
    <2>3. lo \in lo..hi
      OBVIOUS
    <2> QED
      BY <2>1, <2>2, <2>3 DEF ms, t
  <1>13. CASE n # 0
    <2> DEFINE mid == ms[n].id + 1
    <2>1. n \in 1..n
      BY <1>4, <1>13
    <2>2. mid \in lo..hi
      BY <1>9, <2>1
    <2>3. ASSUME NEW k \in 1..n PROVE ms[k].id < mid
      <3>1. CASE k = n
        BY <1>9, <2>1, <3>1
      <3>2. CASE k # n
        <4>1. k < n
          <5>1. n \in Nat
            BY <1>4
          <5> HIDE DEF n
          <5> QED
            BY <3>2, <5>1
        <4>2. ms[k].id < ms[n].id /\ ms[n].id \in Nat /\ ms[k].id \in Nat
          BY <1>9, <1>10, <2>1, <4>1
        <4> QED
          BY <4>2
      <3> QED
        BY <3>1, <3>2
    <2>4. MessageLane(ms, lo, mid)
      BY <1>4, <1>9, <1>10, <2>3 DEF MessageLane
    <2>5. ASSUME NEW i \in 1..Len(t), t[i][2] = 1 PROVE mid <= t[i][1].id
      <3>1. ms[n].id < t[i][1].id
        BY <1>7, <2>1, <2>5
      <3>2. ms[n].id \in Nat /\ t[i][1].id \in Nat
        BY <1>9, <1>11, <2>1
      <3> QED
        BY <3>1, <3>2
    <2>6. StreamLane(t, mid, hi)
      BY <1>4, <1>7, <1>8, <2>5 DEF StreamLane
    <2> HIDE DEF mid
    <2> QED
      BY <2>2, <2>4, <2>6 DEF ms, t
  <1> QED
    BY <1>12, <1>13

\* A deque, without its front message, or empty.
Gone(c, d) ==
    \/ d.deque = <<>>
    \/ c.deque # <<>> /\ d.deque = Tail(c.deque)

\* Where the messages stand that are left when the front one is gone.
LEMMA GoneFacts ==
    ASSUME NEW c \in ConnectionType, NEW d \in ConnectionType, Gone(c, d)
    PROVE  /\ DOMAIN c.deque = 1..Len(c.deque) /\ DOMAIN d.deque = 1..Len(d.deque)
           /\ \A i \in DOMAIN d.deque :
                 i + 1 \in DOMAIN c.deque /\ i + 1 # 1 /\ d.deque[i] = c.deque[i + 1]
  <1> DEFINE q == c.deque
             r == d.deque
  <1>1. q \in Seq(Message) /\ r \in Seq(Message)
    BY DEF ConnectionType
  <1>2. r = <<>> \/ (q # <<>> /\ r = Tail(q))
    BY DEF Gone
  <1> HIDE DEF q, r
  <1>3. DOMAIN q = 1..Len(q) /\ DOMAIN r = 1..Len(r)
    BY <1>1
  <1>4. CASE r = <<>>
    BY <1>3, <1>4 DEF q, r
  <1>5. CASE q # <<>> /\ r = Tail(q)
    <2>1. Len(q) \in Nat /\ Len(q) # 0 /\ Len(r) = Len(q) - 1 /\ \A i \in 1..Len(r) : r[i] = q[i + 1]
      BY <1>1, <1>5
    <2>2. \A i \in 1..Len(r) : i + 1 \in 1..Len(q) /\ i + 1 # 1
      BY <2>1
    <2> QED
      BY <1>3, <2>1, <2>2 DEF q, r
  <1> QED
    BY <1>2, <1>4, <1>5

\* Behind the front message the lane of a deque may start later.
LEMMA GoneLane ==
    ASSUME NEW c \in ConnectionType, NEW d \in ConnectionType, NEW lo, NEW hi, NEW lo2,
           DequeLane(c, lo, hi),
           \A i \in DOMAIN c.deque : i # 1 => lo2 <= c.deque[i].id,
           \/ d.deque = c.deque /\ Begun(d)
           \/ Gone(c, d)
    PROVE  DequeLane(d, lo2, hi)
  <1>1. CASE d.deque = c.deque /\ Begun(d)
    BY <1>1 DEF DequeLane
  <1>2. CASE Gone(c, d)
    <2>1. \A i \in DOMAIN d.deque :
             i + 1 \in DOMAIN c.deque /\ i + 1 # 1 /\ d.deque[i] = c.deque[i + 1]
      BY <1>2, GoneFacts
    <2>2. \A i, j \in DOMAIN d.deque : i < j => i + 1 < j + 1
      <3>1. DOMAIN d.deque \subseteq Nat
        BY <1>2, GoneFacts
      <3> QED
        BY <3>1
    <2>3. \A i \in DOMAIN d.deque : d.deque[i].id < hi /\ lo2 <= d.deque[i].id
      BY <2>1 DEF DequeLane
    <2>4. \A i, j \in DOMAIN d.deque : i < j => d.deque[i].id < d.deque[j].id
      BY <2>1, <2>2 DEF DequeLane
    <2> QED
      BY <2>3, <2>4 DEF DequeLane
  <1> QED
    BY <1>1, <1>2

\* A write moves the front message to the far end of the stream's lane.
LEMMA WriteLane ==
    ASSUME NEW c \in ConnectionType, NEW d \in ConnectionType, NEW s \in Seq(Byte),
           NEW lo \in Nat, NEW mid \in Nat, NEW hi \in Nat, lo <= mid, mid <= hi,
           StreamLane(s, lo, mid), DequeLane(c, mid, hi),
           c.wop = "write", c.deque # <<>>, c.sent < Len(Frame(Head(c.deque))),
           NEW n \in 1..Len(Frame(Head(c.deque))) - c.sent,
           \/ d.deque = c.deque /\ Begun(d)
           \/ Gone(c, d)
    PROVE  \E mid2 \in mid..hi :
              /\ StreamLane(s \o SubSeq(Frame(Head(c.deque)), c.sent + 1, c.sent + n), lo, mid2)
              /\ DequeLane(d, mid2, hi)
  <1> DEFINE q == c.deque
             h == q[1]
             w == SubSeq(Frame(h), c.sent + 1, c.sent + n)
             t == s \o w
  <1>1. /\ q \in Seq(Message) /\ c.sent \in Nat /\ q # <<>> /\ Head(q) = h
        /\ DOMAIN q = 1..Len(q) /\ 1 \in DOMAIN q
    <2>1. q \in Seq(Message) /\ c.sent \in Nat /\ q # <<>>
      BY DEF ConnectionType
    <2> HIDE DEF q
    <2> QED
      BY <2>1
  <1>2. \A i \in DOMAIN q : q[i] \in Message /\ q[i].id \in Nat
    BY <1>1, QueueFacts
  <1>3. h \in Message /\ h.id \in Nat
    BY <1>1, <1>2
  <1>4. w \in Seq(Byte) /\ Len(w) = n /\ \A k \in 1..n : w[k] = <<h, c.sent + k>>
    <2>1. Len(Frame(h)) \in Nat
      BY <1>3, FrameFacts, HeaderAssumption
    <2>2. c.sent \in 0..Len(Frame(h)) /\ n \in 0..Len(Frame(h)) - c.sent
      BY <1>1, <2>1
    <2> QED
      BY <1>3, <2>2, PartFacts
  <1>5. /\ \A i \in DOMAIN q : q[i].id < hi /\ (mid <= q[i].id \/ (i = 1 /\ Begun(c)))
        /\ \A i, j \in DOMAIN q : i < j => q[i].id < q[j].id
    BY DEF DequeLane
  <1>6. \A i \in DOMAIN q : i # 1 => h.id < q[i].id
    <2>1. \A i \in DOMAIN q : i # 1 => 1 < i
      BY <1>1
    <2> QED
      BY <1>1, <1>5, <2>1
  <1> HIDE DEF w, h
  <1>7. /\ t \in Seq(Byte) /\ Len(t) = Len(s) + n /\ Len(s) \in Nat /\ n \in Nat
        /\ \A i \in 1..Len(s) : t[i] = s[i]
        /\ \A i \in 1..n : t[Len(s) + i] = w[i]
    <2>1. w \in Seq(Byte)
      BY <1>4
    <2>2. /\ t \in Seq(Byte) /\ Len(t) = Len(s) + Len(w) /\ Len(s) \in Nat
          /\ \A i \in 1..Len(s) : t[i] = s[i]
          /\ \A i \in 1..Len(w) : t[Len(s) + i] = w[i]
      BY <2>1, JoinFacts
    <2> HIDE DEF t
    <2> QED
      BY <1>4, <2>2
  <1> HIDE DEF t
  <1>8. ASSUME NEW i \in 1..Len(t)
        PROVE  \/ i \in 1..Len(s) /\ t[i] = s[i]
               \/ i - Len(s) \in 1..n /\ t[i][1] = h /\ t[i][2] = c.sent + (i - Len(s))
    <2>1. CASE i <= Len(s)
      BY <1>7, <2>1
    <2>2. CASE i > Len(s)
      <3>1. i - Len(s) \in 1..n /\ Len(s) + (i - Len(s)) = i
        BY <1>7, <2>2
      <3>2. t[i] = <<h, c.sent + (i - Len(s))>>
        BY <1>4, <1>7, <3>1
      <3> QED
        BY <3>1, <3>2
    <2>3. i <= Len(s) \/ i > Len(s)
      BY <1>7
    <2> QED
      BY <2>1, <2>2, <2>3, Zenon
  <1>9. /\ DOMAIN s = 1..Len(s) /\ DOMAIN t = 1..Len(t)
        /\ \A i \in 1..Len(s) : s[i][1].id \in Nat /\ s[i][2] \in Nat
    BY <1>7, ByteFacts
  <1>10. /\ \A i \in 1..Len(s) : s[i][2] = 1 => lo <= s[i][1].id /\ s[i][1].id < mid
         /\ \A i, j \in 1..Len(s) : i < j /\ s[i][2] = 1 /\ s[j][2] = 1 => s[i][1].id < s[j][1].id
    BY <1>9 DEF StreamLane
  <1>11. CASE c.sent = 0
    <2> DEFINE mid2 == h.id + 1
    <2>1. mid <= h.id /\ h.id < hi
      BY <1>1, <1>5, <1>11 DEF Begun, h
    <2>2. mid2 \in mid..hi
      BY <1>3, <2>1
    <2>3. ASSUME NEW i \in 1..Len(t), t[i][2] = 1
          PROVE  /\ lo <= t[i][1].id /\ t[i][1].id < mid2
                 /\ (i \in 1..Len(s) /\ t[i] = s[i]) \/ (i = Len(s) + 1 /\ t[i][1] = h)
      <3>1. CASE i \in 1..Len(s) /\ t[i] = s[i]
        <4>1. lo <= s[i][1].id /\ s[i][1].id < mid /\ s[i][1].id \in Nat
          BY <1>9, <1>10, <2>3, <3>1
        <4>2. s[i][1].id < mid2
          BY <1>3, <2>1, <4>1
        <4> QED
          BY <3>1, <4>1, <4>2
      <3>2. CASE i - Len(s) \in 1..n /\ t[i][1] = h /\ t[i][2] = c.sent + (i - Len(s))
        <4>1. i = Len(s) + 1
          BY <1>7, <1>11, <2>3, <3>2
        <4>2. lo <= h.id /\ h.id < mid2
          BY <1>3, <2>1
        <4> QED
          BY <3>2, <4>1, <4>2
      <3> QED
        BY <1>8, <3>1, <3>2
    <2>4. ASSUME NEW i \in 1..Len(t), NEW j \in 1..Len(t), i < j, t[i][2] = 1, t[j][2] = 1
          PROVE  t[i][1].id < t[j][1].id
      <3>1. i \in 1..Len(s) /\ t[i] = s[i]
        BY <1>7, <2>3, <2>4
      <3>2. CASE j \in 1..Len(s) /\ t[j] = s[j]
        BY <1>10, <2>4, <3>1, <3>2
      <3>3. CASE t[j][1] = h
        <4>1. s[i][1].id < mid /\ s[i][1].id \in Nat
          BY <1>9, <1>10, <2>4, <3>1
        <4>2. s[i][1].id < h.id
          BY <1>3, <2>1, <4>1
        <4> QED
          BY <3>1, <3>3, <4>2
      <3> QED
        BY <2>3, <2>4, <3>2, <3>3
    <2>5. StreamLane(t, lo, mid2)
      BY <1>9, <2>3, <2>4 DEF StreamLane
    <2>6. \A i \in DOMAIN c.deque : i # 1 => mid2 <= c.deque[i].id
      BY <1>2, <1>3, <1>6
    <2> HIDE DEF mid2
    <2>7. DequeLane(d, mid2, hi)
      BY <2>6, GoneLane
    <2> QED
      BY <1>1, <2>2, <2>5, <2>7 DEF t, w
  <1>12. CASE c.sent # 0
    <2>1. ASSUME NEW i \in 1..Len(t), t[i][2] = 1 PROVE i \in 1..Len(s) /\ t[i] = s[i]
      <3>1. ASSUME i - Len(s) \in 1..n, t[i][2] = c.sent + (i - Len(s)) PROVE FALSE
        <4>1. c.sent \in Nat /\ c.sent # 0 /\ i - Len(s) \in Nat /\ i - Len(s) # 0
          BY <1>1, <1>7, <1>12, <3>1
        <4>2. c.sent + (i - Len(s)) = 1
          BY <2>1, <3>1
        <4> QED
          BY <4>1, <4>2
      <3> QED
        BY <1>8, <3>1
    <2>2. StreamLane(t, lo, mid)
      BY <1>9, <1>10, <2>1 DEF StreamLane
    <2>3. \A i \in DOMAIN c.deque : i # 1 => mid <= c.deque[i].id
      BY <1>5
    <2>4. DequeLane(d, mid, hi)
      BY <2>3, GoneLane
    <2>5. mid \in mid..hi
      OBVIOUS
    <2> QED
      BY <1>1, <2>2, <2>4, <2>5 DEF t, w
  <1> QED
    BY <1>11, <1>12

\* An element of a sequence behind another is one of either.
LEMMA JoinCases ==
    ASSUME NEW S, NEW a \in Seq(S), NEW b \in Seq(S), NEW i \in 1..Len(a \o b)
    PROVE  \/ i \in 1..Len(a) /\ (a \o b)[i] = a[i]
           \/ i - Len(a) \in 1..Len(b) /\ (a \o b)[i] = b[i - Len(a)]
  <1> DEFINE s == a \o b
  <1>1. /\ s \in Seq(S) /\ Len(s) = Len(a) + Len(b) /\ Len(a) \in Nat /\ Len(b) \in Nat
        /\ \A k \in 1..Len(a) : s[k] = a[k]
        /\ \A k \in 1..Len(b) : s[Len(a) + k] = b[k]
    BY JoinFacts
  <1> HIDE DEF s
  <1>2. i \in 1..Len(s)
    BY DEF s
  <1>3. CASE i <= Len(a)
    <2>1. i \in 1..Len(a)
      BY <1>1, <1>2, <1>3
    <2> QED
      BY <1>1, <2>1 DEF s
  <1>4. CASE i > Len(a)
    <2>1. i - Len(a) \in 1..Len(b) /\ Len(a) + (i - Len(a)) = i
      BY <1>1, <1>2, <1>4
    <2> QED
      BY <1>1, <2>1 DEF s
  <1>5. i <= Len(a) \/ i > Len(a)
    BY <1>1, <1>2
  <1> QED
    BY <1>3, <1>4, <1>5, Zenon

\* Transitivity, for terms that SMT would rather not look into.
LEMMA Between ==
    ASSUME NEW a \in Nat, NEW b \in Nat, NEW m \in Nat, a < m, m <= b
    PROVE  a < b
  OBVIOUS

\* Messages of a later lane queue up behind those of an earlier one.
LEMMA DequeJoin ==
    ASSUME NEW c \in ConnectionType, NEW d \in ConnectionType, NEW r \in Seq(Message),
           NEW lo \in Nat, NEW mid \in Nat, NEW hi \in Nat, lo <= mid, mid <= hi,
           DequeLane(c, lo, mid), MessageLane(r, mid, hi), d.deque = c.deque \o r,
           c.deque # <<>> /\ Begun(c) => Begun(d)
    PROVE  DequeLane(d, lo, hi)
  <1> DEFINE q == c.deque
             t == d.deque
  <1>1. q \in Seq(Message) /\ t \in Seq(Message)
    BY DEF ConnectionType
  <1>2. /\ DOMAIN q = 1..Len(q) /\ DOMAIN r = 1..Len(r) /\ DOMAIN t = 1..Len(t)
        /\ Len(q) \in Nat /\ Len(r) \in Nat /\ Len(t) \in Nat
    <2> HIDE DEF q, t
    <2> QED
      BY <1>1
  <1>3. ASSUME NEW i \in 1..Len(q) PROVE q[i].id \in Nat /\ q # <<>>
    <2>1. q[i].id \in Nat
      BY <1>1, QueueFacts
    <2>2. q # <<>>
      <3> HIDE DEF q
      <3> QED
        BY <1>2
    <2> QED
      BY <2>1, <2>2
  <1>4. ASSUME NEW i \in 1..Len(r) PROVE r[i].id \in Nat
    BY QueueFacts
  <1>5. ASSUME NEW i \in 1..Len(t)
        PROVE  \/ i \in 1..Len(q) /\ t[i] = q[i]
               \/ i - Len(q) \in 1..Len(r) /\ t[i] = r[i - Len(q)]
    BY <1>1, JoinCases
  <1>6. /\ \A i \in 1..Len(q) : q[i].id < mid /\ (lo <= q[i].id \/ (i = 1 /\ Begun(c)))
        /\ \A i, j \in 1..Len(q) : i < j => q[i].id < q[j].id
    BY <1>2 DEF DequeLane
  <1>7. /\ \A i \in 1..Len(r) : mid <= r[i].id /\ r[i].id < hi
        /\ \A i, j \in 1..Len(r) : i < j => r[i].id < r[j].id
    BY <1>2 DEF MessageLane
  <1>8. q # <<>> /\ Begun(c) => Begun(d)
    OBVIOUS
  <1> HIDE DEF q, t
  <1>9. ASSUME NEW i \in 1..Len(t)
        PROVE  t[i].id < hi /\ (lo <= t[i].id \/ (i = 1 /\ Begun(d)))
    <2>1. CASE i \in 1..Len(q) /\ t[i] = q[i]
      <3>1. q[i].id < hi
        BY <1>3, <1>6, <2>1
      <3> QED
        BY <1>3, <1>6, <1>8, <2>1, <3>1
    <2>2. CASE i - Len(q) \in 1..Len(r) /\ t[i] = r[i - Len(q)]
      <3>1. lo <= r[i - Len(q)].id
        BY <1>4, <1>7, <2>2
      <3> QED
        BY <1>7, <2>2, <3>1
    <2> QED
      BY <1>5, <2>1, <2>2
  <1>10. ASSUME NEW i \in 1..Len(t), NEW j \in 1..Len(t), i < j PROVE t[i].id < t[j].id
    <2>1. CASE i \in 1..Len(q) /\ t[i] = q[i] /\ j \in 1..Len(q) /\ t[j] = q[j]
      BY <1>6, <1>10, <2>1
    <2>2. CASE /\ i \in 1..Len(q) /\ t[i] = q[i]
               /\ j - Len(q) \in 1..Len(r) /\ t[j] = r[j - Len(q)]
      <3>1. q[i].id < mid /\ mid <= r[j - Len(q)].id /\ q[i].id \in Nat /\ r[j - Len(q)].id \in Nat
        BY <1>3, <1>4, <1>6, <1>7, <2>2
      <3>2. q[i].id < r[j - Len(q)].id
        BY <3>1, Between, Zenon
      <3> QED
        BY <2>2, <3>2
    <2>3. CASE /\ i - Len(q) \in 1..Len(r) /\ t[i] = r[i - Len(q)]
               /\ j - Len(q) \in 1..Len(r) /\ t[j] = r[j - Len(q)]
      <3>1. i - Len(q) < j - Len(q)
        BY <1>2, <1>10
      <3> QED
        BY <1>7, <2>3, <3>1
    <2>4. ~(i - Len(q) \in 1..Len(r) /\ j \in 1..Len(q))
      BY <1>2, <1>10
    <2> QED
      BY <1>5, <2>1, <2>2, <2>3, <2>4, Zenon
  <1> QED
    BY <1>2, <1>9, <1>10 DEF DequeLane, t

\* The same of done.
LEMMA MessageJoin ==
    ASSUME NEW q \in Seq(Message), NEW r \in Seq(Message),
           NEW lo \in Nat, NEW mid \in Nat, NEW hi \in Nat, lo <= mid, mid <= hi,
           MessageLane(q, lo, mid), MessageLane(r, mid, hi)
    PROVE  MessageLane(q \o r, lo, hi)
  <1> DEFINE t == q \o r
  <1>1. /\ DOMAIN q = 1..Len(q) /\ DOMAIN r = 1..Len(r) /\ DOMAIN t = 1..Len(t)
        /\ Len(q) \in Nat /\ Len(r) \in Nat /\ Len(t) \in Nat
    <2>1. t \in Seq(Message)
      BY JoinFacts
    <2> HIDE DEF t
    <2> QED
      BY <2>1
  <1>2. \A i \in 1..Len(q) : q[i].id \in Nat
    BY QueueFacts
  <1>3. \A i \in 1..Len(r) : r[i].id \in Nat
    BY QueueFacts
  <1>4. ASSUME NEW i \in 1..Len(t)
        PROVE  \/ i \in 1..Len(q) /\ t[i] = q[i]
               \/ i - Len(q) \in 1..Len(r) /\ t[i] = r[i - Len(q)]
    BY JoinCases
  <1>5. /\ \A i \in 1..Len(q) : lo <= q[i].id /\ q[i].id < mid
        /\ \A i, j \in 1..Len(q) : i < j => q[i].id < q[j].id
    BY <1>1 DEF MessageLane
  <1>6. /\ \A i \in 1..Len(r) : mid <= r[i].id /\ r[i].id < hi
        /\ \A i, j \in 1..Len(r) : i < j => r[i].id < r[j].id
    BY <1>1 DEF MessageLane
  <1> HIDE DEF t
  <1>7. ASSUME NEW i \in 1..Len(t) PROVE lo <= t[i].id /\ t[i].id < hi
    <2>1. CASE i \in 1..Len(q) /\ t[i] = q[i]
      <3>1. lo <= q[i].id /\ q[i].id < hi
        BY <1>2, <1>5, <2>1
      <3> QED
        BY <2>1, <3>1
    <2>2. CASE i - Len(q) \in 1..Len(r) /\ t[i] = r[i - Len(q)]
      <3>1. lo <= r[i - Len(q)].id /\ r[i - Len(q)].id < hi
        BY <1>3, <1>6, <2>2
      <3> QED
        BY <2>2, <3>1
    <2> QED
      BY <1>4, <2>1, <2>2
  <1>8. ASSUME NEW i \in 1..Len(t), NEW j \in 1..Len(t), i < j PROVE t[i].id < t[j].id
    <2>1. CASE i \in 1..Len(q) /\ t[i] = q[i] /\ j \in 1..Len(q) /\ t[j] = q[j]
      BY <1>5, <1>8, <2>1
    <2>2. CASE /\ i \in 1..Len(q) /\ t[i] = q[i]
               /\ j - Len(q) \in 1..Len(r) /\ t[j] = r[j - Len(q)]
      <3>1. q[i].id < mid /\ mid <= r[j - Len(q)].id /\ q[i].id \in Nat /\ r[j - Len(q)].id \in Nat
        BY <1>2, <1>3, <1>5, <1>6, <2>2
      <3>2. q[i].id < r[j - Len(q)].id
        BY <3>1, Between, Zenon
      <3> QED
        BY <2>2, <3>2
    <2>3. CASE /\ i - Len(q) \in 1..Len(r) /\ t[i] = r[i - Len(q)]
               /\ j - Len(q) \in 1..Len(r) /\ t[j] = r[j - Len(q)]
      <3>1. i - Len(q) < j - Len(q)
        BY <1>1, <1>8
      <3> QED
        BY <1>6, <2>3, <3>1
    <2>4. ~(i - Len(q) \in 1..Len(r) /\ j \in 1..Len(q))
      BY <1>1, <1>8
    <2> QED
      BY <1>4, <2>1, <2>2, <2>3, <2>4, Zenon
  <1> QED
    BY <1>1, <1>7, <1>8 DEF MessageLane, t

----------------------------------------------------------------------------
(* What becomes of a connection. *)

\* d is c with another sock, rop, wop, sent or deque.
Same(c, d) == d.sock = c.sock /\ d.rop = c.rop /\ d.rbuf = c.rbuf

MessageSeq == Seq(Message)
ByteSeq == Seq(Byte)
WithSock(c, x) == [c EXCEPT !.sock = x]
WithRop(c, x) == [c EXCEPT !.rop = x]
WithWop(c, x) == [c EXCEPT !.wop = x]
WithSent(c, x) == [c EXCEPT !.sent = x]
WithDeque(c, x) == [c EXCEPT !.deque = x]
WithRbuf(c, x) == [c EXCEPT !.rbuf = x]
WithSockWop(c, x, y) == [c EXCEPT !.sock = x, !.wop = y]

\* The fields of a connection, and one of them changed.
LEMMA FieldTypes ==
    ASSUME NEW c \in ConnectionType
    PROVE  /\ c.sock \in {"none", "connecting", "open", "hung", "closed"}
           /\ c.rop \in {"none", "posted", "read"} /\ c.wop \in {"none", "connect", "write"}
           /\ c.sent \in Nat /\ c.deque \in Seq(Message) /\ c.rbuf \in Seq(Byte)
  BY DEF ConnectionType

\* Storing a state of the socket leaves a connection one, and its other fields alone.
LEMMA SockField ==
    ASSUME NEW c \in ConnectionType, NEW x \in {"none", "connecting", "open", "hung", "closed"},
           NEW d, d = WithSock(c, x)
    PROVE  /\ d \in ConnectionType /\ d.sock = x /\ d.rop = c.rop /\ d.wop = c.wop
           /\ d.sent = c.sent /\ d.deque = c.deque /\ d.rbuf = c.rbuf
  <1> DEFINE M == Seq(Message)
             B == Seq(Byte)
  <1>1. ConnectionType =
           [sock : {"none", "connecting", "open", "hung", "closed"}, rop : {"none", "posted", "read"},
            wop : {"none", "connect", "write"}, sent : Nat, deque : M, rbuf : B]
    BY DEF ConnectionType
  <1> HIDE DEF M, B
  <1> QED
    BY <1>1 DEF WithSock

\* The same for the registered read.
LEMMA RopField ==
    ASSUME NEW c \in ConnectionType, NEW x \in {"none", "posted", "read"},
           NEW d, d = WithRop(c, x)
    PROVE  /\ d \in ConnectionType /\ d.sock = c.sock /\ d.rop = x /\ d.wop = c.wop
           /\ d.sent = c.sent /\ d.deque = c.deque /\ d.rbuf = c.rbuf
  <1> DEFINE M == Seq(Message)
             B == Seq(Byte)
  <1>1. ConnectionType =
           [sock : {"none", "connecting", "open", "hung", "closed"}, rop : {"none", "posted", "read"},
            wop : {"none", "connect", "write"}, sent : Nat, deque : M, rbuf : B]
    BY DEF ConnectionType
  <1> HIDE DEF M, B
  <1> QED
    BY <1>1 DEF WithRop

\* The same for the registered write.
LEMMA WopField ==
    ASSUME NEW c \in ConnectionType, NEW x \in {"none", "connect", "write"},
           NEW d, d = WithWop(c, x)
    PROVE  /\ d \in ConnectionType /\ d.sock = c.sock /\ d.rop = c.rop /\ d.wop = x
           /\ d.sent = c.sent /\ d.deque = c.deque /\ d.rbuf = c.rbuf
  <1> DEFINE M == Seq(Message)
             B == Seq(Byte)
  <1>1. ConnectionType =
           [sock : {"none", "connecting", "open", "hung", "closed"}, rop : {"none", "posted", "read"},
            wop : {"none", "connect", "write"}, sent : Nat, deque : M, rbuf : B]
    BY DEF ConnectionType
  <1> HIDE DEF M, B
  <1> QED
    BY <1>1 DEF WithWop

\* The same for the count of written bytes.
LEMMA SentField ==
    ASSUME NEW c \in ConnectionType, NEW x \in Nat,
           NEW d, d = WithSent(c, x)
    PROVE  /\ d \in ConnectionType /\ d.sock = c.sock /\ d.rop = c.rop /\ d.wop = c.wop
           /\ d.sent = x /\ d.deque = c.deque /\ d.rbuf = c.rbuf
  <1> DEFINE M == Seq(Message)
             B == Seq(Byte)
  <1>1. ConnectionType =
           [sock : {"none", "connecting", "open", "hung", "closed"}, rop : {"none", "posted", "read"},
            wop : {"none", "connect", "write"}, sent : Nat, deque : M, rbuf : B]
    BY DEF ConnectionType
  <1> HIDE DEF M, B
  <1> QED
    BY <1>1 DEF WithSent

\* The same for the deque.
LEMMA DequeField ==
    ASSUME NEW c \in ConnectionType, NEW x \in MessageSeq,
           NEW d, d = WithDeque(c, x)
    PROVE  /\ d \in ConnectionType /\ d.sock = c.sock /\ d.rop = c.rop /\ d.wop = c.wop
           /\ d.sent = c.sent /\ d.deque = x /\ d.rbuf = c.rbuf
  <1> DEFINE M == Seq(Message)
             B == Seq(Byte)
  <1>1. ConnectionType =
           [sock : {"none", "connecting", "open", "hung", "closed"}, rop : {"none", "posted", "read"},
            wop : {"none", "connect", "write"}, sent : Nat, deque : M, rbuf : B]
    BY DEF ConnectionType
  <1>2. x \in M
    BY DEF MessageSeq
  <1> HIDE DEF M, B
  <1> QED
    BY <1>1, <1>2 DEF WithDeque

\* The same for what is read and not cut yet.
LEMMA RbufField ==
    ASSUME NEW c \in ConnectionType, NEW x \in ByteSeq,
           NEW d, d = WithRbuf(c, x)
    PROVE  /\ d \in ConnectionType /\ d.sock = c.sock /\ d.rop = c.rop /\ d.wop = c.wop
           /\ d.sent = c.sent /\ d.deque = c.deque /\ d.rbuf = x
  <1> DEFINE M == Seq(Message)
             B == Seq(Byte)
  <1>1. ConnectionType =
           [sock : {"none", "connecting", "open", "hung", "closed"}, rop : {"none", "posted", "read"},
            wop : {"none", "connect", "write"}, sent : Nat, deque : M, rbuf : B]
    BY DEF ConnectionType
  <1>2. x \in B
    BY DEF ByteSeq
  <1> HIDE DEF M, B
  <1> QED
    BY <1>1, <1>2 DEF WithRbuf

\* The first message of a queue is longer than nothing.
LEMMA FrontFacts ==
    ASSUME NEW c \in ConnectionType, c.deque # <<>>
    PROVE  /\ Head(c.deque) = c.deque[1] /\ Head(c.deque) \in Message
           /\ 1 \in DOMAIN c.deque
           /\ Len(Frame(Head(c.deque))) \in Nat /\ 0 < Len(Frame(Head(c.deque)))
           /\ Tail(c.deque) \in Seq(Message)
  <1> DEFINE q == c.deque
  <1>1. q \in Seq(Message) /\ q # <<>>
    BY DEF ConnectionType
  <1> HIDE DEF q
  <1>2. Head(q) = q[1] /\ Head(q) \in Message /\ 1 \in DOMAIN q /\ Tail(q) \in Seq(Message)
    BY <1>1
  <1>3. Len(Frame(Head(q))) \in Nat /\ 0 < Len(Frame(Head(q)))
    <2>1. Len(Frame(Head(q))) = HeaderBytes + BodyBytes(Head(q)) /\ BodyBytes(Head(q)) \in {1, 2}
      BY <1>2, FrameFacts
    <2> QED
      BY <2>1, HeaderAssumption
  <1> QED
    BY <1>2, <1>3 DEF q

\* start_deque_send with a message at the front.
LEMMA StartFacts ==
    ASSUME NEW c \in ConnectionType, c.deque # <<>>, NEW d, d = start_deque_send(c)
    PROVE  /\ d \in ConnectionType /\ Same(c, d)
           /\ \/ /\ c.sock \in {"connecting", "open", "hung"} /\ c.wop = "none"
                 /\ d.wop = "write" /\ d.sent = 0 /\ d.deque = c.deque
              \/ /\ ~(c.sock \in {"connecting", "open", "hung"} /\ c.wop = "none")
                 /\ d.wop = c.wop /\ d.sent = c.sent /\ d.deque = <<>>
  <1>1. CASE c.sock \in {"connecting", "open", "hung"} /\ c.wop = "none"
    <2> DEFINE a == [c EXCEPT !.wop = "write"]
               b == [a EXCEPT !.sent = 0]
    <2>1. a \in ConnectionType /\ Same(c, a) /\ a.wop = "write" /\ a.deque = c.deque
      <3>1. a = WithWop(c, "write")
        BY Zenon DEF WithWop
      <3> HIDE DEF a
      <3> QED
        BY <3>1, WopField DEF Same
    <2>2. d = b
      BY <1>1 DEF start_deque_send
    <2> HIDE DEF a
    <2>3. b \in ConnectionType /\ Same(a, b) /\ b.wop = a.wop /\ b.sent = 0 /\ b.deque = a.deque
      <3>1. 0 \in Nat
        OBVIOUS
      <3> HIDE DEF b
      <3>2. b = [a EXCEPT !.sent = 0]
        BY Zenon DEF b
      <3>3. b = WithSent(a, 0)
        BY <3>2, Zenon DEF WithSent
      <3> QED
        BY <2>1, <3>1, <3>3, SentField, Zenon DEF Same
    <2> QED
      BY <1>1, <2>1, <2>2, <2>3 DEF Same
  <1>2. CASE ~(c.sock \in {"connecting", "open", "hung"} /\ c.wop = "none")
    <2>1. d = [c EXCEPT !.deque = <<>>]
      BY <1>2 DEF start_deque_send
    <2>2. <<>> \in MessageSeq
      BY DEF MessageSeq
    <2> QED
      <3>1. d = WithDeque(c, <<>>)
        BY <2>1, Zenon DEF WithDeque
      <3> QED
        BY <1>2, <2>2, <3>1, DequeField DEF Same
  <1> QED
    BY <1>1, <1>2

\* send: the message is queued behind the others, or the reactor refused it.
LEMMA SendFacts ==
    ASSUME NEW c \in ConnectionType, QueueOK(c), NEW m \in Message, NEW d, d = send(c, m)
    PROVE  /\ d \in ConnectionType /\ QueueOK(d) /\ Same(c, d)
           /\ \/ /\ c.sock # "open" /\ c.deque = <<>>
                 /\ d.deque = <<>> /\ d.wop = c.wop /\ d.sent = c.sent
              \/ /\ c.deque # <<>> /\ d.deque = c.deque \o <<m>>
                 /\ d.wop = c.wop /\ d.sent = c.sent
              \/ /\ c.deque = <<>> /\ d.deque = c.deque \o <<m>>
                 /\ c.sock \in {"open", "hung"} /\ c.wop = "none" /\ d.wop = "write" /\ d.sent = 0
  <1> DEFINE q == c.deque
             p == [c EXCEPT !.deque = Append(q, m)]
  <1>1. q \in Seq(Message) /\ c.wop \in {"none", "connect", "write"}
    BY DEF ConnectionType
  <1>2. /\ Append(q, m) = q \o <<m>> /\ Append(q, m) \in Seq(Message) /\ Append(q, m) # <<>>
        /\ q # <<>> => Head(q \o <<m>>) = Head(q)
    <2> HIDE DEF q
    <2> QED
      BY <1>1
  <1>3. /\ p \in ConnectionType /\ Same(c, p) /\ p.wop = c.wop /\ p.sent = c.sent
        /\ p.deque = q \o <<m>> /\ p.deque # <<>>
    <2>1. p = WithDeque(c, Append(q, m))
      BY Zenon DEF WithDeque
    <2> HIDE DEF p
    <2>2. /\ p \in ConnectionType /\ Same(c, p) /\ p.wop = c.wop /\ p.sent = c.sent
          /\ p.deque = Append(q, m)
      <3> DEFINE r == Append(q, m)
      <3>1. r \in MessageSeq
        BY <1>2 DEF MessageSeq
      <3>2. p = WithDeque(c, r)
        BY <2>1
      <3> HIDE DEF r
      <3>3. /\ p \in ConnectionType /\ Same(c, p) /\ p.wop = c.wop /\ p.sent = c.sent
            /\ p.deque = r
        BY <3>1, <3>2, DequeField DEF Same
      <3> QED
        BY <3>3 DEF r
    <2> QED
      BY <1>2, <2>2, Zenon
  <1>4. d = (IF q = <<>> THEN start_deque_send(p) ELSE p)
    BY DEF send
  <1> HIDE DEF p
  <1>5. CASE q # <<>>
    <2>1. d = p
      BY <1>4, <1>5
    <2>2. QueueOK(d)
      BY <1>2, <1>3, <1>5, <2>1 DEF QueueOK, Same
    <2> QED
      BY <1>3, <1>5, <2>1, <2>2
  <1>6. CASE q = <<>>
    <2>1. d = start_deque_send(p)
      BY <1>4, <1>6
    <2>2. /\ d \in ConnectionType /\ Same(p, d)
          /\ \/ /\ p.sock \in {"connecting", "open", "hung"} /\ p.wop = "none"
                /\ d.wop = "write" /\ d.sent = 0 /\ d.deque = p.deque
             \/ /\ ~(p.sock \in {"connecting", "open", "hung"} /\ p.wop = "none")
                /\ d.wop = p.wop /\ d.sent = p.sent /\ d.deque = <<>>
      BY <1>3, <2>1, StartFacts
    <2>3. Same(c, d)
      BY <1>3, <2>2 DEF Same
    <2>4. c.sock = "connecting" => c.wop # "none"
      BY DEF QueueOK
    <2>5. c.sock = "open" => c.wop = "none"
      BY <1>1, <1>6 DEF QueueOK
    <2>6. CASE /\ p.sock \in {"connecting", "open", "hung"} /\ p.wop = "none"
               /\ d.wop = "write" /\ d.sent = 0 /\ d.deque = p.deque
      <3>1. d.deque # <<>>
        BY <1>3, <2>6
      <3>2. d.sent < Len(Frame(Head(d.deque)))
        BY <2>2, <2>6, <3>1, FrontFacts
      <3>3. c.sock \in {"open", "hung"} /\ c.wop = "none"
        BY <1>3, <2>4, <2>6 DEF Same
      <3>4. QueueOK(d)
        BY <2>3, <2>6, <3>1, <3>2, <3>3 DEF QueueOK, Same
      <3> QED
        BY <1>3, <1>6, <2>2, <2>3, <2>6, <3>3, <3>4
    <2>7. CASE /\ ~(p.sock \in {"connecting", "open", "hung"} /\ p.wop = "none")
               /\ d.wop = p.wop /\ d.sent = p.sent /\ d.deque = <<>>
      <3>1. c.sock # "open"
        BY <1>3, <2>5, <2>7 DEF Same
      <3>2. QueueOK(d)
        BY <1>3, <1>6, <2>3, <2>7, <3>1 DEF QueueOK, Same
      <3> QED
        BY <1>3, <1>6, <2>2, <2>3, <2>7, <3>1, <3>2
    <2> QED
      BY <2>2, <2>6, <2>7
  <1> QED
    BY <1>5, <1>6

\* Sending on an open connection appends to the deque, and starts a write if it was empty.
LEMMA SendOpen ==
    ASSUME NEW c \in ConnectionType, QueueOK(c), c.sock = "open", NEW m \in Message,
           NEW d, d = send(c, m)
    PROVE  /\ d \in ConnectionType /\ QueueOK(d) /\ Same(c, d)
           /\ d.deque = c.deque \o <<m>>
           /\ \/ c.deque # <<>> /\ d.wop = c.wop /\ d.sent = c.sent
              \/ c.deque = <<>> /\ d.wop = "write" /\ d.sent = 0
  BY SendFacts

\* onSendCompleted: the front message is gone, and the next one is started or
\* refused with all the rest.
LEMMA CompletedFacts ==
    ASSUME NEW c \in ConnectionType, NEW d, d = onSendCompleted(c)
    PROVE  /\ d \in ConnectionType /\ Same(c, d) /\ Gone(c, d)
           /\ \/ d.deque = <<>> /\ d.wop = c.wop /\ d.sent = c.sent
              \/ /\ d.deque # <<>> /\ c.wop = "none" /\ d.wop = "write" /\ d.sent = 0
                 /\ c.sock \in {"connecting", "open", "hung"}
  <1> DEFINE q == IF c.deque = <<>> THEN c.deque ELSE Tail(c.deque)
             p == [c EXCEPT !.deque = q]
  <1>1. d = (IF p.deque # <<>> THEN start_deque_send(p) ELSE p)
    BY DEF onSendCompleted
  <1>2. q \in MessageSeq /\ (q = <<>> \/ (c.deque # <<>> /\ q = Tail(c.deque)))
    BY FieldTypes, FrontFacts DEF MessageSeq
  <1>3. p = WithDeque(c, q)
    BY Zenon DEF WithDeque
  <1> HIDE DEF p, q
  <1>4. p \in ConnectionType /\ Same(c, p) /\ p.wop = c.wop /\ p.sent = c.sent /\ p.deque = q
    BY <1>2, <1>3, DequeField DEF Same
  <1>5. CASE p.deque = <<>>
    <2>1. d = p
      BY <1>1, <1>5
    <2> QED
      BY <1>4, <1>5, <2>1 DEF Gone
  <1>6. CASE p.deque # <<>>
    <2>1. d = start_deque_send(p)
      BY <1>1, <1>6
    <2>2. /\ d \in ConnectionType /\ Same(p, d)
          /\ \/ /\ p.sock \in {"connecting", "open", "hung"} /\ p.wop = "none"
                /\ d.wop = "write" /\ d.sent = 0 /\ d.deque = p.deque
             \/ d.wop = p.wop /\ d.sent = p.sent /\ d.deque = <<>>
      BY <1>4, <1>6, <2>1, StartFacts
    <2>3. Same(c, d)
      BY <1>4, <2>2 DEF Same
    <2>4. Gone(c, d)
      BY <1>2, <1>4, <2>2 DEF Gone
    <2>5. p.sock = c.sock
      BY <1>4 DEF Same
    <2> QED
      BY <1>4, <1>6, <2>2, <2>3, <2>4, <2>5
  <1> QED
    BY <1>5, <1>6

\* shutdown: the socket is closed and nothing is registered any more.
LEMMA ShutdownFacts ==
    ASSUME NEW c \in ConnectionType, NEW d, d = shutdown(c)
    PROVE  /\ d \in ConnectionType /\ QueueOK(d)
           /\ d.sock = "closed" /\ d.wop = "none" /\ d.rbuf = c.rbuf
           /\ \/ Gone(c, d)
              \/ d.deque = c.deque /\ c.wop # "write"
  <1> DEFINE o == [c EXCEPT !.wop = "none"]
             x == IF c.wop = "write" THEN onSendCompleted(o) ELSE c
             a == WithSock(x, "closed")
             b == WithRop(a, "none")
  <1>1. d = [x EXCEPT !.sock = "closed", !.rop = "none", !.wop = "none"]
    BY DEF shutdown
  <1>2. o \in ConnectionType /\ Same(c, o) /\ o.deque = c.deque
    <2>1. o = WithWop(c, "none")
      BY Zenon DEF WithWop
    <2> HIDE DEF o
    <2> QED
      BY <2>1, WopField DEF Same
  <1> HIDE DEF o
  <1>3. x \in ConnectionType /\ x.rbuf = c.rbuf /\ (Gone(c, x) \/ (x.deque = c.deque /\ c.wop # "write"))
    <2>1. CASE c.wop = "write"
      <3>1. x = onSendCompleted(o)
        BY <2>1
      <3> HIDE DEF x
      <3>2. x \in ConnectionType /\ Same(o, x) /\ Gone(o, x)
        BY <1>2, <3>1, CompletedFacts
      <3> QED
        BY <1>2, <3>2 DEF Gone, Same
    <2>2. CASE c.wop # "write"
      BY <2>2
    <2> QED
      BY <2>1, <2>2
  <1> HIDE DEF x
  <1>4. a \in ConnectionType /\ a.sock = "closed" /\ a.rbuf = x.rbuf /\ a.deque = x.deque
    BY <1>3, SockField
  <1>5. d = WithWop(b, "none")
    BY <1>1, <1>3 DEF WithWop, WithRop, WithSock, ConnectionType
  <1> HIDE DEF a
  <1>6. b \in ConnectionType /\ b.sock = "closed" /\ b.rbuf = x.rbuf /\ b.deque = x.deque
    BY <1>4, RopField
  <1> HIDE DEF b
  <1>7. /\ d \in ConnectionType /\ d.sock = "closed" /\ d.wop = "none" /\ d.rbuf = x.rbuf
        /\ d.deque = x.deque
    BY <1>5, <1>6, WopField
  <1>8. QueueOK(d)
    BY <1>7 DEF QueueOK
  <1> QED
    BY <1>3, <1>7, <1>8 DEF Gone

\* Kept: the connection stays as it is, or it is shut down with nothing registered.
LEMMA KeptFacts ==
    ASSUME NEW e \in End, NEW c \in ConnectionType, NEW d, d = Kept(e, c)
    PROVE  \/ d = c
           \/ /\ d \in ConnectionType /\ QueueOK(d)
              /\ d.sock = "closed" /\ d.wop = "none" /\ d.rbuf = c.rbuf
              /\ d.deque = c.deque \/ Gone(c, d)
              /\ c.wop = "none"
  BY ShutdownFacts DEF Kept

----------------------------------------------------------------------------
(* The server's answers. *)

\* An answer is a response with the id of what it answers.
LEMMA AnswerFacts ==
    ASSUME NEW m \in Message
    PROVE  onConnectionMessage(m) \in Message /\ onConnectionMessage(m).id = m.id
  <1>1. m.id \in Nat
    BY FrameFacts
  <1>2. \A code \in Codes, r \in Asks \cup {NoResult} :
           Response(m.id, code, r) \in Message /\ Response(m.id, code, r).id = m.id
    BY <1>1 DEF Response, Message, Resp
  <1>3. m.tp = "request" => m.ask \in Asks
    BY DEF Message, Req, Resp
  <1>4. \E code \in Codes, r \in Asks \cup {NoResult} :
           onConnectionMessage(m) = Response(m.id, code, r)
    <2>1. NoResult \in Asks \cup {NoResult} /\ "SUCCESS" \in Codes
          /\ "NOT_SUPPORT" \in Codes /\ "NO_SERVICE" \in Codes /\ "NO_METHOD" \in Codes
          /\ "INVALID_REQUEST" \in Codes
      BY DEF Codes
    <2>2. CASE m.tp # "request"
      BY <2>1, <2>2 DEF onConnectionMessage, send_error_response
    <2>3. CASE m.tp = "request"
      <3>1. m.ask \in Asks \cup {NoResult}
        BY <1>3, <2>3
      <3>2. CASE m.ask.service \notin services
        BY <2>1, <2>3, <3>2 DEF onConnectionMessage, send_error_response
      <3>3. CASE m.ask.service \in services /\ ~getMethod(m.ask.service, m.ask.method)
        BY <2>1, <2>3, <3>3 DEF onConnectionMessage, send_error_response
      <3>4. CASE /\ m.ask.service \in services /\ getMethod(m.ask.service, m.ask.method)
                 /\ m.ask.arguments = "garbled"
        BY <2>1, <2>3, <3>4 DEF onConnectionMessage, send_error_response
      <3>5. CASE /\ m.ask.service \in services /\ getMethod(m.ask.service, m.ask.method)
                 /\ m.ask.arguments # "garbled"
        BY <2>1, <2>3, <3>1, <3>5 DEF onConnectionMessage
      <3> QED
        BY <3>2, <3>3, <3>4, <3>5
    <2> QED
      BY <2>2, <2>3
  <1> QED
    BY <1>2, <1>4

\* The answer to a request is the response its call waits for.
LEMMA AnswerContents ==
    ASSUME NEW asked, NEW m \in Message, IsRequest(asked, m)
    PROVE  IsResponse(asked, services, onConnectionMessage(m))
  <1> DEFINE ask == asked[m.id + 1]
  <1>1. m.tp = "request" /\ m.id \in 0..Len(asked) - 1 /\ m.ask = ask
    BY DEF IsRequest
  <1> HIDE DEF ask
  <1>2. CASE ask.service \notin services
    <2>1. onConnectionMessage(m) = Response(m.id, "NO_SERVICE", NoResult)
      BY <1>1, <1>2 DEF onConnectionMessage, send_error_response
    <2> QED
      BY <1>1, <1>2, <2>1 DEF IsResponse, Response, ask
  <1>3. CASE ask.service \in services /\ <<ask.service, ask.method>> \notin Methods
    <2>1. onConnectionMessage(m) = Response(m.id, "NO_METHOD", NoResult)
      BY <1>1, <1>3 DEF onConnectionMessage, send_error_response, getMethod
    <2> QED
      BY <1>1, <1>3, <2>1 DEF IsResponse, Response, ask
  <1>4. CASE /\ ask.service \in services /\ <<ask.service, ask.method>> \in Methods
             /\ ask.arguments = "garbled"
    <2>1. onConnectionMessage(m) = Response(m.id, "INVALID_REQUEST", NoResult)
      BY <1>1, <1>4 DEF onConnectionMessage, send_error_response, getMethod
    <2> QED
      BY <1>1, <1>4, <2>1 DEF IsResponse, Response, ask
  <1>5. CASE /\ ask.service \in services /\ <<ask.service, ask.method>> \in Methods
             /\ ask.arguments # "garbled"
    <2>1. onConnectionMessage(m) = Response(m.id, "SUCCESS", m.ask)
      BY <1>1, <1>5 DEF onConnectionMessage, getMethod
    <2> QED
      BY <1>1, <1>5, <2>1 DEF IsResponse, Response, ask
  <1> QED
    BY <1>2, <1>3, <1>4, <1>5

\* The recursion in Replied, up to k.
ReplyIs(c, msgs, k, f) ==
    f = [i \in 0..k |-> IF i = 0 THEN c ELSE send(f[i - 1], onConnectionMessage(msgs[i]))]

\* The recursion that answers a batch has a solution.
LEMMA ReplyExists ==
    ASSUME NEW c, NEW msgs, NEW n \in Nat
    PROVE  \E f : ReplyIs(c, msgs, n, f)
  <1> DEFINE T == {k \in 0..n : \E f : ReplyIs(c, msgs, k, f)}
  <1>1. 0 \in T
    <2> DEFINE g == [i \in 0..0 |-> c]
    <2>1. g = [i \in 0..0 |-> IF i = 0 THEN c ELSE send(g[i - 1], onConnectionMessage(msgs[i]))]
      OBVIOUS
    <2>2. ReplyIs(c, msgs, 0, g)
      BY <2>1 DEF ReplyIs
    <2> HIDE DEF g
    <2> QED
      BY <2>2
  <1>2. ASSUME NEW k \in 1..n, k - 1 \in T PROVE k \in T
    <2>1. PICK f : ReplyIs(c, msgs, k - 1, f)
      BY <1>2
    <2> DEFINE g == [i \in 0..k |->
                        IF i = k THEN send(f[k - 1], onConnectionMessage(msgs[k])) ELSE f[i]]
    <2>2. f = [i \in 0..(k - 1) |-> IF i = 0 THEN c ELSE send(f[i - 1], onConnectionMessage(msgs[i]))]
      BY <2>1 DEF ReplyIs
    <2>3. \A i \in 0..(k - 1) :
             f[i] = IF i = 0 THEN c ELSE send(f[i - 1], onConnectionMessage(msgs[i]))
      BY <2>2
    <2>4. \A i \in 0..k : g[i] = IF i = 0 THEN c ELSE send(g[i - 1], onConnectionMessage(msgs[i]))
      BY <2>3
    <2>5. g = [i \in 0..k |-> IF i = 0 THEN c ELSE send(g[i - 1], onConnectionMessage(msgs[i]))]
      BY <2>4
    <2>6. ReplyIs(c, msgs, k, g)
      BY <2>5 DEF ReplyIs
    <2> HIDE DEF g
    <2> QED
      BY <2>6
  <1>3. n \in T
    <2> HIDE DEF T
    <2>1. \A i \in 0..n : i \in T
      BY <1>1, <1>2, Upward
    <2> QED
      BY <2>1
  <1> QED
    BY <1>3

\* All answers are queued in turn, on a connection that is open.
LEMMA RepliedFacts ==
    ASSUME NEW c \in ConnectionType, QueueOK(c), c.sock = "open",
           NEW msgs \in Seq(Message), NEW ans \in Seq(Message), Len(ans) = Len(msgs),
           \A i \in 1..Len(msgs) : ans[i] = onConnectionMessage(msgs[i]),
           NEW d, d = Replied(c, msgs)
    PROVE  /\ d \in ConnectionType /\ QueueOK(d) /\ Same(c, d) /\ d.deque = c.deque \o ans
           /\ c.deque # <<>> => d.wop = c.wop /\ d.sent = c.sent
           /\ c.deque = <<>> /\ msgs # <<>> => d.wop = "write" /\ d.sent = 0
           /\ msgs = <<>> => d = c
  <1> DEFINE n == Len(msgs)
             q == c.deque
             g == CHOOSE f : ReplyIs(c, msgs, n, f)
  <1>1. n \in Nat
    OBVIOUS
  <1>2. ReplyIs(c, msgs, n, g)
    BY <1>1, ReplyExists, Zenon
  <1>3. d = g[n]
    BY DEF Replied, ReplyIs
  <1>4. \E f : ReplyIs(c, msgs, n, f) /\ d = f[n]
    <2> HIDE DEF g
    <2> QED
      BY <1>2, <1>3
  <1>5. PICK f : ReplyIs(c, msgs, n, f) /\ d = f[n]
    BY <1>4
  <1>6. f[0] = c /\ \A i \in 1..n : f[i] = send(f[i - 1], ans[i])
    <2>1. f = [i \in 0..n |-> IF i = 0 THEN c ELSE send(f[i - 1], onConnectionMessage(msgs[i]))]
      BY <1>5 DEF ReplyIs
    <2>2. \A i \in 0..n : f[i] = IF i = 0 THEN c ELSE send(f[i - 1], onConnectionMessage(msgs[i]))
      BY <2>1
    <2>3. \A i \in 1..n : i \in 0..n /\ i # 0
      BY <1>1
    <2>4. 0 \in 0..n
      BY <1>1
    <2> QED
      BY <2>2, <2>3, <2>4
  <1>7. q \in Seq(Message) /\ Len(q) \in Nat /\ (q = <<>> <=> Len(q) = 0)
    <2>1. q \in Seq(Message)
      BY FieldTypes
    <2> HIDE DEF q
    <2> QED
      BY <2>1
  <1> DEFINE Good(i) ==
               /\ f[i] \in ConnectionType /\ QueueOK(f[i]) /\ Same(c, f[i])
               /\ Len(f[i].deque) = Len(q) + i
               /\ \A k \in 1..Len(q) : f[i].deque[k] = q[k]
               /\ \A k \in 1..i : f[i].deque[Len(q) + k] = ans[k]
               /\ q # <<>> => f[i].wop = c.wop /\ f[i].sent = c.sent
               /\ q = <<>> /\ i # 0 => f[i].wop = "write" /\ f[i].sent = 0
             T == {i \in 0..n : Good(i)}
  <1>8. 0 \in T
    BY <1>1, <1>6, <1>7 DEF Same
  <1>9. ASSUME NEW i \in 1..n, i - 1 \in T PROVE i \in T
    <2> DEFINE x == f[i - 1]
               y == f[i]
    <2>1. Good(i - 1)
      BY <1>9
    <2>2. y = send(x, ans[i]) /\ ans[i] \in Message
      BY <1>6
    <2>3. x \in ConnectionType /\ QueueOK(x) /\ Same(c, x) /\ x.deque \in Seq(Message)
      BY <2>1, FieldTypes
    <2>4. x.sock = "open"
      BY <2>3 DEF Same
    <2>5. Len(x.deque) = Len(q) + (i - 1) /\ (i - 1 = 0 => x = c)
      BY <1>6, <2>1
    <2>6. /\ q # <<>> => x.wop = c.wop /\ x.sent = c.sent
          /\ q = <<>> /\ i - 1 # 0 => x.wop = "write" /\ x.sent = 0
      BY <2>1
    <2>7. /\ \A k \in 1..Len(q) : x.deque[k] = q[k]
          /\ \A k \in 1..(i - 1) : x.deque[Len(q) + k] = ans[k]
      BY <2>1
    <2> HIDE DEF x, y, Good, T, q
    <2>8. /\ y \in ConnectionType /\ QueueOK(y) /\ Same(x, y)
          /\ y.deque = x.deque \o <<ans[i]>>
          /\ \/ x.deque # <<>> /\ y.wop = x.wop /\ y.sent = x.sent
             \/ x.deque = <<>> /\ y.wop = "write" /\ y.sent = 0
      <3>1. PICK a \in Message : a = ans[i]
        BY <2>2
      <3>2. y = send(x, a)
        BY <2>2, <3>1
      <3>3. /\ y \in ConnectionType /\ QueueOK(y) /\ Same(x, y)
            /\ y.deque = x.deque \o <<a>>
            /\ \/ x.deque # <<>> /\ y.wop = x.wop /\ y.sent = x.sent
               \/ x.deque = <<>> /\ y.wop = "write" /\ y.sent = 0
        <4>1. x \in ConnectionType /\ QueueOK(x)
          BY <2>3
        <4> QED
          BY <2>4, <3>2, <4>1, SendOpen, Zenon
      <3> QED
        BY <3>1, <3>3
    <2>9. Same(c, y)
      BY <2>3, <2>8 DEF Same
    <2>10. /\ Len(y.deque) = Len(x.deque) + 1 /\ y.deque[Len(x.deque) + 1] = ans[i]
           /\ \A k \in 1..Len(x.deque) : y.deque[k] = x.deque[k]
           /\ x.deque = <<>> <=> Len(x.deque) = 0
      <3> DEFINE r == x.deque
                 z == y.deque
      <3>1. r \in Seq(Message) /\ z = r \o <<ans[i]>>
        BY <2>3, <2>8
      <3> HIDE DEF r, z
      <3>2. /\ Len(z) = Len(r) + 1 /\ z[Len(r) + 1] = ans[i]
            /\ \A k \in 1..Len(r) : z[k] = r[k]
            /\ r = <<>> <=> Len(r) = 0
        BY <2>2, <3>1
      <3> QED
        BY <3>2 DEF r, z
    <2>11. Len(y.deque) = Len(q) + i
      BY <1>7, <2>5, <2>10
    <2>12. \A k \in 1..Len(q) : y.deque[k] = q[k]
      <3>1. \A k \in 1..Len(q) : k \in 1..Len(x.deque)
        BY <1>7, <2>5
      <3> QED
        BY <2>7, <2>10, <3>1
    <2>13. ASSUME NEW k \in 1..i PROVE y.deque[Len(q) + k] = ans[k]
      <3>1. CASE k = i
        <4>1. Len(x.deque) + 1 = Len(q) + k
          BY <1>7, <2>5, <3>1
        <4> QED
          BY <2>10, <3>1, <4>1
      <3>2. CASE k # i
        <4>1. k \in 1..(i - 1) /\ Len(q) + k \in 1..Len(x.deque)
          BY <1>7, <2>5, <3>2
        <4> QED
          BY <2>7, <2>10, <4>1
      <3> QED
        BY <3>1, <3>2
    <2>14. q # <<>> => y.wop = c.wop /\ y.sent = c.sent
      BY <1>7, <2>5, <2>6, <2>8, <2>10
    <2>15. q = <<>> => y.wop = "write" /\ y.sent = 0
      BY <1>7, <2>5, <2>6, <2>8, <2>10
    <2>16. Good(i)
      BY <2>8, <2>9, <2>11, <2>12, <2>13, <2>14, <2>15 DEF Good, y
    <2> QED
      BY <2>16 DEF T
  <1>10. n \in T
    <2> HIDE DEF T
    <2>1. \A i \in 0..n : i \in T
      BY <1>1, <1>8, <1>9, Upward
    <2> QED
      BY <1>1, <2>1
  <1>11. Good(n)
    BY <1>10
  <1>12. d.deque = q \o ans
    <2> DEFINE r == d.deque
               t == q \o ans
    <2>1. /\ Len(r) = Len(q) + n /\ \A k \in 1..Len(q) : r[k] = q[k]
          /\ \A k \in 1..n : r[Len(q) + k] = ans[k]
      BY <1>5, <1>11
    <2>2. r \in Seq(Message)
      BY <1>5, <1>11, FieldTypes
    <2> HIDE DEF q, Good, T, r
    <2>3. t \in Seq(Message) /\ Len(t) = Len(q) + n
      <3>1. q \in Seq(Message)
        BY <1>7
      <3>2. t \in Seq(Message) /\ Len(t) = Len(q) + Len(ans)
        BY <3>1, JoinFacts
      <3> QED
        BY <3>2
    <2>4. ASSUME NEW i \in 1..Len(t) PROVE r[i] = t[i]
      <3>1. \/ i \in 1..Len(q) /\ t[i] = q[i]
            \/ i - Len(q) \in 1..n /\ t[i] = ans[i - Len(q)]
        BY <1>7, JoinCases
      <3>2. i - Len(q) \in 1..n => Len(q) + (i - Len(q)) = i
        BY <1>7, <2>3
      <3> QED
        BY <2>1, <3>1, <3>2
    <2> HIDE DEF t
    <2>5. r = t
      BY <2>1, <2>2, <2>3, <2>4, SeqEqual
    <2> QED
      BY <2>5 DEF r, t
  <1>13. msgs # <<>> => n # 0
    OBVIOUS
  <1>14. msgs = <<>> => n = 0
    OBVIOUS
  <1> QED
    BY <1>5, <1>6, <1>11, <1>12, <1>13, <1>14

----------------------------------------------------------------------------
(* Steps that move no message: something may go out of a queue, and nothing  *)
(* else.                                                                     *)

Eased(c, d) ==
    /\ d \in ConnectionType /\ QueueOK(d)
    /\ d.rbuf = c.rbuf
    /\ d.sock = "none" => c.sock = "none"
    /\ Gone(c, d) \/ (d.deque = c.deque /\ (Begun(c) => Begun(d)))

\* The message being written stays the same, or is not written any more.
Undisturbed(c, d) ==
    \/ d.sock \in {"hung", "closed"}
    \/ /\ d.sock = "open" /\ c.sock = "open"
       /\ d.wop = c.wop /\ d.deque = c.deque /\ d.sent = c.sent
    \/ /\ c.sock \in {"none", "connecting"}
       /\ d.sock \in {"none", "connecting"} \/ (d.sock = "open" /\ d.wop # "write")

\* A connection that lost at most its front message holds no new ones, in the same lane.
LEMMA EasedFacts ==
    ASSUME NEW c \in ConnectionType, NEW d, Eased(c, d)
    PROVE  /\ \A i \in DOMAIN d.deque : \E j \in DOMAIN c.deque : d.deque[i] = c.deque[j]
           /\ \A lo, hi : DequeLane(c, lo, hi) => DequeLane(d, lo, hi)
  <1>1. d \in ConnectionType
    BY DEF Eased
  <1>2. CASE Gone(c, d)
    <2>1. \A i \in DOMAIN d.deque : \E j \in DOMAIN c.deque : d.deque[i] = c.deque[j]
      BY <1>1, <1>2, GoneFacts
    <2>2. ASSUME NEW lo, NEW hi, DequeLane(c, lo, hi) PROVE DequeLane(d, lo, hi)
      <3>1. \A i \in DOMAIN c.deque : i # 1 => lo <= c.deque[i].id
        BY <2>2 DEF DequeLane
      <3> QED
        BY <1>1, <1>2, <2>2, <3>1, GoneLane
    <2> QED
      BY <2>1, <2>2
  <1>3. CASE d.deque = c.deque /\ (Begun(c) => Begun(d))
    BY <1>3 DEF DequeLane
  <1> QED
    BY <1>2, <1>3 DEF Eased

\* What an undisturbed write has left in the stream stays what it was.
LEMMA UndisturbedFacts ==
    ASSUME NEW c, NEW d, Undisturbed(c, d), NEW s, LeftBy(c, s)
    PROVE  LeftBy(d, s)
  BY DEF Undisturbed, LeftBy

\* A connection that does not change.
LEMMA Unmoved ==
    ASSUME NEW c \in ConnectionType, QueueOK(c)
    PROVE  Eased(c, c) /\ Undisturbed(c, c)
  BY FieldTypes DEF Eased, Undisturbed

Grave == {"hangup", "connect", "send", "stop"}

\* A step that moves no message and disturbs no write keeps the invariant.
LEMMA Quietly ==
    ASSUME IInv,
           conn' \in [End -> ConnectionType],
           \A e \in End :
              /\ Eased(conn[e], conn'[e])
              /\ "send" \in trouble'[e[1]] \/ Undisturbed(conn[e], conn'[e])
              /\ conn'[e].sock = "hung" =>
                    conn[e].sock = "hung" \/ trouble'[e[1]] \cap {"hangup", "connect"} # {},
           trouble' \in [Chan -> SUBSET Troubles],
           \A ch \in Chan : trouble[ch] \subseteq trouble'[ch],
           astray' \in SUBSET End,
           \A e \in astray' : e \in astray \/ trouble'[e[1]] \cap Grave # {},
           UNCHANGED <<wire, id_method, called, done>>,
           services' = services \/ server = "new",
           server' = "new" =>
              /\ server = "new"
              /\ \A ch \in Chan : conn'[<<ch, Server>>].sock = conn[<<ch, Server>>].sock
    PROVE  IInv'
  <1>1. /\ Typed /\ Queues /\ NotYet /\ Contents /\ Lanes /\ Waiting /\ Framing /\ Blamed
    BY DEF IInv
  <1>2. \A e \in End : conn[e] \in ConnectionType /\ QueueOK(conn[e]) /\ e[1] \in Chan
    BY <1>1 DEF Typed, Queues, End
  <1>3. \A ch \in Chan : <<ch, Client>> \in End /\ <<ch, Server>> \in End
    BY DEF End, Side
  <1>4. /\ \A e \in End : conn'[e].rbuf = conn[e].rbuf /\ QueueOK(conn'[e])
        /\ \A e \in End : conn'[e].sock = "none" => conn[e].sock = "none"
    BY DEF Eased
  <1>5. \A e \in End : Stream(e)' = Stream(e)
    BY <1>4 DEF Stream
  <1>6. \A e \in End : \A i \in DOMAIN conn'[e].deque :
           \E j \in DOMAIN conn[e].deque : conn'[e].deque[i] = conn[e].deque[j]
    BY <1>2, EasedFacts
  <1>7. \A e \in End : \A lo, hi : DequeLane(conn[e], lo, hi) => DequeLane(conn'[e], lo, hi)
    BY <1>2, EasedFacts
  <1>8. Typed'
    BY <1>1 DEF Typed
  <1>9. Queues'
    BY <1>4 DEF Queues
  <1>10. NotYet'
    BY <1>1, <1>3, <1>4, <1>5 DEF NotYet
  <1>11. Contents'
    <2> SUFFICES ASSUME NEW ch \in Chan
                 PROVE  /\ \A i \in DOMAIN conn'[<<ch, Client>>].deque :
                              IsRequest(called'[ch], conn'[<<ch, Client>>].deque[i])
                        /\ \A i \in DOMAIN Stream(<<ch, Server>>)' :
                              IsRequest(called'[ch], Stream(<<ch, Server>>)'[i][1])
                        /\ \A i \in DOMAIN conn'[<<ch, Server>>].deque :
                              IsResponse(called'[ch], services', conn'[<<ch, Server>>].deque[i])
                        /\ \A i \in DOMAIN Stream(<<ch, Client>>)' :
                              IsResponse(called'[ch], services', Stream(<<ch, Client>>)'[i][1])
                        /\ \A i \in DOMAIN done'[ch] : IsResponse(called'[ch], services', done'[ch][i])
      BY DEF Contents
    <2>1. \A i \in DOMAIN conn'[<<ch, Client>>].deque :
             IsRequest(called'[ch], conn'[<<ch, Client>>].deque[i])
      BY <1>1, <1>3, <1>6 DEF Contents
    <2>2. \A i \in DOMAIN Stream(<<ch, Server>>)' : IsRequest(called'[ch], Stream(<<ch, Server>>)'[i][1])
      BY <1>1, <1>3, <1>5 DEF Contents
    <2>3. CASE services' = services
      <3>1. \A i \in DOMAIN conn'[<<ch, Server>>].deque :
               IsResponse(called'[ch], services', conn'[<<ch, Server>>].deque[i])
        BY <1>1, <1>3, <1>6, <2>3 DEF Contents
      <3>2. \A i \in DOMAIN Stream(<<ch, Client>>)' :
               IsResponse(called'[ch], services', Stream(<<ch, Client>>)'[i][1])
        BY <1>1, <1>3, <1>5, <2>3 DEF Contents
      <3>3. \A i \in DOMAIN done'[ch] : IsResponse(called'[ch], services', done'[ch][i])
        BY <1>1, <2>3 DEF Contents
      <3> QED
        BY <2>1, <2>2, <3>1, <3>2, <3>3
    <2>4. CASE server = "new"
      <3>1. conn[<<ch, Server>>].sock = "none" /\ Stream(<<ch, Client>>) = <<>> /\ done[ch] = <<>>
        BY <1>1, <2>4 DEF NotYet
      <3>2. conn[<<ch, Server>>].deque = <<>>
        BY <1>2, <1>3, <3>1 DEF QueueOK
      <3>3. DOMAIN <<>> = {}
        OBVIOUS
      <3>4. DOMAIN conn'[<<ch, Server>>].deque = {}
        BY <1>3, <1>6, <3>2, <3>3
      <3>5. DOMAIN Stream(<<ch, Client>>)' = {} /\ DOMAIN done'[ch] = {}
        BY <1>3, <1>5, <3>1, <3>3
      <3> QED
        BY <2>1, <2>2, <3>4, <3>5
    <2> QED
      BY <2>3, <2>4
  <1>12. Lanes'
    <2> SUFFICES ASSUME NEW ch \in Chan
                 PROVE  \E w1, w2, w3, w4 \in 0..Len(called'[ch]) : LanesAt(ch, w1, w2, w3, w4)'
      BY DEF Lanes
    <2>1. PICK w1, w2, w3, w4 \in 0..Len(called[ch]) : LanesAt(ch, w1, w2, w3, w4)
      BY <1>1 DEF Lanes
    <2>2. LanesAt(ch, w1, w2, w3, w4)'
      BY <1>3, <1>5, <1>7, <2>1 DEF LanesAt
    <2> QED
      BY <2>1, <2>2
  <1>13. Waiting'
    BY <1>1 DEF Waiting
  <1>14. Framing'
    <2> SUFFICES ASSUME NEW e \in End, "send" \notin trouble'[e[1]]
                 PROVE  WellCut(Stream(e)') /\ LeftBy(conn'[PeerEnd(e)], Stream(e)')
      BY DEF Framing
    <2>1. PeerEnd(e) \in End /\ PeerEnd(e)[1] = e[1]
      BY DEF PeerEnd, Peer, End, Side
    <2>2. "send" \notin trouble[e[1]]
      BY <1>2
    <2>3. WellCut(Stream(e)) /\ LeftBy(conn[PeerEnd(e)], Stream(e))
      BY <1>1, <2>2 DEF Framing
    <2>4. Undisturbed(conn[PeerEnd(e)], conn'[PeerEnd(e)])
      BY <2>1
    <2> QED
      BY <1>5, <2>3, <2>4, UndisturbedFacts
  <1>15. Blamed'
    <2> SUFFICES ASSUME NEW e \in End
                 PROVE  /\ conn'[e].sock = "hung" => trouble'[e[1]] \cap {"hangup", "connect"} # {}
                        /\ e \in astray' => trouble'[e[1]] \cap Grave # {}
      BY DEF Blamed, Grave
    <2>1. trouble[e[1]] \subseteq trouble'[e[1]]
      BY <1>2
    <2>2. /\ conn[e].sock = "hung" => trouble[e[1]] \cap {"hangup", "connect"} # {}
          /\ e \in astray => trouble[e[1]] \cap Grave # {}
      BY <1>1 DEF Blamed, Grave
    <2> QED
      BY <2>1, <2>2
  <1> QED
    BY <1>8, <1>9, <1>10, <1>11, <1>12, <1>13, <1>14, <1>15 DEF IInv

\* One connection changes.
LEMMA OneEnd ==
    ASSUME IInv, NEW e \in End, NEW d,
           conn' = [conn EXCEPT ![e] = d],
           Eased(conn[e], d),
           "send" \in trouble'[e[1]] \/ Undisturbed(conn[e], d),
           d.sock = "hung" => conn[e].sock = "hung" \/ trouble'[e[1]] \cap {"hangup", "connect"} # {},
           trouble' \in [Chan -> SUBSET Troubles],
           \A ch \in Chan : trouble[ch] \subseteq trouble'[ch],
           astray' \in SUBSET End,
           \A x \in astray' : x \in astray \/ trouble'[x[1]] \cap Grave # {},
           UNCHANGED <<wire, id_method, called, done, services, server>>,
           server = "new" /\ e[2] = Server => d.sock = conn[e].sock
    PROVE  IInv'
  <1>1. conn \in [End -> ConnectionType] /\ \A x \in End : conn[x] \in ConnectionType /\ QueueOK(conn[x])
    BY DEF IInv, Typed, Queues
  <1>2. conn'[e] = d /\ \A x \in End : x # e => conn'[x] = conn[x]
    BY <1>1
  <1>3. conn' \in [End -> ConnectionType]
    BY <1>1 DEF Eased
  <1>4. ASSUME NEW x \in End
        PROVE  /\ Eased(conn[x], conn'[x])
               /\ "send" \in trouble'[x[1]] \/ Undisturbed(conn[x], conn'[x])
               /\ conn'[x].sock = "hung" =>
                     conn[x].sock = "hung" \/ trouble'[x[1]] \cap {"hangup", "connect"} # {}
    BY <1>1, <1>2, Unmoved
  <1>5. server' = "new" =>
           /\ server = "new"
           /\ \A ch \in Chan : conn'[<<ch, Server>>].sock = conn[<<ch, Server>>].sock
    <2>1. \A ch \in Chan : <<ch, Server>> \in End /\ <<ch, Server>>[2] = Server
      BY DEF End, Side
    <2> QED
      BY <1>2, <2>1
  <1> QED
    BY <1>3, <1>4, <1>5, Quietly

\* What a failure adds to the history.
LEMMA TroubleFacts ==
    ASSUME Typed, NEW ch \in Chan, NEW kind \in Troubles, Trouble(ch, kind)
    PROVE  /\ trouble' \in [Chan -> SUBSET Troubles]
           /\ \A x \in Chan : trouble[x] \subseteq trouble'[x]
           /\ kind \in trouble'[ch]
  BY DEF Typed, Trouble

\* start_recv touches the read only.
LEMMA RecvFacts ==
    ASSUME NEW c \in ConnectionType, NEW d, d = start_recv(c)
    PROVE  /\ d \in ConnectionType /\ d.sock = c.sock /\ d.rbuf = c.rbuf
           /\ d.wop = c.wop /\ d.sent = c.sent /\ d.deque = c.deque
  <1>1. PICK x \in {"none", "posted", "read"} :
           x = IF c.sock \in {"open", "hung"} THEN "read" ELSE "none"
    OBVIOUS
  <1>2. d = WithRop(c, x)
    BY <1>1 DEF start_recv, WithRop
  <1> QED
    BY <1>2, RopField

\* A socket and its write or connect changed.
LEMMA SockWopFacts ==
    ASSUME NEW c \in ConnectionType, NEW sock \in {"none", "connecting", "open", "hung", "closed"},
           NEW wop \in {"none", "connect", "write"},
           NEW d, d = WithSockWop(c, sock, wop)
    PROVE  /\ d \in ConnectionType /\ d.sock = sock /\ d.rbuf = c.rbuf /\ d.rop = c.rop
           /\ d.wop = wop /\ d.sent = c.sent /\ d.deque = c.deque
  <1> DEFINE a == WithSock(c, sock)
  <1>1. /\ a \in ConnectionType /\ a.rbuf = c.rbuf /\ a.rop = c.rop /\ a.sock = sock
        /\ a.sent = c.sent /\ a.deque = c.deque
    BY SockField
  <1>2. d = WithWop(a, wop)
    BY DEF WithSockWop, WithWop, WithSock, ConnectionType
  <1> HIDE DEF a
  <1> QED
    BY <1>1, <1>2, WopField

\* onConnectOp with SUCCESS.
LEMMA ConnectedFacts ==
    ASSUME NEW c \in ConnectionType, QueueOK(c), c.sock \in {"none", "connecting"},
           NEW d, d = start_recv([c EXCEPT !.sock = "open", !.wop = "none"])
    PROVE  Eased(c, d) /\ Undisturbed(c, d) /\ d.sock = "open"
  <1>1. PICK a : a = [c EXCEPT !.sock = "open", !.wop = "none"]
    OBVIOUS
  <1>2. /\ a \in ConnectionType /\ a.sock = "open" /\ a.rbuf = c.rbuf
        /\ a.wop = "none" /\ a.deque = c.deque
    <2>1. a = WithSockWop(c, "open", "none")
      BY <1>1 DEF WithSockWop
    <2> QED
      BY <2>1, SockWopFacts
  <1>3. d = start_recv(a)
    BY <1>1
  <1>4. d \in ConnectionType /\ d.sock = "open" /\ d.rbuf = c.rbuf /\ d.wop = "none" /\ d.deque = c.deque
    BY <1>2, <1>3, RecvFacts
  <1>5. c.deque = <<>> /\ ~Begun(c)
    BY DEF QueueOK, Begun
  <1>6. QueueOK(d)
    BY <1>4, <1>5 DEF QueueOK
  <1> QED
    BY <1>4, <1>5, <1>6 DEF Eased, Undisturbed, Gone

\* Construct keeps the invariant.
LEMMA ConstructStep ==
    ASSUME IInv, NEW ch \in Chan, Construct(ch)
    PROVE  IInv'
  <1> DEFINE e == <<ch, Client>>
             c == conn[e]
  <1>1. /\ e \in End /\ e[1] = ch /\ e[2] # Server /\ c \in ConnectionType /\ QueueOK(c) /\ Typed
    BY DEF IInv, Typed, Queues, End, Side, Client, Server
  <1>2. c.sock = "none" /\ c.wop = "none" /\ c.deque = <<>> /\ ~Begun(c)
    BY <1>1 DEF Construct, QueueOK, Begun
  <1>3. UNCHANGED <<wire, id_method, called, done, services, server, astray>>
    BY DEF Construct, calls, serving
  <1>4. /\ astray' \in SUBSET End /\ \A x \in astray' : x \in astray
        /\ trouble \in [Chan -> SUBSET Troubles]
    BY <1>1, <1>3 DEF Typed
  <1>5. CASE onConnectOp(ch, c) /\ UNCHANGED trouble
    <2>1. PICK d : d = start_recv([c EXCEPT !.sock = "open", !.wop = "none"])
      OBVIOUS
    <2>2. conn' = [conn EXCEPT ![e] = d]
      BY <1>5, <2>1 DEF onConnectOp
    <2>3. Eased(c, d) /\ Undisturbed(c, d) /\ d.sock = "open"
      BY <1>1, <1>2, <2>1, ConnectedFacts
    <2> QED
      BY <1>1, <1>3, <1>4, <1>5, <2>2, <2>3, OneEnd
  <1>6. CASE /\ conn' = [conn EXCEPT ![e] = [c EXCEPT !.sock = "connecting", !.wop = "connect"]]
             /\ UNCHANGED <<is_connected, trouble>>
    <2>1. PICK d : d = [c EXCEPT !.sock = "connecting", !.wop = "connect"]
      OBVIOUS
    <2>2. conn' = [conn EXCEPT ![e] = d]
      BY <1>6, <2>1
    <2>3. /\ d \in ConnectionType /\ d.sock = "connecting" /\ d.rbuf = c.rbuf
          /\ d.wop = "connect" /\ d.deque = <<>>
      <3>1. d = WithSockWop(c, "connecting", "connect")
        BY <2>1 DEF WithSockWop
      <3> QED
        BY <1>1, <1>2, <3>1, SockWopFacts
    <2>4. Eased(c, d) /\ Undisturbed(c, d)
      BY <1>2, <2>3 DEF Eased, Undisturbed, QueueOK, Gone
    <2> QED
      BY <1>1, <1>3, <1>4, <1>6, <2>2, <2>3, <2>4, OneEnd
  <1>7. ASSUME NEW sock \in {"hung", "closed"},
               conn' = [conn EXCEPT ![e].sock = sock], Trouble(ch, "connect")
        PROVE  IInv'
    <2>1. PICK d : d = WithSock(c, sock)
      OBVIOUS
    <2>2. conn' = [conn EXCEPT ![e] = d]
      BY <1>7, <2>1 DEF WithSock
    <2>3. d \in ConnectionType /\ d.sock = sock /\ d.rbuf = c.rbuf /\ d.wop = "none" /\ d.deque = <<>>
      BY <1>1, <1>2, <2>1, SockField
    <2>4. Eased(c, d) /\ Undisturbed(c, d)
      BY <1>2, <2>3 DEF Eased, Undisturbed, QueueOK, Gone
    <2>5. /\ trouble' \in [Chan -> SUBSET Troubles]
          /\ \A x \in Chan : trouble[x] \subseteq trouble'[x]
          /\ "connect" \in trouble'[ch]
      BY <1>1, <1>7, TroubleFacts DEF Troubles
    <2> QED
      BY <1>1, <1>3, <1>4, <2>2, <2>3, <2>4, <2>5, OneEnd
  <1> QED
    BY <1>5, <1>6, <1>7 DEF Construct

\* What holds of any end in the invariant.
LEMMA EndFacts ==
    ASSUME IInv, NEW e \in End
    PROVE  /\ Typed /\ conn \in [End -> ConnectionType] /\ conn[e] \in ConnectionType /\ QueueOK(conn[e])
           /\ e[1] \in Chan /\ e[2] \in Side /\ e = <<e[1], e[2]>>
           /\ astray \in SUBSET End /\ trouble \in [Chan -> SUBSET Troubles]
           /\ server = "new" /\ e[2] = Server => conn[e].sock = "none"
  <1>1. Typed /\ conn[e] \in ConnectionType /\ QueueOK(conn[e])
    BY DEF IInv, Typed, Queues
  <1>2. e[1] \in Chan /\ e[2] \in Side /\ e = <<e[1], e[2]>>
    BY DEF End
  <1>3. server = "new" => conn[<<e[1], Server>>].sock = "none"
    BY <1>2 DEF IInv, NotYet
  <1> QED
    BY <1>1, <1>2, <1>3 DEF Typed

\* The two ends of a channel.
LEMMA ChannelEnds ==
    ASSUME NEW ch \in Chan
    PROVE  /\ <<ch, Client>> \in End /\ <<ch, Client>>[1] = ch /\ <<ch, Client>>[2] # Server
           /\ <<ch, Server>> \in End /\ <<ch, Server>>[1] = ch /\ <<ch, Server>>[2] = Server
           /\ PeerEnd(<<ch, Client>>) = <<ch, Server>> /\ PeerEnd(<<ch, Server>>) = <<ch, Client>>
  BY DEF End, Side, Client, Server, PeerEnd, Peer

\* ConnectDone keeps the invariant.
LEMMA ConnectDoneStep ==
    ASSUME IInv, NEW ch \in Chan, ConnectDone(ch)
    PROVE  IInv'
  <1> DEFINE e == <<ch, Client>>
             c == conn[e]
  <1>1. e \in End /\ e[1] = ch /\ e[2] # Server
    BY ChannelEnds
  <1>2. c \in ConnectionType /\ QueueOK(c) /\ astray \in SUBSET End /\ trouble \in [Chan -> SUBSET Troubles]
    BY <1>1, EndFacts
  <1>3. PICK d : d = start_recv([c EXCEPT !.sock = "open", !.wop = "none"])
    OBVIOUS
  <1>4. conn' = [conn EXCEPT ![e] = d]
    BY <1>3 DEF ConnectDone, onConnectOp
  <1>5. Eased(c, d) /\ Undisturbed(c, d) /\ d.sock = "open"
    BY <1>2, <1>3, ConnectedFacts DEF ConnectDone
  <1>6. UNCHANGED <<wire, id_method, called, done, services, server, astray, trouble>>
    BY DEF ConnectDone, calls, serving
  <1> QED
    BY <1>1, <1>2, <1>4, <1>5, <1>6, OneEnd

\* ConnectFails keeps the invariant.
LEMMA ConnectFailsStep ==
    ASSUME IInv, NEW ch \in Chan, ConnectFails(ch)
    PROVE  IInv'
  <1> DEFINE e == <<ch, Client>>
             c == conn[e]
  <1>1. e \in End /\ e[1] = ch /\ e[2] # Server
    BY ChannelEnds
  <1>2. /\ c \in ConnectionType /\ QueueOK(c) /\ astray \in SUBSET End /\ Typed
        /\ conn \in [End -> ConnectionType]
    BY <1>1, EndFacts
  <1>3. PICK wop \in {"connect", "none"} :
           conn' = [conn EXCEPT ![e].sock = "hung", ![e].wop = wop]
    BY DEF ConnectFails
  <1>4. PICK d : d = WithSockWop(c, "hung", wop)
    OBVIOUS
  <1>5. conn' = [conn EXCEPT ![e] = d]
    BY <1>1, <1>2, <1>3, <1>4 DEF WithSockWop
  <1>6. /\ d \in ConnectionType /\ d.sock = "hung" /\ d.rbuf = c.rbuf /\ d.deque = c.deque
    BY <1>2, <1>4, SockWopFacts
  <1>7. c.sock = "connecting" /\ c.deque = <<>>
    BY <1>2 DEF ConnectFails, QueueOK
  <1>8. Eased(c, d) /\ Undisturbed(c, d)
    BY <1>6, <1>7 DEF Eased, Undisturbed, QueueOK, Gone
  <1>9. /\ trouble' \in [Chan -> SUBSET Troubles]
        /\ \A x \in Chan : trouble[x] \subseteq trouble'[x]
        /\ "connect" \in trouble'[ch]
    BY <1>2, TroubleFacts DEF Troubles, ConnectFails
  <1>10. UNCHANGED <<wire, id_method, called, done, services, server, astray>>
    BY DEF ConnectFails, calls, serving
  <1> QED
    BY <1>1, <1>2, <1>5, <1>8, <1>9, <1>10, OneEnd

\* A connection that is shut down is left alone.
LEMMA ClosedFacts ==
    ASSUME NEW c \in ConnectionType, NEW d, d = shutdown(c)
    PROVE  Eased(c, d) /\ Undisturbed(c, d) /\ d.sock = "closed"
  BY ShutdownFacts DEF Eased, Undisturbed, Begun

\* Shutdown keeps the invariant.
LEMMA ShutdownStep ==
    ASSUME IInv, NEW ch \in Chan, Shutdown(ch)
    PROVE  IInv'
  <1> DEFINE e == <<ch, Client>>
             c == conn[e]
  <1>1. e \in End /\ e[1] = ch /\ e[2] # Server
    BY ChannelEnds
  <1>2. c \in ConnectionType /\ astray \in SUBSET End /\ Typed
    BY <1>1, EndFacts
  <1>3. PICK d : d = shutdown(c)
    OBVIOUS
  <1>4. conn' = [conn EXCEPT ![e] = d]
    BY <1>3 DEF Shutdown
  <1>5. Eased(c, d) /\ Undisturbed(c, d) /\ d.sock = "closed"
    BY <1>2, <1>3, ClosedFacts
  <1>6. /\ trouble' \in [Chan -> SUBSET Troubles]
        /\ \A x \in Chan : trouble[x] \subseteq trouble'[x]
    BY <1>2, TroubleFacts DEF Troubles, Shutdown
  <1>7. UNCHANGED <<wire, id_method, called, done, services, server, astray>>
    BY DEF Shutdown, calls, serving
  <1> QED
    BY <1>1, <1>2, <1>4, <1>5, <1>6, <1>7, OneEnd

\* PeerClosed keeps the invariant.
LEMMA PeerClosedStep ==
    ASSUME IInv, NEW e \in End, PeerClosed(e)
    PROVE  IInv'
  <1> DEFINE c == conn[e]
  <1>1. /\ c \in ConnectionType /\ astray \in SUBSET End /\ trouble \in [Chan -> SUBSET Troubles]
        /\ server = "new" /\ e[2] = Server => c.sock = "none"
    BY EndFacts
  <1>2. PICK d : d = shutdown(c)
    OBVIOUS
  <1>3. conn' = [conn EXCEPT ![e] = d] /\ c.sock = "open"
    BY <1>2 DEF PeerClosed
  <1>4. Eased(c, d) /\ Undisturbed(c, d) /\ d.sock = "closed"
    BY <1>1, <1>2, ClosedFacts
  <1>5. UNCHANGED <<wire, id_method, called, done, services, server, astray, trouble>>
    BY DEF PeerClosed, calls, serving
  <1> QED
    BY <1>1, <1>3, <1>4, <1>5, OneEnd

\* Accept keeps the invariant.
LEMMA AcceptStep ==
    ASSUME IInv, NEW ch \in Chan, Accept(ch)
    PROVE  IInv'
  <1> DEFINE e == <<ch, Server>>
             c == conn[e]
             a == WithSock(c, "open")
  <1>1. e \in End /\ e[1] = ch
    BY ChannelEnds
  <1>2. /\ c \in ConnectionType /\ QueueOK(c) /\ astray \in SUBSET End
        /\ trouble \in [Chan -> SUBSET Troubles] /\ conn \in [End -> ConnectionType]
    BY <1>1, EndFacts
  <1>3. PICK d : d = WithRop(a, "posted")
    OBVIOUS
  <1>4. conn' = [conn EXCEPT ![e] = d]
    BY <1>1, <1>2, <1>3 DEF Accept, WithRop, WithSock
  <1>5. /\ a \in ConnectionType /\ a.sock = "open" /\ a.wop = c.wop /\ a.deque = c.deque
        /\ a.rbuf = c.rbuf
    BY <1>2, SockField
  <1> HIDE DEF a
  <1>6. /\ d \in ConnectionType /\ d.sock = "open" /\ d.wop = c.wop /\ d.deque = c.deque
        /\ d.rbuf = c.rbuf
    BY <1>3, <1>5, RopField
  <1>7. c.sock = "none" /\ c.deque = <<>> /\ c.wop = "none" /\ server # "new"
    BY <1>2 DEF Accept, QueueOK
  <1>8. Eased(c, d) /\ Undisturbed(c, d)
    BY <1>6, <1>7 DEF Eased, Undisturbed, QueueOK, Gone
  <1>9. UNCHANGED <<wire, id_method, called, done, services, server, astray, trouble>>
    BY DEF Accept, calls, serving
  <1> QED
    BY <1>1, <1>2, <1>4, <1>6, <1>7, <1>8, <1>9, OneEnd

\* A connection in which only the read changes.
LEMMA ReadOnlyFacts ==
    ASSUME NEW c \in ConnectionType, QueueOK(c), NEW d \in ConnectionType,
           d.sock = c.sock /\ d.rbuf = c.rbuf /\ d.wop = c.wop /\ d.sent = c.sent /\ d.deque = c.deque
    PROVE  Eased(c, d) /\ Undisturbed(c, d)
  <1>1. QueueOK(d)
    BY DEF QueueOK
  <1>2. Eased(c, d)
    BY <1>1 DEF Eased, Begun
  <1> QED
    BY <1>2, FieldTypes DEF Undisturbed

\* StartRecv keeps the invariant.
LEMMA StartRecvStep ==
    ASSUME IInv, NEW ch \in Chan, StartRecv(ch)
    PROVE  IInv'
  <1> DEFINE e == <<ch, Server>>
             c == conn[e]
  <1>1. e \in End /\ e[1] = ch
    BY ChannelEnds
  <1>2. /\ c \in ConnectionType /\ QueueOK(c) /\ astray \in SUBSET End
        /\ trouble \in [Chan -> SUBSET Troubles]
    BY <1>1, EndFacts
  <1>3. PICK d : d = start_recv(c)
    OBVIOUS
  <1>4. conn' = [conn EXCEPT ![e] = d]
    BY <1>3 DEF StartRecv
  <1>5. /\ d \in ConnectionType /\ d.sock = c.sock /\ d.rbuf = c.rbuf
        /\ d.wop = c.wop /\ d.sent = c.sent /\ d.deque = c.deque
    BY <1>2, <1>3, RecvFacts
  <1>6. Eased(c, d) /\ Undisturbed(c, d)
    BY <1>2, <1>5, ReadOnlyFacts
  <1>7. UNCHANGED <<wire, id_method, called, done, services, server, astray, trouble>>
    BY DEF StartRecv, calls, serving
  <1> QED
    BY <1>1, <1>2, <1>4, <1>5, <1>6, <1>7, OneEnd

\* A write ends, with SUCCESS or not, on a connection that is open.
LEMMA WrittenFacts ==
    ASSUME NEW e \in End, NEW c \in ConnectionType, c.sock = "open",
           NEW d, d = Kept(e, onSendCompleted([c EXCEPT !.wop = "none"]))
    PROVE  /\ d \in ConnectionType /\ QueueOK(d) /\ d.rbuf = c.rbuf
           /\ d.sock \in {"open", "closed"} /\ Gone(c, d)
           /\ d.sock = "open" /\ d.wop = "write" => d.sent = 0 /\ d.deque # <<>>
  <1>1. PICK o : o = WithWop(c, "none")
    OBVIOUS
  <1>2. PICK x : x = onSendCompleted(o)
    OBVIOUS
  <1>3. d = Kept(e, x)
    BY <1>1, <1>2 DEF WithWop
  <1>4. /\ o \in ConnectionType /\ o.sock = "open" /\ o.rbuf = c.rbuf
        /\ o.wop = "none" /\ o.deque = c.deque
    BY <1>1, WopField
  <1>5. /\ x \in ConnectionType /\ Same(o, x) /\ Gone(o, x)
        /\ \/ x.deque = <<>> /\ x.wop = "none"
           \/ x.deque # <<>> /\ x.wop = "write" /\ x.sent = 0
    BY <1>2, <1>4, CompletedFacts
  <1>6. Gone(c, x) /\ x.rbuf = c.rbuf /\ x.sock = "open"
    BY <1>4, <1>5 DEF Gone, Same
  <1>7. QueueOK(x)
    BY <1>5, <1>6, FrontFacts DEF QueueOK
  <1>8. CASE d = x
    BY <1>5, <1>6, <1>7, <1>8
  <1>9. CASE /\ d \in ConnectionType /\ QueueOK(d)
             /\ d.sock = "closed" /\ d.wop = "none" /\ d.rbuf = x.rbuf
             /\ d.deque = x.deque \/ Gone(x, d)
             /\ x.wop = "none"
    <2>1. x.deque = <<>>
      BY <1>5, <1>9
    <2>2. d.deque = <<>>
      BY <1>9, <2>1 DEF Gone
    <2> QED
      BY <1>6, <1>9, <2>2 DEF Gone
  <1> QED
    BY <1>3, <1>5, <1>8, <1>9, KeptFacts

\* SendFails keeps the invariant.
LEMMA SendFailsStep ==
    ASSUME IInv, NEW e \in End, SendFails(e)
    PROVE  IInv'
  <1> DEFINE c == conn[e]
  <1>1. /\ c \in ConnectionType /\ QueueOK(c) /\ astray \in SUBSET End /\ Typed /\ e[1] \in Chan
        /\ server = "new" /\ e[2] = Server => c.sock = "none"
    BY EndFacts
  <1>2. PICK d : d = Kept(e, onSendCompleted([c EXCEPT !.wop = "none"]))
    OBVIOUS
  <1>3. conn' = [conn EXCEPT ![e] = d] /\ c.sock = "open"
    BY <1>2 DEF SendFails
  <1>4. /\ d \in ConnectionType /\ QueueOK(d) /\ d.rbuf = c.rbuf
        /\ d.sock \in {"open", "closed"} /\ Gone(c, d)
    BY <1>1, <1>2, <1>3, WrittenFacts
  <1>5. Eased(c, d) /\ d.sock # "hung"
    BY <1>4 DEF Eased
  <1>6. /\ trouble' \in [Chan -> SUBSET Troubles]
        /\ \A x \in Chan : trouble[x] \subseteq trouble'[x]
        /\ "send" \in trouble'[e[1]]
    BY <1>1, TroubleFacts DEF Troubles, SendFails
  <1>7. UNCHANGED <<wire, id_method, called, done, services, server, astray>>
    BY DEF SendFails, calls, serving
  <1> QED
    BY <1>1, <1>3, <1>5, <1>6, <1>7, OneEnd

\* RecvFails keeps the invariant.
LEMMA RecvFailsStep ==
    ASSUME IInv, NEW e \in End, RecvFails(e)
    PROVE  IInv'
  <1> DEFINE c == conn[e]
  <1>1. /\ c \in ConnectionType /\ QueueOK(c) /\ astray \in SUBSET End /\ Typed /\ e[1] \in Chan
        /\ server = "new" /\ e[2] = Server => c.sock = "none"
    BY EndFacts
  <1>2. PICK x : x = WithRop(c, "none")
    OBVIOUS
  <1>3. PICK d : d = Kept(e, x)
    OBVIOUS
  <1>4. conn' = [conn EXCEPT ![e] = d] /\ c.sock = "open"
    BY <1>2, <1>3 DEF RecvFails, WithRop
  <1>5. /\ x \in ConnectionType /\ x.sock = c.sock /\ x.rbuf = c.rbuf
        /\ x.wop = c.wop /\ x.sent = c.sent /\ x.deque = c.deque
    BY <1>1, <1>2, RopField
  <1>6. Eased(c, d) /\ Undisturbed(c, d) /\ d.sock # "hung"
    <2>1. CASE d = x
      BY <1>1, <1>4, <1>5, <2>1, ReadOnlyFacts
    <2>2. CASE /\ d \in ConnectionType /\ QueueOK(d)
               /\ d.sock = "closed" /\ d.wop = "none" /\ d.rbuf = x.rbuf
               /\ d.deque = x.deque \/ Gone(x, d)
               /\ x.wop = "none"
      <3>1. x.deque = <<>>
        BY <1>1, <1>4, <1>5, <2>2 DEF QueueOK
      <3>2. d.deque = <<>>
        BY <2>2, <3>1 DEF Gone
      <3> QED
        BY <1>5, <2>2, <3>2 DEF Eased, Undisturbed, Gone
    <2> QED
      BY <1>3, <1>5, <2>1, <2>2, KeptFacts
  <1>7. /\ trouble' \in [Chan -> SUBSET Troubles]
        /\ \A y \in Chan : trouble[y] \subseteq trouble'[y]
    BY <1>1, TroubleFacts DEF Troubles, RecvFails
  <1>8. UNCHANGED <<wire, id_method, called, done, services, server, astray>>
    BY DEF RecvFails, calls, serving
  <1> QED
    BY <1>1, <1>4, <1>6, <1>7, <1>8, OneEnd

\* HangsUp keeps the invariant.
LEMMA HangsUpStep ==
    ASSUME IInv, NEW e \in End, HangsUp(e)
    PROVE  IInv'
  <1> DEFINE c == conn[e]
  <1>1. /\ c \in ConnectionType /\ QueueOK(c) /\ astray \in SUBSET End /\ Typed /\ e[1] \in Chan
        /\ conn \in [End -> ConnectionType]
        /\ server = "new" /\ e[2] = Server => c.sock = "none"
    BY EndFacts
  <1>2. PICK d : d = WithSock(c, "hung")
    OBVIOUS
  <1>3. conn' = [conn EXCEPT ![e] = d] /\ c.sock = "open"
    BY <1>1, <1>2 DEF HangsUp, WithSock
  <1>4. /\ d \in ConnectionType /\ d.sock = "hung" /\ d.rbuf = c.rbuf
        /\ d.wop = c.wop /\ d.sent = c.sent /\ d.deque = c.deque
    BY <1>1, <1>2, SockField
  <1>5. Eased(c, d) /\ Undisturbed(c, d)
    BY <1>4 DEF Eased, Undisturbed, QueueOK, Begun
  <1>6. /\ trouble' \in [Chan -> SUBSET Troubles]
        /\ \A x \in Chan : trouble[x] \subseteq trouble'[x]
        /\ "hangup" \in trouble'[e[1]]
    BY <1>1, TroubleFacts DEF Troubles, HangsUp
  <1>7. UNCHANGED <<wire, id_method, called, done, services, server, astray>>
    BY DEF HangsUp, calls, serving
  <1> QED
    BY <1>1, <1>3, <1>5, <1>6, <1>7, OneEnd

\* HupEvent keeps the invariant.
LEMMA HupEventStep ==
    ASSUME IInv, NEW e \in End, HupEvent(e)
    PROVE  IInv'
  <1> DEFINE c == conn[e]
  <1>1. /\ c \in ConnectionType /\ astray \in SUBSET End /\ trouble \in [Chan -> SUBSET Troubles]
        /\ server = "new" /\ e[2] = Server => c.sock = "none"
    BY EndFacts
  <1>2. PICK d : d = onSendCompleted(c)
    OBVIOUS
  <1>3. conn' = [conn EXCEPT ![e] = d] /\ c.sock = "hung"
    BY <1>2 DEF HupEvent
  <1>4. d \in ConnectionType /\ Same(c, d) /\ Gone(c, d)
    BY <1>1, <1>2, CompletedFacts
  <1>5. Eased(c, d) /\ Undisturbed(c, d) /\ d.sock = "hung"
    BY <1>3, <1>4 DEF Eased, Undisturbed, QueueOK, Same
  <1>6. trouble[e[1]] \cap Grave # {}
    <2>1. trouble[e[1]] \cap {"hangup", "connect"} # {}
      BY <1>3 DEF IInv, Blamed
    <2> QED
      BY <2>1 DEF Grave
  <1>7. /\ UNCHANGED <<wire, id_method, called, done, services, server, trouble>>
        /\ astray' = IF c.deque = <<>> THEN astray \cup {e} ELSE astray
    BY DEF HupEvent, calls, serving
  <1>8. /\ astray' \in SUBSET End
        /\ \A x \in astray' : x \in astray \/ trouble'[x[1]] \cap Grave # {}
    BY <1>1, <1>6, <1>7
  <1>9. \A x \in Chan : trouble[x] \subseteq trouble'[x]
    BY <1>7
  <1> QED
    BY <1>1, <1>3, <1>5, <1>7, <1>8, <1>9, OneEnd

\* No connection changes.
LEMMA NoEnd ==
    ASSUME IInv, UNCHANGED <<conn, wire, id_method, called, done, astray>>,
           services' = services \/ server = "new", server' = "new" => server = "new",
           trouble' \in [Chan -> SUBSET Troubles],
           \A ch \in Chan : trouble[ch] \subseteq trouble'[ch]
    PROVE  IInv'
  <1>1. /\ conn \in [End -> ConnectionType] /\ \A x \in End : conn[x] \in ConnectionType /\ QueueOK(conn[x])
        /\ astray \in SUBSET End
    BY DEF IInv, Typed, Queues
  <1>2. \A e \in End : Eased(conn[e], conn'[e]) /\ Undisturbed(conn[e], conn'[e])
    BY <1>1, Unmoved
  <1> QED
    BY <1>1, <1>2, Quietly

\* RegisterService keeps the invariant.
LEMMA RegisterServiceStep ==
    ASSUME IInv, NEW service, RegisterService(service)
    PROVE  IInv'
  <1>1. trouble \in [Chan -> SUBSET Troubles]
    BY DEF IInv, Typed
  <1> QED
    BY <1>1, NoEnd DEF RegisterService, calls

\* Start keeps the invariant.
LEMMA StartStep ==
    ASSUME IInv, Start
    PROVE  IInv'
  <1>1. trouble \in [Chan -> SUBSET Troubles]
    BY DEF IInv, Typed
  <1>2. /\ trouble' \in [Chan -> SUBSET Troubles]
        /\ \A ch \in Chan : trouble[ch] \subseteq trouble'[ch]
    BY <1>1 DEF Start, Troubles
  <1> QED
    BY <1>2, NoEnd DEF Start, calls

\* AcceptFails keeps the invariant.
LEMMA AcceptFailsStep ==
    ASSUME IInv, AcceptFails
    PROVE  IInv'
  <1>1. trouble \in [Chan -> SUBSET Troubles]
    BY DEF IInv, Typed
  <1>2. /\ trouble' \in [Chan -> SUBSET Troubles]
        /\ \A ch \in Chan : trouble[ch] \subseteq trouble'[ch]
    BY <1>1 DEF AcceptFails, Troubles
  <1> QED
    BY <1>2, NoEnd DEF AcceptFails, calls

\* Stop keeps the invariant.
LEMMA StopStep ==
    ASSUME IInv, Stop
    PROVE  IInv'
  <1>1. /\ conn \in [End -> ConnectionType] /\ \A x \in End : conn[x] \in ConnectionType /\ QueueOK(conn[x])
        /\ astray \in SUBSET End /\ trouble \in [Chan -> SUBSET Troubles]
    BY DEF IInv, Typed, Queues
  <1>2. conn' = [e \in End |->
           IF e[2] = Server /\ conn[e].sock # "none" THEN shutdown(conn[e]) ELSE conn[e]]
    BY DEF Stop
  <1>3. ASSUME NEW e \in End
        PROVE  /\ Eased(conn[e], conn'[e]) /\ Undisturbed(conn[e], conn'[e])
               /\ conn'[e] \in ConnectionType
               /\ conn'[e].sock = "hung" => conn[e].sock = "hung"
    <2>1. CASE e[2] = Server /\ conn[e].sock # "none"
      <3>1. conn'[e] = shutdown(conn[e])
        BY <1>2, <2>1
      <3>2. Eased(conn[e], conn'[e]) /\ Undisturbed(conn[e], conn'[e]) /\ conn'[e].sock = "closed"
        BY <1>1, <3>1, ClosedFacts
      <3> QED
        BY <3>2 DEF Eased
    <2>2. CASE ~(e[2] = Server /\ conn[e].sock # "none")
      <3>1. conn'[e] = conn[e]
        BY <1>2, <2>2
      <3> QED
        BY <1>1, <3>1, Unmoved
    <2> QED
      BY <2>1, <2>2
  <1>4. conn' \in [End -> ConnectionType]
    <2>1. DOMAIN conn' = End /\ conn' = [e \in DOMAIN conn' |-> conn'[e]]
      BY <1>2
    <2> QED
      BY <1>3, <2>1
  <1>5. /\ trouble' = [ch \in Chan |-> trouble[ch] \cup {"stop"}]
        /\ astray' = astray \cup {e \in Chan \X {Server} : Len(conn[e].deque) > 1}
        /\ server' = "stopped" /\ UNCHANGED <<wire, id_method, called, done, services>>
    BY DEF Stop, calls
  <1>6. /\ trouble' \in [Chan -> SUBSET Troubles]
        /\ \A ch \in Chan : trouble[ch] \subseteq trouble'[ch] /\ "stop" \in trouble'[ch]
    BY <1>1, <1>5 DEF Troubles
  <1>7. /\ astray' \in SUBSET End
        /\ \A e \in astray' : e \in astray \/ trouble'[e[1]] \cap Grave # {}
    <2>1. \A e \in Chan \X {Server} : e \in End /\ e[1] \in Chan
      BY DEF End, Side
    <2>2. "stop" \in Grave
      BY DEF Grave
    <2> QED
      BY <1>1, <1>5, <1>6, <2>1, <2>2
  <1> QED
    BY <1>3, <1>4, <1>5, <1>6, <1>7, Quietly

----------------------------------------------------------------------------
(* Writing. *)

\* What a write of n bytes does: they go to the far end of the stream, and the
\* message goes on being written or is gone.
Wrote(c, d, n) ==
    /\ d \in ConnectionType /\ QueueOK(d) /\ d.rbuf = c.rbuf /\ d.sock \in {"open", "closed"}
    /\ \/ /\ c.sent + n < Len(Frame(Head(c.deque)))
          /\ d.sock = "open" /\ d.deque = c.deque /\ d.wop = "write" /\ d.sent = c.sent + n
       \/ /\ c.sent + n = Len(Frame(Head(c.deque)))
          /\ Gone(c, d)
          /\ d.sock = "open" /\ d.wop = "write" => d.sent = 0 /\ d.deque # <<>>

\* A write that does not finish the front message.
LEMMA AdvanceFacts ==
    ASSUME NEW c \in ConnectionType, c.sock = "open", c.wop = "write", c.deque # <<>>,
           NEW n \in Nat, c.sent + n < Len(Frame(Head(c.deque))),
           NEW d, d = [c EXCEPT !.sent = @ + n]
    PROVE  Wrote(c, d, n)
  <1>1. c.sent + n \in Nat
    BY FieldTypes
  <1>2. d = WithSent(c, c.sent + n)
    BY DEF WithSent
  <1>3. \A x \in Nat : d = WithSent(c, x) =>
           /\ d \in ConnectionType /\ d.sock = c.sock /\ d.rbuf = c.rbuf
           /\ d.wop = c.wop /\ d.sent = x /\ d.deque = c.deque
    <2> SUFFICES ASSUME NEW x \in Nat, NEW y, y = WithSent(c, x)
                 PROVE  /\ y \in ConnectionType /\ y.sock = c.sock /\ y.rbuf = c.rbuf
                        /\ y.wop = c.wop /\ y.sent = x /\ y.deque = c.deque
      BY Zenon
    <2> QED
      BY SentField
  <1>4. /\ d \in ConnectionType /\ d.sock = c.sock /\ d.rbuf = c.rbuf
        /\ d.wop = c.wop /\ d.sent = c.sent + n /\ d.deque = c.deque
    BY <1>1, <1>2, <1>3, Zenon
  <1>5. QueueOK(d)
    BY <1>4 DEF QueueOK
  <1> QED
    BY <1>4, <1>5 DEF Wrote

\* What a write of n bytes at an end makes of its connection and of the stream.
SentOn(e, n, d) ==
    /\ Wrote(conn[e], d, n)
    /\ conn' = [conn EXCEPT ![e] = d]
    /\ wire' = [wire EXCEPT ![PeerEnd(e)] =
          @ \o SubSeq(Frame(Head(conn[e].deque)), conn[e].sent + 1, conn[e].sent + n)]

\* A writable end sends bytes of its front message and calls nothing.
LEMMA WritableFacts ==
    ASSUME IInv, NEW e \in End, Writable(e)
    PROVE  /\ conn[e].sock = "open" /\ conn[e].wop = "write" /\ conn[e].deque # <<>>
           /\ conn[e].sent < Len(Frame(Head(conn[e].deque)))
           /\ UNCHANGED <<id_method, called, done, services, server, trouble, astray>>
           /\ \E n \in 1..Len(Frame(Head(conn[e].deque))) - conn[e].sent : \E d : SentOn(e, n, d)
  <1> DEFINE c == conn[e]
             F == Frame(Head(c.deque))
  <1>1. c \in ConnectionType /\ QueueOK(c)
    BY EndFacts
  <1>2. c.sock = "open" /\ c.wop = "write"
    BY DEF Writable
  <1>3. c.deque # <<>> /\ c.sent < Len(F)
    BY <1>1, <1>2 DEF QueueOK
  <1>4. UNCHANGED <<id_method, called, done, services, server, trouble, astray>>
    BY DEF Writable, calls, serving
  <1>5. PICK n \in 1..Len(F) - c.sent :
           /\ wire' = [wire EXCEPT ![PeerEnd(e)] = @ \o SubSeq(F, c.sent + 1, c.sent + n)]
           /\ conn' = [conn EXCEPT ![e] =
                 IF c.sent + n < Len(F) THEN [c EXCEPT !.sent = @ + n]
                 ELSE Kept(e, onSendCompleted([c EXCEPT !.wop = "none"]))]
    BY DEF Writable
  <1>6. Len(F) \in Nat /\ c.sent \in Nat /\ Head(c.deque) \in Message
    BY <1>1, <1>3, FrontFacts, FieldTypes
  <1> HIDE DEF F
  <1>7. c.sent + n \in Nat /\ n \in Nat /\ n # 0 /\ c.sent + n <= Len(F)
    BY <1>5, <1>6
  <1>8. CASE c.sent + n < Len(F)
    <2>1. PICK d : d = [c EXCEPT !.sent = @ + n]
      OBVIOUS
    <2>3. conn' = [conn EXCEPT ![e] = d]
      BY <1>5, <1>8, <2>1
    <2>4. c.sent + n < Len(Frame(Head(c.deque))) /\ n \in Nat /\ c.deque # <<>>
      BY <1>3, <1>7, <1>8 DEF F
    <2>6. Wrote(c, d, n)
      <3> HIDE DEF c
      <3> QED
        BY <1>1, <1>2, <2>1, <2>4, AdvanceFacts
    <2>7. SentOn(e, n, d)
      BY <1>5, <2>3, <2>6 DEF F, SentOn
    <2> QED
      BY <1>2, <1>3, <1>4, <2>7 DEF F
  <1>9. CASE ~(c.sent + n < Len(F))
    <2>1. PICK d : d = Kept(e, onSendCompleted([c EXCEPT !.wop = "none"]))
      OBVIOUS
    <2>2. conn' = [conn EXCEPT ![e] = d]
      BY <1>5, <1>9, <2>1
    <2>3. /\ d \in ConnectionType /\ QueueOK(d) /\ d.rbuf = c.rbuf
          /\ d.sock \in {"open", "closed"} /\ Gone(c, d)
          /\ d.sock = "open" /\ d.wop = "write" => d.sent = 0 /\ d.deque # <<>>
      <3> HIDE DEF c
      <3> QED
        BY <1>1, <1>2, <2>1, WrittenFacts
    <2>4. c.sent + n = Len(F)
      BY <1>6, <1>7, <1>9
    <2>5. Wrote(c, d, n)
      BY <2>3, <2>4 DEF Wrote, F
    <2>6. SentOn(e, n, d)
      BY <1>5, <2>2, <2>5 DEF F, SentOn
    <2> QED
      BY <1>2, <1>3, <1>4, <2>6 DEF F
  <1> QED
    BY <1>8, <1>9

\* Writable keeps the invariant.
LEMMA WritableStep ==
    ASSUME IInv, NEW e \in End, Writable(e)
    PROVE  IInv'
  <1> DEFINE c == conn[e]
             p == PeerEnd(e)
             h == Head(c.deque)
             ch == e[1]
  <1>1. /\ Typed /\ c \in ConnectionType /\ QueueOK(c) /\ conn \in [End -> ConnectionType]
        /\ ch \in Chan /\ e[2] \in Side /\ e = <<ch, e[2]>>
        /\ server = "new" /\ e[2] = Server => c.sock = "none"
    BY EndFacts
  <1>2. /\ c.sock = "open" /\ c.wop = "write" /\ c.deque # <<>> /\ c.sent < Len(Frame(h))
        /\ UNCHANGED <<id_method, called, done, services, server, trouble, astray>>
    BY WritableFacts
  <1>30. PICK n \in 1..Len(Frame(h)) - c.sent : \E d : SentOn(e, n, d)
    BY WritableFacts
  <1>31. PICK d : SentOn(e, n, d)
    BY <1>30
  <1>3. /\ Wrote(c, d, n)
        /\ conn' = [conn EXCEPT ![e] = d]
        /\ wire' = [wire EXCEPT ![p] = @ \o SubSeq(Frame(h), c.sent + 1, c.sent + n)]
    BY <1>31 DEF SentOn
  <1> DEFINE w == SubSeq(Frame(h), c.sent + 1, c.sent + n)
  <1>4. h \in Message /\ h = c.deque[1] /\ 1 \in DOMAIN c.deque /\ Len(Frame(h)) \in Nat /\ c.sent \in Nat
    BY <1>1, <1>2, FrontFacts, FieldTypes
  <1>5. w \in Seq(Byte) /\ Len(w) = n /\ \A k \in 1..n : w[k] = <<h, c.sent + k>>
    <2>1. c.sent \in 0..Len(Frame(h)) /\ n \in 0..Len(Frame(h)) - c.sent
      BY <1>2, <1>4
    <2> QED
      BY <1>4, <2>1, PartFacts
  <1>6. /\ p \in End /\ p # e /\ p[1] = ch /\ PeerEnd(p) = e
        /\ \A x \in End : x = e \/ x = p \/ x[1] # ch
    BY <1>1 DEF PeerEnd, Peer, End, Side, Client, Server
  <1> HIDE DEF h, w, p
  <1>7. /\ conn'[e] = d /\ \A x \in End : x # e => conn'[x] = conn[x]
        /\ conn' \in [End -> ConnectionType]
    BY <1>1, <1>3 DEF Wrote
  <1>8. /\ wire \in [End -> Seq(Byte)] /\ wire'[p] = wire[p] \o w
        /\ \A x \in End : x # p => wire'[x] = wire[x]
    BY <1>1, <1>3, <1>6 DEF Typed, w
  <1>9. wire' \in [End -> Seq(Byte)]
    <2>1. wire[p] \o w \in Seq(Byte)
      BY <1>5, <1>6, <1>8, JoinFacts
    <2> QED
      BY <1>3, <1>8, <2>1 DEF w
  <1>10. /\ d \in ConnectionType /\ QueueOK(d) /\ d.rbuf = c.rbuf /\ d.sock \in {"open", "closed"}
         /\ (d.deque = c.deque /\ Begun(d)) \/ Gone(c, d)
    <2>1. c.sent + n > 0
      BY <1>4
    <2> QED
      BY <1>3, <2>1 DEF Wrote, Begun
  <1>11. \A x \in End : conn'[x].rbuf = conn[x].rbuf /\ conn[x].rbuf \in Seq(Byte)
    BY <1>1, <1>7, <1>10, FieldTypes
  <1>12. \A x \in End : x # p => Stream(x)' = Stream(x)
    BY <1>8, <1>11 DEF Stream
  <1>13. Stream(p) \in Seq(Byte) /\ Stream(p)' = Stream(p) \o w
    <2> DEFINE r == conn[p].rbuf
               v == wire[p]
    <2>1. r \in Seq(Byte) /\ v \in Seq(Byte)
      BY <1>6, <1>8, <1>11
    <2>2. Stream(p) = r \o v /\ Stream(p)' = r \o (v \o w)
      BY <1>6, <1>8, <1>11 DEF Stream
    <2> HIDE DEF r, v
    <2>3. r \o (v \o w) = (r \o v) \o w
      <3>1. w \in Seq(Byte)
        BY <1>5
      <3> QED
        BY <2>1, <3>1, JoinThree
    <2>4. r \o v \in Seq(Byte)
      BY <2>1, JoinFacts
    <2> QED
      BY <2>2, <2>3, <2>4
  <1>14. \A i \in DOMAIN Stream(p)' :
            \/ \E j \in DOMAIN Stream(p) : Stream(p)'[i][1] = Stream(p)[j][1]
            \/ Stream(p)'[i][1] = h
    <2> DEFINE s == Stream(p)
               t == s \o w
    <2>1. s \in Seq(Byte) /\ Stream(p)' = t
      BY <1>13
    <2> HIDE DEF s
    <2>2. t \in Seq(Byte) /\ DOMAIN s = 1..Len(s)
      BY <1>5, <2>1, JoinFacts
    <2>3. \A i \in 1..Len(t) : \/ i \in 1..Len(s) /\ t[i] = s[i]
                               \/ i - Len(s) \in 1..Len(w) /\ t[i] = w[i - Len(s)]
      BY <1>5, <2>1, JoinCases
    <2> HIDE DEF t
    <2>4. DOMAIN t = 1..Len(t)
      BY <2>2
    <2>5. \A i \in DOMAIN t : (\E j \in DOMAIN s : t[i][1] = s[j][1]) \/ t[i][1] = h
      BY <1>5, <2>2, <2>3, <2>4
    <2> QED
      BY <2>1, <2>5 DEF s
  <1>15. \A i \in DOMAIN d.deque : \E j \in DOMAIN c.deque : d.deque[i] = c.deque[j]
    BY <1>1, <1>10, GoneFacts
  <1>16. Typed'
    BY <1>1, <1>2, <1>7, <1>9 DEF Typed
  <1>17. Queues'
    BY <1>7, <1>10 DEF Queues, IInv
  <1>18. NotYet'
    <2> SUFFICES ASSUME NEW x \in Chan
                 PROVE  /\ server' = "new" => conn'[<<x, Server>>].sock = "none"
                        /\ conn'[<<x, Server>>].sock = "none" =>
                              /\ conn'[<<x, Server>>].rbuf = <<>>
                              /\ Stream(<<x, Client>>)' = <<>> /\ done'[x] = <<>>
      BY DEF NotYet
    <2>1. /\ server = "new" => conn[<<x, Server>>].sock = "none"
          /\ conn[<<x, Server>>].sock = "none" =>
                /\ conn[<<x, Server>>].rbuf = <<>>
                /\ Stream(<<x, Client>>) = <<>> /\ done[x] = <<>>
      BY DEF IInv, NotYet
    <2>2. <<x, Server>> \in End /\ <<x, Client>> \in End /\ PeerEnd(<<x, Server>>) = <<x, Client>>
      BY ChannelEnds
    <2>3. CASE e = <<x, Server>>
      BY <1>2, <1>7, <1>10, <2>1, <2>3
    <2>4. CASE e # <<x, Server>>
      <3>1. conn'[<<x, Server>>] = conn[<<x, Server>>]
        BY <1>7, <2>2, <2>4
      <3>2. p # <<x, Client>>
        BY <1>6, <2>2, <2>4 DEF p, PeerEnd, Peer, Client, Server
      <3>3. Stream(<<x, Client>>)' = Stream(<<x, Client>>)
        BY <1>12, <2>2, <3>2
      <3> QED
        BY <1>2, <2>1, <3>1, <3>3
    <2> QED
      BY <2>3, <2>4
  <1>19. Waiting'
    BY <1>2 DEF Waiting, IInv
  <1>20. Blamed'
    BY <1>2, <1>7, <1>10 DEF Blamed, IInv
  <1>21. Framing'
    <2> SUFFICES ASSUME NEW x \in End, "send" \notin trouble'[x[1]]
                 PROVE  WellCut(Stream(x)') /\ LeftBy(conn'[PeerEnd(x)], Stream(x)')
      BY DEF Framing
    <2>1. WellCut(Stream(x)) /\ LeftBy(conn[PeerEnd(x)], Stream(x))
      BY <1>2 DEF Framing, IInv
    <2>2. CASE x = p
      <3> DEFINE s == Stream(p)
      <3>1. PeerEnd(x) = e
        BY <1>6, <2>2
      <3>2. Cut(s).sound /\ Rest(s) = SubSeq(Frame(h), 1, c.sent)
        BY <1>2, <2>1, <2>2, <3>1 DEF WellCut, LeftBy, h
      <3>3. s \in Seq(Byte) /\ Stream(p)' = s \o w
        BY <1>13
      <3> HIDE DEF s
      <3>4. c.sent \in 0..Len(Frame(h)) /\ n \in 0..Len(Frame(h)) - c.sent
        BY <1>2, <1>4
      <3>5. /\ WellCut(s \o w)
            /\ c.sent + n = Len(Frame(h)) => Rest(s \o w) = <<>>
            /\ c.sent + n # Len(Frame(h)) => Rest(s \o w) = SubSeq(Frame(h), 1, c.sent + n)
        BY <1>4, <3>2, <3>3, <3>4, WriteKeepsCut DEF w
      <3>6. CASE /\ c.sent + n < Len(Frame(h))
                 /\ d.sock = "open" /\ d.deque = c.deque /\ d.wop = "write" /\ d.sent = c.sent + n
        <4>1. c.sent + n # Len(Frame(h))
          BY <1>4, <3>6
        <4>2. LeftBy(d, s \o w)
          BY <3>5, <3>6, <4>1 DEF LeftBy, h
        <4> QED
          BY <1>7, <2>2, <3>1, <3>3, <3>5, <4>2
      <3>7. CASE /\ c.sent + n = Len(Frame(h))
                 /\ d.sock = "open" /\ d.wop = "write" => d.sent = 0 /\ d.deque # <<>>
        <4>1. Rest(s \o w) = <<>>
          BY <3>5, <3>7
        <4>2. \A m : SubSeq(Frame(m), 1, 0) = <<>>
          BY SubSeqEmpty
        <4>3. LeftBy(d, s \o w)
          BY <3>7, <4>1, <4>2 DEF LeftBy
        <4> QED
          BY <1>7, <2>2, <3>1, <3>3, <3>5, <4>3
      <3> QED
        BY <1>3, <3>6, <3>7 DEF Wrote, h
    <2>3. CASE x # p
      <3>1. PeerEnd(x) \in End /\ PeerEnd(x) # e
        BY <2>3 DEF p, PeerEnd, Peer, End, Side, Client, Server
      <3> QED
        BY <1>7, <1>12, <2>1, <2>3, <3>1
    <2> QED
      BY <2>2, <2>3
  <1>22. ASSUME NEW x \in Chan, x # ch
         PROVE  /\ conn'[<<x, Client>>] = conn[<<x, Client>>] /\ conn'[<<x, Server>>] = conn[<<x, Server>>]
                /\ Stream(<<x, Client>>)' = Stream(<<x, Client>>)
                /\ Stream(<<x, Server>>)' = Stream(<<x, Server>>)
    <2>1. /\ <<x, Client>> \in End /\ <<x, Server>> \in End
          /\ <<x, Client>> # e /\ <<x, Server>> # e /\ <<x, Client>> # p /\ <<x, Server>> # p
      BY <1>6, <1>22, ChannelEnds
    <2> QED
      BY <1>7, <1>12, <2>1
  <1>23. /\ e = <<ch, Client>> => p = <<ch, Server>>
         /\ e = <<ch, Server>> => p = <<ch, Client>>
         /\ e = <<ch, Client>> \/ e = <<ch, Server>>
         /\ <<ch, Client>> \in End /\ <<ch, Server>> \in End /\ <<ch, Client>> # <<ch, Server>>
    BY <1>1, ChannelEnds DEF p, Side, Client, Server
  <1>24. Contents'
    <2> SUFFICES ASSUME NEW x \in Chan
                 PROVE  /\ \A i \in DOMAIN conn'[<<x, Client>>].deque :
                              IsRequest(called'[x], conn'[<<x, Client>>].deque[i])
                        /\ \A i \in DOMAIN Stream(<<x, Server>>)' :
                              IsRequest(called'[x], Stream(<<x, Server>>)'[i][1])
                        /\ \A i \in DOMAIN conn'[<<x, Server>>].deque :
                              IsResponse(called'[x], services', conn'[<<x, Server>>].deque[i])
                        /\ \A i \in DOMAIN Stream(<<x, Client>>)' :
                              IsResponse(called'[x], services', Stream(<<x, Client>>)'[i][1])
                        /\ \A i \in DOMAIN done'[x] : IsResponse(called'[x], services', done'[x][i])
      BY DEF Contents
    <2>1. /\ \A i \in DOMAIN conn[<<x, Client>>].deque :
                IsRequest(called[x], conn[<<x, Client>>].deque[i])
          /\ \A i \in DOMAIN Stream(<<x, Server>>) : IsRequest(called[x], Stream(<<x, Server>>)[i][1])
          /\ \A i \in DOMAIN conn[<<x, Server>>].deque :
                IsResponse(called[x], services, conn[<<x, Server>>].deque[i])
          /\ \A i \in DOMAIN Stream(<<x, Client>>) :
                IsResponse(called[x], services, Stream(<<x, Client>>)[i][1])
          /\ \A i \in DOMAIN done[x] : IsResponse(called[x], services, done[x][i])
      BY DEF IInv, Contents
    <2>2. CASE x # ch
      BY <1>2, <1>22, <2>1, <2>2
    <2>3. CASE x = ch /\ e = <<ch, Client>>
      <3>1. p = <<ch, Server>> /\ conn'[<<ch, Server>>] = conn[<<ch, Server>>]
            /\ Stream(<<ch, Client>>)' = Stream(<<ch, Client>>)
        BY <1>7, <1>12, <1>23, <2>3
      <3>2. IsRequest(called[x], h)
        BY <1>4, <2>1, <2>3
      <3> QED
        BY <1>2, <1>7, <1>14, <1>15, <2>1, <2>3, <3>1, <3>2
    <2>4. CASE x = ch /\ e = <<ch, Server>>
      <3>1. p = <<ch, Client>> /\ conn'[<<ch, Client>>] = conn[<<ch, Client>>]
            /\ Stream(<<ch, Server>>)' = Stream(<<ch, Server>>)
        BY <1>7, <1>12, <1>23, <2>4
      <3>2. IsResponse(called[x], services, h)
        BY <1>4, <2>1, <2>4
      <3> QED
        BY <1>2, <1>7, <1>14, <1>15, <2>1, <2>4, <3>1, <3>2
    <2> QED
      BY <1>23, <2>2, <2>3, <2>4
  <1>25. Lanes'
    <2> SUFFICES ASSUME NEW x \in Chan
                 PROVE  \E w1, w2, w3, w4 \in 0..Len(called'[x]) : LanesAt(x, w1, w2, w3, w4)'
      BY DEF Lanes
    <2>1. PICK w1, w2, w3, w4 \in 0..Len(called[x]) : LanesAt(x, w1, w2, w3, w4)
      BY DEF IInv, Lanes
    <2> DEFINE L == Len(called[x])
    <2>2. L \in Nat /\ L = Len(called'[x]) /\ w1 \in Nat /\ w2 \in Nat /\ w3 \in Nat /\ w4 \in Nat
      BY <1>1, <1>2 DEF Typed
    <2>3. /\ w1 <= w2 /\ w2 <= w3 /\ w3 <= w4 /\ w4 <= L
          /\ MessageLane(done[x], 0, w1)
          /\ StreamLane(Stream(<<x, Client>>), w1, w2)
          /\ DequeLane(conn[<<x, Server>>], w2, w3)
          /\ StreamLane(Stream(<<x, Server>>), w3, w4)
          /\ DequeLane(conn[<<x, Client>>], w4, L)
      BY <2>1 DEF LanesAt
    <2>4. CASE x # ch
      <3>1. LanesAt(x, w1, w2, w3, w4)'
        BY <1>2, <1>22, <2>3, <2>4 DEF LanesAt
      <3> QED
        BY <2>2, <3>1
    <2> HIDE DEF L
    <2>5. ASSUME NEW lo \in Nat, NEW mid \in Nat, NEW hi \in Nat, lo <= mid, mid <= hi,
                 StreamLane(Stream(p), lo, mid), DequeLane(c, mid, hi)
          PROVE  \E mid2 \in mid..hi : StreamLane(Stream(p)', lo, mid2) /\ DequeLane(d, mid2, hi)
      <3> DEFINE s == Stream(p)
      <3>1. s \in Seq(Byte) /\ Stream(p)' = s \o w
        BY <1>13
      <3>2. StreamLane(s, lo, mid)
        BY <2>5
      <3> HIDE DEF s
      <3>3. \E mid2 \in mid..hi : StreamLane(s \o w, lo, mid2) /\ DequeLane(d, mid2, hi)
        BY <1>1, <1>2, <1>10, <2>5, <3>1, <3>2, WriteLane DEF h, w
      <3> QED
        BY <3>1, <3>3
    <2>6. CASE x = ch /\ e = <<ch, Client>>
      <3>1. p = <<ch, Server>> /\ conn'[<<ch, Server>>] = conn[<<ch, Server>>]
            /\ Stream(<<ch, Client>>)' = Stream(<<ch, Client>>)
        BY <1>7, <1>12, <1>23, <2>6
      <3>2. PICK mid \in w4..L : StreamLane(Stream(p)', w3, mid) /\ DequeLane(d, mid, L)
        BY <2>2, <2>3, <2>5, <2>6, <3>1
      <3>3. mid \in 0..L /\ w3 <= mid /\ mid <= L
        BY <2>2, <2>3
      <3>4. LanesAt(x, w1, w2, w3, mid)'
        BY <1>2, <1>7, <2>2, <2>3, <2>6, <3>1, <3>2, <3>3 DEF LanesAt
      <3> QED
        BY <2>1, <2>2, <3>3, <3>4 DEF L
    <2>7. CASE x = ch /\ e = <<ch, Server>>
      <3>1. p = <<ch, Client>> /\ conn'[<<ch, Client>>] = conn[<<ch, Client>>]
            /\ Stream(<<ch, Server>>)' = Stream(<<ch, Server>>)
        BY <1>7, <1>12, <1>23, <2>7
      <3>2. PICK mid \in w2..w3 : StreamLane(Stream(p)', w1, mid) /\ DequeLane(d, mid, w3)
        BY <2>2, <2>3, <2>5, <2>7, <3>1
      <3>3. mid \in 0..L /\ w1 <= mid /\ mid <= w3
        BY <2>2, <2>3
      <3>4. LanesAt(x, w1, mid, w3, w4)'
        BY <1>2, <1>7, <2>2, <2>3, <2>7, <3>1, <3>2, <3>3 DEF LanesAt
      <3> QED
        BY <2>1, <2>2, <3>3, <3>4 DEF L
    <2> QED
      BY <1>23, <2>4, <2>6, <2>7
  <1> QED
    BY <1>16, <1>17, <1>18, <1>19, <1>20, <1>21, <1>24, <1>25 DEF IInv

----------------------------------------------------------------------------
(* Messages queued, by a call or by the server's answers. *)

\* The messages r are queued behind those of c.
Joined(c, d, r) ==
    /\ d \in ConnectionType /\ QueueOK(d) /\ d.sock = c.sock
    /\ d.deque = c.deque \o r
    /\ c.deque # <<>> \/ r = <<>> => d.wop = c.wop /\ d.sent = c.sent
    /\ c.deque = <<>> /\ r # <<>> => d.wop = "write" /\ d.sent = 0

\* Answers queued up behind a deque: whose messages they are, and the write goes on.
LEMMA JoinedFacts ==
    ASSUME NEW c \in ConnectionType, QueueOK(c), NEW r \in Seq(Message), NEW d, Joined(c, d, r)
    PROVE  /\ \A i \in DOMAIN d.deque : \/ \E j \in DOMAIN c.deque : d.deque[i] = c.deque[j]
                                        \/ \E j \in DOMAIN r : d.deque[i] = r[j]
           /\ \A s : LeftBy(c, s) => LeftBy(d, s)
  <1> DEFINE q == c.deque
             t == q \o r
  <1>1. q \in Seq(Message) /\ d.deque = t
    BY FieldTypes DEF Joined
  <1>2. \A i \in DOMAIN t : (\E j \in DOMAIN q : t[i] = q[j]) \/ (\E j \in DOMAIN r : t[i] = r[j])
    <2> HIDE DEF q
    <2>1. t \in Seq(Message) /\ DOMAIN q = 1..Len(q) /\ DOMAIN r = 1..Len(r)
      BY <1>1, JoinFacts
    <2>2. \A i \in 1..Len(t) : \/ i \in 1..Len(q) /\ t[i] = q[i]
                               \/ i - Len(q) \in 1..Len(r) /\ t[i] = r[i - Len(q)]
      BY <1>1, JoinCases
    <2> HIDE DEF t
    <2>3. DOMAIN t = 1..Len(t)
      BY <2>1
    <2> QED
      BY <2>1, <2>2, <2>3
  <1>3. q # <<>> => t # <<>> /\ Head(t) = Head(q)
    <2> HIDE DEF q
    <2>1. t \in Seq(Message) /\ Len(t) = Len(q) + Len(r) /\ Len(q) \in Nat /\ Len(r) \in Nat
          /\ \A i \in 1..Len(q) : t[i] = q[i]
      BY <1>1, JoinFacts
    <2>2. Len(q) = 0 <=> q = <<>>
      BY <1>1, EmptyFacts
    <2> HIDE DEF t
    <2>3. t # <<>> => Head(t) = t[1]
      BY <2>1
    <2>4. q # <<>> => Head(q) = q[1]
      BY <1>1
    <2>5. Len(t) = 0 <=> t = <<>>
      BY <2>1, EmptyFacts
    <2> QED
      BY <2>1, <2>2, <2>3, <2>4, <2>5
  <1>4. ASSUME NEW s, LeftBy(c, s)
        PROVE  LeftBy(d, s)
    <2>1. CASE c.deque # <<>>
      <3>1. d.sock = c.sock /\ d.wop = c.wop /\ d.sent = c.sent /\ Head(d.deque) = Head(c.deque)
        BY <1>1, <1>3, <2>1 DEF Joined
      <3> QED
        BY <1>4, <3>1 DEF LeftBy
    <2>2. CASE c.deque = <<>> /\ r = <<>>
      <3>1. d.sock = c.sock /\ d.wop = c.wop /\ d.sent = c.sent
        BY <2>2 DEF Joined
      <3>2. c.sock = "open" => c.wop # "write"
        BY <2>2 DEF QueueOK
      <3> QED
        BY <1>4, <3>1, <3>2 DEF LeftBy
    <2>3. CASE c.deque = <<>> /\ r # <<>>
      <3>1. d.sock = c.sock /\ d.wop = "write" /\ d.sent = 0
        BY <2>3 DEF Joined
      <3>2. c.sock = "open" => c.wop # "write"
        BY <2>3 DEF QueueOK
      <3>3. d.sock \notin {"none", "connecting"}
        BY <3>1 DEF Joined, QueueOK
      <3>4. \A m : SubSeq(Frame(m), 1, 0) = <<>>
        BY SubSeqEmpty
      <3> QED
        BY <1>4, <3>1, <3>2, <3>3, <3>4 DEF LeftBy
    <2> QED
      BY <2>1, <2>2, <2>3
  <1> QED
    BY <1>1, <1>2, <1>4

\* Answers queued up behind a deque extend its lane.
LEMMA JoinedLane ==
    ASSUME NEW c \in ConnectionType, NEW r \in Seq(Message), NEW d, Joined(c, d, r),
           NEW lo \in Nat, NEW mid \in Nat, NEW hi \in Nat, lo <= mid, mid <= hi,
           DequeLane(c, lo, mid), MessageLane(r, mid, hi)
    PROVE  DequeLane(d, lo, hi)
  <1>1. d \in ConnectionType /\ d.deque = c.deque \o r
    BY DEF Joined
  <1>2. c.deque # <<>> /\ Begun(c) => Begun(d)
    BY DEF Joined, Begun
  <1> QED
    BY <1>1, <1>2, DequeJoin

\* send queues its message, or the reactor refused it.
LEMMA SendJoins ==
    ASSUME NEW c \in ConnectionType, QueueOK(c), NEW m \in Message, NEW d, d = send(c, m)
    PROVE  d.rbuf = c.rbuf /\ (Joined(c, d, <<>>) \/ Joined(c, d, <<m>>))
  <1> DEFINE one == <<m>>
  <1>1. /\ d \in ConnectionType /\ QueueOK(d) /\ Same(c, d)
        /\ \/ /\ c.sock # "open" /\ c.deque = <<>>
              /\ d.deque = <<>> /\ d.wop = c.wop /\ d.sent = c.sent
           \/ /\ c.deque # <<>> /\ d.deque = c.deque \o one
              /\ d.wop = c.wop /\ d.sent = c.sent
           \/ /\ c.deque = <<>> /\ d.deque = c.deque \o one
              /\ c.sock \in {"open", "hung"} /\ c.wop = "none" /\ d.wop = "write" /\ d.sent = 0
    BY SendFacts
  <1>2. one # <<>>
    OBVIOUS
  <1>3. <<>> \o <<>> = <<>>
    BY EmptyFacts
  <1> HIDE DEF one
  <1>4. Joined(c, d, <<>>) \/ Joined(c, d, one)
    BY <1>1, <1>2, <1>3 DEF Joined, Same
  <1> QED
    BY <1>1, <1>4 DEF Same, one

\* What was asked stays asked.
LEMMA AskedMore ==
    ASSUME NEW asked \in Seq(Asks), NEW ask \in Asks, NEW more, more = Append(asked, ask)
    PROVE  /\ more \in Seq(Asks) /\ Len(more) = Len(asked) + 1 /\ Len(asked) \in Nat
           /\ \A m : IsRequest(asked, m) => IsRequest(more, m)
           /\ \A m, registered : IsResponse(asked, registered, m) => IsResponse(more, registered, m)
           /\ IsRequest(more, Request(Len(asked), ask))
  <1>1. /\ more \in Seq(Asks) /\ Len(more) = Len(asked) + 1 /\ Len(asked) \in Nat
        /\ \A i \in 1..Len(asked) : more[i] = asked[i]
        /\ more[Len(asked) + 1] = ask
    BY AppendProperties
  <1>2. ASSUME NEW id \in 0..Len(asked) - 1
        PROVE  id \in 0..Len(more) - 1 /\ more[id + 1] = asked[id + 1]
    BY <1>1
  <1>3. \A m : IsRequest(asked, m) => IsRequest(more, m)
    BY <1>2 DEF IsRequest
  <1>4. \A m, registered : IsResponse(asked, registered, m) => IsResponse(more, registered, m)
    <2> SUFFICES ASSUME NEW m, NEW registered, IsResponse(asked, registered, m)
                 PROVE  IsResponse(more, registered, m)
      OBVIOUS
    <2>1. m.id \in 0..Len(asked) - 1
      BY DEF IsResponse
    <2>2. m.id \in 0..Len(more) - 1 /\ more[m.id + 1] = asked[m.id + 1]
      BY <1>2, <2>1
    <2> QED
      BY <2>2 DEF IsResponse
  <1>5. IsRequest(more, Request(Len(asked), ask))
    BY <1>1 DEF IsRequest, Request
  <1> QED
    BY <1>1, <1>3, <1>4, <1>5

\* A request is a message with its id.
LEMMA RequestFacts ==
    ASSUME NEW id \in Nat, NEW ask \in Asks
    PROVE  Request(id, ask) \in Message /\ Request(id, ask).id = id
  BY DEF Request, Message, Req

\* A single message, or none, is a lane.
LEMMA SingleLane ==
    ASSUME NEW m \in Message, NEW r, r = <<>> \/ r = <<m>>
    PROVE  r \in Seq(Message) /\ MessageLane(r, m.id, m.id + 1) /\ \A i \in DOMAIN r : r[i] = m
  <1>1. m.id \in Nat
    BY FrameFacts
  <1>2. r \in Seq(Message) /\ DOMAIN r \subseteq {1} /\ \A i \in DOMAIN r : r[i] = m
    <2>1. CASE r = <<>>
      BY <2>1
    <2>2. CASE r = <<m>>
      BY <2>2
    <2> QED
      BY <2>1, <2>2
  <1>3. \A i \in DOMAIN r : i = 1
    BY <1>2
  <1>4. m.id <= m.id /\ m.id < m.id + 1
    BY <1>1
  <1> QED
    BY <1>2, <1>3, <1>4 DEF MessageLane

\* CallMethod keeps the invariant.
LEMMA CallMethodStep ==
    ASSUME IInv, NEW ch \in Chan, NEW ask \in Asks, CallMethod(ch, ask)
    PROVE  IInv'
  <1> DEFINE e == <<ch, Client>>
             c == conn[e]
             L == Len(called[ch])
             m == Request(L, ask)
  <1>1. /\ e \in End /\ <<ch, Server>> \in End /\ e # <<ch, Server>> /\ e[1] = ch
        /\ PeerEnd(<<ch, Server>>) = e
    BY ChannelEnds DEF Client, Server
  <1>2. /\ Typed /\ c \in ConnectionType /\ QueueOK(c) /\ conn \in [End -> ConnectionType]
        /\ called \in [Chan -> Seq(Asks)]
    BY <1>1, EndFacts DEF Typed
  <1>3. PICK d : d = send(c, m)
    OBVIOUS
  <1>4. /\ conn' = [conn EXCEPT ![e] = d] /\ called' = [called EXCEPT ![ch] = Append(@, ask)]
        /\ id_method' = [id_method EXCEPT ![ch] = @ \cup {L}]
        /\ UNCHANGED <<wire, done, services, server, trouble, astray>>
    BY <1>3 DEF CallMethod, serving
  <1>5. L \in Nat /\ m \in Message /\ m.id = L
    BY <1>2, RequestFacts
  <1>6. /\ called'[ch] \in Seq(Asks) /\ Len(called'[ch]) = L + 1
        /\ \A x : IsRequest(called[ch], x) => IsRequest(called'[ch], x)
        /\ \A x : IsResponse(called[ch], services, x) => IsResponse(called'[ch], services, x)
        /\ IsRequest(called'[ch], m)
        /\ \A x \in Chan : x # ch => called'[x] = called[x]
    <2> DEFINE a == called[ch]
               b == called'[ch]
    <2>1. a \in Seq(Asks) /\ b = Append(a, ask) /\ \A x \in Chan : x # ch => called'[x] = called[x]
      BY <1>2, <1>4
    <2> HIDE DEF a, b
    <2>2. /\ b \in Seq(Asks) /\ Len(b) = Len(a) + 1
          /\ \A x : IsRequest(a, x) => IsRequest(b, x)
          /\ \A x : IsResponse(a, services, x) => IsResponse(b, services, x)
          /\ IsRequest(b, Request(Len(a), ask))
      BY <2>1, AskedMore
    <2> QED
      BY <2>1, <2>2 DEF a, b
  <1> HIDE DEF m, c
  <1>7. d.rbuf = c.rbuf /\ (Joined(c, d, <<>>) \/ Joined(c, d, <<m>>))
    BY <1>2, <1>3, <1>5, SendJoins
  <1>8. PICK r : Joined(c, d, r) /\ (r = <<>> \/ r = <<m>>)
    BY <1>7
  <1>9. r \in Seq(Message) /\ MessageLane(r, L, L + 1) /\ \A i \in DOMAIN r : r[i] = m
    BY <1>5, <1>8, SingleLane
  <1>10. /\ conn'[e] = d /\ \A x \in End : x # e => conn'[x] = conn[x]
         /\ d \in ConnectionType /\ QueueOK(d) /\ d.sock = c.sock
         /\ conn' \in [End -> ConnectionType]
    BY <1>1, <1>2, <1>4, <1>8 DEF Joined
  <1>11. \A x \in End : Stream(x)' = Stream(x)
    BY <1>4, <1>7, <1>10 DEF Stream, c
  <1>12. /\ \A i \in DOMAIN d.deque : \/ \E j \in DOMAIN c.deque : d.deque[i] = c.deque[j]
                                      \/ d.deque[i] = m
         /\ \A s : LeftBy(c, s) => LeftBy(d, s)
    BY <1>2, <1>8, <1>9, JoinedFacts
  <1>13. Typed'
    <2>1. called' \in [Chan -> Seq(Asks)]
      BY <1>2, <1>4, <1>6
    <2>2. id_method' \in [Chan -> SUBSET Nat]
      BY <1>2, <1>4, <1>5 DEF Typed
    <2> QED
      BY <1>2, <1>4, <1>10, <2>1, <2>2 DEF Typed
  <1>14. Queues'
    BY <1>10 DEF Queues, IInv
  <1>15. NotYet'
    <2> SUFFICES ASSUME NEW x \in Chan
                 PROVE  /\ server' = "new" => conn'[<<x, Server>>].sock = "none"
                        /\ conn'[<<x, Server>>].sock = "none" =>
                              /\ conn'[<<x, Server>>].rbuf = <<>>
                              /\ Stream(<<x, Client>>)' = <<>> /\ done'[x] = <<>>
      BY DEF NotYet
    <2>1. /\ server = "new" => conn[<<x, Server>>].sock = "none"
          /\ conn[<<x, Server>>].sock = "none" =>
                /\ conn[<<x, Server>>].rbuf = <<>>
                /\ Stream(<<x, Client>>) = <<>> /\ done[x] = <<>>
      BY DEF IInv, NotYet
    <2>2. <<x, Server>> \in End /\ <<x, Client>> \in End /\ <<x, Server>> # e
      BY ChannelEnds DEF Client, Server
    <2>3. conn'[<<x, Server>>] = conn[<<x, Server>>]
      BY <1>10, <2>2
    <2>4. Stream(<<x, Client>>)' = Stream(<<x, Client>>)
      BY <1>11, <2>2
    <2> QED
      BY <1>4, <2>1, <2>3, <2>4
  <1>16. Framing'
    <2> SUFFICES ASSUME NEW x \in End, "send" \notin trouble'[x[1]]
                 PROVE  WellCut(Stream(x)') /\ LeftBy(conn'[PeerEnd(x)], Stream(x)')
      BY DEF Framing
    <2>1. WellCut(Stream(x)) /\ LeftBy(conn[PeerEnd(x)], Stream(x))
      BY <1>4 DEF Framing, IInv
    <2>2. PeerEnd(x) \in End
      BY DEF PeerEnd, Peer, End, Side, Client, Server
    <2>3. CASE PeerEnd(x) = e
      BY <1>10, <1>11, <1>12, <2>1, <2>3 DEF c
    <2>4. CASE PeerEnd(x) # e
      BY <1>10, <1>11, <2>1, <2>2, <2>4
    <2> QED
      BY <2>3, <2>4
  <1>17. Blamed'
    BY <1>4, <1>10 DEF Blamed, IInv, c
  <1>18. ASSUME NEW x \in Chan
         PROVE  /\ <<x, Client>> \in End /\ <<x, Server>> \in End /\ <<x, Server>> # e
                /\ x # ch => <<x, Client>> # e
    BY ChannelEnds DEF Client, Server
  <1>19. Contents'
    <2> SUFFICES ASSUME NEW x \in Chan
                 PROVE  /\ \A i \in DOMAIN conn'[<<x, Client>>].deque :
                              IsRequest(called'[x], conn'[<<x, Client>>].deque[i])
                        /\ \A i \in DOMAIN Stream(<<x, Server>>)' :
                              IsRequest(called'[x], Stream(<<x, Server>>)'[i][1])
                        /\ \A i \in DOMAIN conn'[<<x, Server>>].deque :
                              IsResponse(called'[x], services', conn'[<<x, Server>>].deque[i])
                        /\ \A i \in DOMAIN Stream(<<x, Client>>)' :
                              IsResponse(called'[x], services', Stream(<<x, Client>>)'[i][1])
                        /\ \A i \in DOMAIN done'[x] : IsResponse(called'[x], services', done'[x][i])
      BY DEF Contents
    <2>1. /\ \A i \in DOMAIN conn[<<x, Client>>].deque :
                IsRequest(called[x], conn[<<x, Client>>].deque[i])
          /\ \A i \in DOMAIN Stream(<<x, Server>>) : IsRequest(called[x], Stream(<<x, Server>>)[i][1])
          /\ \A i \in DOMAIN conn[<<x, Server>>].deque :
                IsResponse(called[x], services, conn[<<x, Server>>].deque[i])
          /\ \A i \in DOMAIN Stream(<<x, Client>>) :
                IsResponse(called[x], services, Stream(<<x, Client>>)[i][1])
          /\ \A i \in DOMAIN done[x] : IsResponse(called[x], services, done[x][i])
      BY DEF IInv, Contents
    <2>2. /\ conn'[<<x, Server>>] = conn[<<x, Server>>]
          /\ Stream(<<x, Client>>)' = Stream(<<x, Client>>)
          /\ Stream(<<x, Server>>)' = Stream(<<x, Server>>)
          /\ done' = done /\ services' = services
      BY <1>4, <1>10, <1>11, <1>18
    <2>3. CASE x # ch
      <3>1. conn'[<<x, Client>>] = conn[<<x, Client>>] /\ called'[x] = called[x]
        BY <1>6, <1>10, <1>18, <2>3
      <3> QED
        BY <2>1, <2>2, <3>1
    <2>4. CASE x = ch
      <3>1. \A i \in DOMAIN conn'[<<x, Client>>].deque :
               IsRequest(called'[x], conn'[<<x, Client>>].deque[i])
        BY <1>6, <1>10, <1>12, <2>1, <2>4 DEF c
      <3> QED
        BY <1>6, <2>1, <2>2, <2>4, <3>1
    <2> QED
      BY <2>3, <2>4
  <1>20. Lanes'
    <2> SUFFICES ASSUME NEW x \in Chan
                 PROVE  \E w1, w2, w3, w4 \in 0..Len(called'[x]) : LanesAt(x, w1, w2, w3, w4)'
      BY DEF Lanes
    <2>1. PICK w1, w2, w3, w4 \in 0..Len(called[x]) : LanesAt(x, w1, w2, w3, w4)
      BY DEF IInv, Lanes
    <2>2. /\ conn'[<<x, Server>>] = conn[<<x, Server>>]
          /\ Stream(<<x, Client>>)' = Stream(<<x, Client>>)
          /\ Stream(<<x, Server>>)' = Stream(<<x, Server>>)
          /\ done' = done
      BY <1>4, <1>10, <1>11, <1>18
    <2>3. CASE x # ch
      <3>1. conn'[<<x, Client>>] = conn[<<x, Client>>] /\ called'[x] = called[x]
        BY <1>6, <1>10, <1>18, <2>3
      <3>2. LanesAt(x, w1, w2, w3, w4)'
        BY <2>1, <2>2, <3>1 DEF LanesAt
      <3> QED
        BY <3>1, <3>2
    <2>4. CASE x = ch
      <3>1. /\ w1 <= w2 /\ w2 <= w3 /\ w3 <= w4 /\ w4 <= L
            /\ MessageLane(done[x], 0, w1)
            /\ StreamLane(Stream(<<x, Client>>), w1, w2)
            /\ DequeLane(conn[<<x, Server>>], w2, w3)
            /\ StreamLane(Stream(<<x, Server>>), w3, w4)
            /\ DequeLane(c, w4, L)
        BY <2>1, <2>4 DEF LanesAt, c
      <3>2. w1 \in 0..L /\ w2 \in 0..L /\ w3 \in 0..L /\ w4 \in 0..L /\ Len(called'[x]) = L + 1
        BY <1>6, <2>1, <2>4
      <3> HIDE DEF L
      <3>3. w4 \in Nat /\ L + 1 \in Nat /\ L <= L + 1 /\ w4 <= L + 1
        BY <1>5, <3>2
      <3>4. DequeLane(d, w4, L + 1)
        BY <1>2, <1>5, <1>8, <1>9, <3>1, <3>3, JoinedLane
      <3>5. LanesAt(x, w1, w2, w3, w4)'
        BY <1>10, <2>2, <2>4, <3>1, <3>2, <3>3, <3>4 DEF LanesAt
      <3>6. w1 \in 0..L + 1 /\ w2 \in 0..L + 1 /\ w3 \in 0..L + 1 /\ w4 \in 0..L + 1
        BY <1>5, <3>2
      <3> QED
        BY <3>2, <3>5, <3>6
    <2> QED
      BY <2>3, <2>4
  <1>21. Waiting'
    <2> SUFFICES ASSUME NEW x \in Chan
                 PROVE  id_method'[x] = (0..Len(called'[x]) - 1) \ Ids(done'[x])
      BY DEF Waiting
    <2>1. id_method[x] = (0..Len(called[x]) - 1) \ Ids(done[x])
      BY DEF Waiting, IInv
    <2>2. done' = done /\ id_method \in [Chan -> SUBSET Nat]
      BY <1>2, <1>4 DEF Typed
    <2>3. CASE x # ch
      BY <1>4, <1>6, <2>1, <2>2, <2>3
    <2>4. CASE x = ch
      <3>1. \A i \in DOMAIN done[ch] : done[ch][i].id \in 0..L - 1
        BY DEF IInv, Contents, IsResponse
      <3>2. L \notin Ids(done[ch])
        BY <1>5, <3>1 DEF Ids
      <3>3. id_method'[ch] = id_method[ch] \cup {L}
        BY <1>4, <2>2
      <3>4. 0..(L + 1) - 1 = (0..L - 1) \cup {L}
        BY <1>5
      <3> QED
        BY <1>6, <2>1, <2>2, <2>4, <3>2, <3>3, <3>4
    <2> QED
      BY <2>3, <2>4
  <1> QED
    BY <1>13, <1>14, <1>15, <1>16, <1>17, <1>19, <1>20, <1>21 DEF IInv

----------------------------------------------------------------------------
(* Reading. *)

\* Storing what is not cut yet is no matter to the deque.
LEMMA RbufJoined ==
    ASSUME NEW c \in ConnectionType, NEW f \in ConnectionType, NEW r, Joined(c, f, r),
           NEW x \in ByteSeq, NEW d, d = WithRbuf(f, x)
    PROVE  Joined(c, d, r) /\ d.rbuf = x
  <1>1. /\ d \in ConnectionType /\ d.sock = f.sock /\ d.rop = f.rop /\ d.wop = f.wop
        /\ d.sent = f.sent /\ d.deque = f.deque /\ d.rbuf = x
    BY RbufField
  <1>2. QueueOK(d)
    BY <1>1 DEF Joined, QueueOK
  <1> QED
    BY <1>1, <1>2 DEF Joined

\* The answers to a batch are queued in its order.
LEMMA RepliedJoins ==
    ASSUME NEW c \in ConnectionType, QueueOK(c), c.sock = "open", NEW msgs \in Seq(Message),
           NEW d, d = Replied(c, msgs)
    PROVE  \E r \in Seq(Message) :
              /\ Len(r) = Len(msgs) /\ \A i \in 1..Len(msgs) : r[i] = onConnectionMessage(msgs[i])
              /\ Joined(c, d, r)
  <1> DEFINE n == Len(msgs)
             r == [i \in 1..n |-> onConnectionMessage(msgs[i])]
  <1>1. n \in Nat
    OBVIOUS
  <1>2. \A i \in 1..n : onConnectionMessage(msgs[i]) \in Message
    BY QueueFacts, AnswerFacts
  <1>3. r \in Seq(Message) /\ Len(r) = n /\ \A i \in 1..n : r[i] = onConnectionMessage(msgs[i])
    <2> HIDE DEF n
    <2> QED
      BY <1>1, <1>2
  <1> HIDE DEF r
  <1>4. /\ d \in ConnectionType /\ QueueOK(d) /\ Same(c, d) /\ d.deque = c.deque \o r
        /\ c.deque # <<>> => d.wop = c.wop /\ d.sent = c.sent
        /\ c.deque = <<>> /\ msgs # <<>> => d.wop = "write" /\ d.sent = 0
        /\ msgs = <<>> => d = c
    BY <1>3, RepliedFacts
  <1>5. r = <<>> <=> msgs = <<>>
    BY <1>3, EmptyFacts
  <1>6. Joined(c, d, r)
    BY <1>4, <1>5 DEF Joined, Same
  <1> QED
    BY <1>3, <1>6

\* What is cut out of a stream, and what is left of it, was in it.
LEMMA CutFromStream ==
    ASSUME NEW a \in Seq(Byte), NEW b \in Seq(Byte)
    PROVE  /\ \A k \in DOMAIN Cut(a).msgs :
                 \E i \in DOMAIN (a \o b) : Cut(a).msgs[k] = (a \o b)[i][1]
           /\ \A k \in DOMAIN (Rest(a) \o b) :
                 \E i \in DOMAIN (a \o b) : (Rest(a) \o b)[k] = (a \o b)[i]
  <1> DEFINE s == a \o b
             t == Rest(a) \o b
             q == Cut(a).msgs
             z == Cut(a).end
  <1>1. /\ s \in Seq(Byte) /\ t \in Seq(Byte)
        /\ z \in 0..Len(a) /\ Len(a) <= Len(s) /\ Len(t) = Len(s) - z
        /\ \A i \in 1..Len(a) : s[i] = a[i]
        /\ \A i \in 1..Len(t) : t[i] = s[z + i]
    BY RestJoin
  <1>2. q \in Seq(Message)
    BY CutPositions
  <1>3. PICK pos \in [1..Len(q) -> 1..z] : \A k \in 1..Len(q) : a[pos[k]] = <<q[k], 1>>
    BY CutPositions
  <1> HIDE DEF s, t, q, z
  <1>4. /\ DOMAIN s = 1..Len(s) /\ DOMAIN t = 1..Len(t) /\ DOMAIN q = 1..Len(q)
        /\ Len(s) \in Nat /\ Len(t) \in Nat /\ Len(a) \in Nat
    BY <1>1, <1>2
  <1>5. ASSUME NEW k \in 1..Len(q)
        PROVE  pos[k] \in 1..Len(s) /\ q[k] = s[pos[k]][1]
    <2>1. pos[k] \in 1..z
      BY <1>3
    <2>2. pos[k] \in 1..Len(a) /\ pos[k] \in 1..Len(s)
      BY <1>1, <1>4, <2>1
    <2>3. s[pos[k]] = <<q[k], 1>>
      BY <1>1, <1>3, <2>2
    <2> QED
      BY <2>2, <2>3
  <1>6. ASSUME NEW k \in 1..Len(t)
        PROVE  z + k \in 1..Len(s) /\ t[k] = s[z + k]
    BY <1>1, <1>4
  <1>7. /\ \A k \in DOMAIN q : \E i \in DOMAIN s : q[k] = s[i][1]
        /\ \A k \in DOMAIN t : \E i \in DOMAIN s : t[k] = s[i]
    BY <1>4, <1>5, <1>6
  <1> QED
    BY <1>7 DEF s, t, q

\* The ids of a batch behind another.
LEMMA IdsJoin ==
    ASSUME NEW q \in Seq(Message), NEW r \in Seq(Message)
    PROVE  Ids(q \o r) = Ids(q) \cup Ids(r)
  <1> DEFINE t == q \o r
  <1>1. /\ t \in Seq(Message) /\ Len(t) = Len(q) + Len(r) /\ Len(q) \in Nat /\ Len(r) \in Nat
        /\ \A i \in 1..Len(q) : t[i] = q[i]
        /\ \A i \in 1..Len(r) : t[Len(q) + i] = r[i]
    BY JoinFacts
  <1>2. \A i \in 1..Len(t) : \/ i \in 1..Len(q) /\ t[i] = q[i]
                             \/ i - Len(q) \in 1..Len(r) /\ t[i] = r[i - Len(q)]
    BY JoinCases
  <1> HIDE DEF t
  <1>3. DOMAIN t = 1..Len(t) /\ DOMAIN q = 1..Len(q) /\ DOMAIN r = 1..Len(r)
    BY <1>1
  <1>4. ASSUME NEW x \in Ids(t)
        PROVE  x \in Ids(q) \cup Ids(r)
    BY <1>2, <1>3 DEF Ids
  <1>5. ASSUME NEW x \in Ids(q)
        PROVE  x \in Ids(t)
    <2>1. PICK i \in 1..Len(q) : x = q[i].id
      BY <1>3 DEF Ids
    <2>2. i \in 1..Len(t) /\ t[i] = q[i]
      BY <1>1
    <2> QED
      BY <1>3, <2>1, <2>2 DEF Ids
  <1>6. ASSUME NEW x \in Ids(r)
        PROVE  x \in Ids(t)
    <2>1. PICK i \in 1..Len(r) : x = r[i].id
      BY <1>3 DEF Ids
    <2>2. Len(q) + i \in 1..Len(t) /\ t[Len(q) + i] = r[i]
      BY <1>1
    <2> QED
      BY <1>3, <2>1, <2>2 DEF Ids
  <1> QED
    BY <1>4, <1>5, <1>6 DEF t

\* n bytes of w go behind v: nothing is lost and the order is kept.
LEMMA TakeBytes ==
    ASSUME NEW v \in Seq(Byte), NEW w \in Seq(Byte), NEW n \in 1..Len(w)
    PROVE  LET a == v \o SubSeq(w, 1, n)
               b == SubSeq(w, n + 1, Len(w))
           IN  a \in Seq(Byte) /\ b \in Seq(Byte) /\ a \o b = v \o w /\ v \o w # <<>>
  <1> DEFINE u == SubSeq(w, 1, n)
             b == SubSeq(w, n + 1, Len(w))
  <1>1. Len(w) \in Nat /\ n \in Nat /\ n # 0 /\ n <= Len(w)
    OBVIOUS
  <1>2. u \in Seq(Byte) /\ Len(u) = n /\ \A i \in 1..n : u[i] = w[i]
    BY <1>1, SubSeqProperties
  <1>3. b \in Seq(Byte) /\ Len(b) = Len(w) - n /\ \A i \in 1..Len(w) - n : b[i] = w[n + i]
    BY <1>1, SubSeqProperties
  <1> HIDE DEF u, b
  <1>4. u \in Seq(Byte) /\ b \in Seq(Byte)
    BY <1>2, <1>3
  <1>5. u \o b = w
    <2> DEFINE t == u \o b
    <2>1. /\ t \in Seq(Byte) /\ Len(t) = Len(u) + Len(b)
          /\ \A i \in 1..Len(u) : t[i] = u[i]
          /\ \A i \in 1..Len(b) : t[Len(u) + i] = b[i]
      BY <1>4, JoinFacts
    <2> HIDE DEF t
    <2>2. Len(t) = Len(w)
      BY <1>1, <1>2, <1>3, <2>1
    <2>3. ASSUME NEW i \in 1..Len(w)
          PROVE  t[i] = w[i]
      <3>1. CASE i <= n
        BY <1>1, <1>2, <2>1, <3>1
      <3>2. CASE i > n
        <4>1. PICK k \in 1..Len(w) - n : i = n + k
          <5>1. i - n \in 1..Len(w) - n /\ i = n + (i - n)
            BY <1>1, <3>2
          <5> QED
            BY <5>1
        <4> QED
          BY <1>2, <1>3, <2>1, <4>1
      <3> QED
        BY <1>1, <3>1, <3>2
    <2> QED
      BY <2>1, <2>2, <2>3, SeqEqual DEF t
  <1>6. v \o u \in Seq(Byte) /\ (v \o u) \o b = v \o w
    <2>1. (v \o u) \o b = v \o (u \o b)
      BY <1>4, JoinThree
    <2> QED
      BY <1>4, <1>5, <2>1, JoinFacts
  <1>7. v \o w # <<>>
    <2> DEFINE t == v \o w
    <2>1. t \in Seq(Byte) /\ Len(t) = Len(v) + Len(w) /\ Len(v) \in Nat
      BY JoinFacts
    <2> HIDE DEF t
    <2>2. Len(t) # 0
      BY <1>1, <2>1
    <2> QED
      BY <2>1, <2>2, EmptyFacts DEF t
  <1> QED
    BY <1>3, <1>6, <1>7 DEF u, b

\* What goes back for a batch: the server answers each message, the client none.
Answers(e, msgs, r) ==
    IF e[2] = Server
    THEN Len(r) = Len(msgs) /\ \A i \in 1..Len(msgs) : r[i] = onConnectionMessage(msgs[i])
    ELSE r = <<>>

\* The connection after a batch.
LEMMA BatchFacts ==
    ASSUME NEW e, NEW c \in ConnectionType, QueueOK(c), c.sock = "open",
           NEW msgs \in MessageSeq, NEW x \in ByteSeq,
           NEW f, f = IF e[2] = Server THEN Replied(c, msgs) ELSE c,
           NEW d, d = [f EXCEPT !.rbuf = x]
    PROVE  \E r \in Seq(Message) : Joined(c, d, r) /\ d.rbuf = x /\ Answers(e, msgs, r)
  <1>1. msgs \in Seq(Message) /\ d = WithRbuf(f, x)
    BY DEF MessageSeq, WithRbuf
  <1>2. CASE e[2] = Server
    <2>1. f = Replied(c, msgs)
      BY <1>2
    <2>2. PICK r \in Seq(Message) :
             /\ Len(r) = Len(msgs) /\ \A i \in 1..Len(msgs) : r[i] = onConnectionMessage(msgs[i])
             /\ Joined(c, f, r)
      BY <1>1, <2>1, RepliedJoins
    <2>3. f \in ConnectionType
      BY <2>2 DEF Joined
    <2>4. Joined(c, d, r) /\ d.rbuf = x
      BY <1>1, <2>2, <2>3, RbufJoined
    <2> QED
      BY <1>2, <2>2, <2>4 DEF Answers
  <1>3. CASE e[2] # Server
    <2>1. f = c
      BY <1>3
    <2>2. c.deque \o <<>> = c.deque
      BY FieldTypes, EmptyFacts
    <2>3. Joined(c, f, <<>>)
      BY <2>1, <2>2 DEF Joined
    <2>4. Joined(c, d, <<>>) /\ d.rbuf = x
      BY <1>1, <2>1, <2>3, RbufJoined
    <2>5. <<>> \in Seq(Message)
      OBVIOUS
    <2> QED
      BY <1>3, <2>4, <2>5 DEF Answers
  <1> QED
    BY <1>2, <1>3

\* What the bytes a, read at an end in front of b, make of its connection, with
\* the answers r, and of the calls.
TakenIn(e, a, b, r, d) ==
    /\ Stream(e) = a \o b
    /\ wire' = [wire EXCEPT ![e] = b]
    /\ conn' = [conn EXCEPT ![e] = d]
    /\ d.rbuf = Rest(a) /\ Joined(conn[e], d, r) /\ Answers(e, Cut(a).msgs, r)
    /\ IF e[2] = Client THEN onMessageOp(e[1], Cut(a).msgs) ELSE UNCHANGED <<id_method, done>>
    /\ astray' = IF /\ Cut(a).sound
                    /\ e[2] = Client => Ids(Cut(a).msgs) \subseteq id_method[e[1]]
                 THEN astray ELSE astray \cup {e}

\* A readable end takes in a nonempty part of its stream, whole messages of it.
LEMMA ReadableFacts ==
    ASSUME IInv, NEW e \in End, Readable(e)
    PROVE  /\ conn[e].sock = "open" /\ Stream(e) # <<>>
           /\ UNCHANGED <<called, services, server, trouble>>
           /\ \E a, b \in Seq(Byte), r \in Seq(Message) : \E d : TakenIn(e, a, b, r, d)
  <1> DEFINE c == conn[e]
             v == c.rbuf
             w == wire[e]
  <1>1. c \in ConnectionType /\ QueueOK(c) /\ v \in Seq(Byte) /\ w \in Seq(Byte)
    BY EndFacts, FieldTypes DEF Typed
  <1>2. c.sock = "open" /\ UNCHANGED <<called, services, server, trouble>>
    BY DEF Readable, serving
  <1>3. PICK n \in 1..Len(w) : \E buf \in {v \o SubSeq(w, 1, n)} : \E got \in {Cut(buf)} :
           /\ wire' = [wire EXCEPT ![e] = SubSeq(@, n + 1, Len(@))]
           /\ conn' = [conn EXCEPT ![e] =
                 [IF e[2] = Server THEN Replied(@, got.msgs) ELSE @
                     EXCEPT !.rbuf = SubSeq(buf, got.end + 1, Len(buf))]]
           /\ IF e[2] = Client THEN onMessageOp(e[1], got.msgs) ELSE UNCHANGED <<id_method, done>>
           /\ astray' = IF /\ got.sound
                           /\ e[2] = Client => Ids(got.msgs) \subseteq id_method[e[1]]
                        THEN astray ELSE astray \cup {e}
    BY DEF Readable
  <1> DEFINE a == v \o SubSeq(w, 1, n)
             b == SubSeq(w, n + 1, Len(w))
  <1>4. /\ wire' = [wire EXCEPT ![e] = b]
        /\ conn' = [conn EXCEPT ![e] =
              [IF e[2] = Server THEN Replied(c, Cut(a).msgs) ELSE c EXCEPT !.rbuf = Rest(a)]]
        /\ IF e[2] = Client THEN onMessageOp(e[1], Cut(a).msgs) ELSE UNCHANGED <<id_method, done>>
        /\ astray' = IF /\ Cut(a).sound
                        /\ e[2] = Client => Ids(Cut(a).msgs) \subseteq id_method[e[1]]
                     THEN astray ELSE astray \cup {e}
    BY <1>3 DEF Rest
  <1>5. a \in Seq(Byte) /\ b \in Seq(Byte) /\ a \o b = v \o w /\ v \o w # <<>>
    BY <1>1, <1>3, TakeBytes
  <1>6. Stream(e) = a \o b /\ Stream(e) # <<>>
    BY <1>5 DEF Stream
  <1>7. PICK f : f = IF e[2] = Server THEN Replied(c, Cut(a).msgs) ELSE c
    OBVIOUS
  <1>8. PICK d : d = [f EXCEPT !.rbuf = Rest(a)]
    OBVIOUS
  <1>9. conn' = [conn EXCEPT ![e] = d]
    BY <1>4, <1>7, <1>8
  <1> HIDE DEF a, b
  <1>10. Cut(a).msgs \in MessageSeq /\ Rest(a) \in ByteSeq
    BY <1>5, CutPositions, RestFacts DEF MessageSeq, ByteSeq
  <1> HIDE DEF c
  <1>11. PICK r \in Seq(Message) : Joined(c, d, r) /\ d.rbuf = Rest(a) /\ Answers(e, Cut(a).msgs, r)
    BY <1>1, <1>2, <1>7, <1>8, <1>10, BatchFacts
  <1>12. Joined(conn[e], d, r)
    BY <1>11 DEF c
  <1>13. c.sock = conn[e].sock
    BY DEF c
  <1>14. TakenIn(e, a, b, r, d)
    BY <1>4, <1>6, <1>9, <1>11, <1>12 DEF TakenIn
  <1> QED
    BY <1>2, <1>5, <1>6, <1>13, <1>14

\* Answers carry the ids of what they answer, in the same order.
LEMMA AnswerLane ==
    ASSUME NEW msgs \in Seq(Message), NEW r \in Seq(Message), Len(r) = Len(msgs),
           \A i \in 1..Len(msgs) : r[i] = onConnectionMessage(msgs[i]),
           NEW lo, NEW hi, MessageLane(msgs, lo, hi)
    PROVE  MessageLane(r, lo, hi)
  <1>1. DOMAIN r = DOMAIN msgs /\ DOMAIN msgs = 1..Len(msgs)
    OBVIOUS
  <1>2. \A i \in DOMAIN msgs : r[i].id = msgs[i].id
    BY <1>1, QueueFacts, AnswerFacts
  <1> QED
    BY <1>1, <1>2 DEF MessageLane

\* Nobody answers before: the ids of a batch are not those of done.
LEMMA NewIds ==
    ASSUME NEW q \in Seq(Message), NEW msgs \in Seq(Message), NEW n \in Nat,
           NEW lo \in Nat, NEW mid \in Nat, mid <= n,
           MessageLane(q, 0, lo), MessageLane(msgs, lo, mid)
    PROVE  Ids(msgs) \subseteq (0..n - 1) \ Ids(q)
  <1> SUFFICES ASSUME NEW k \in DOMAIN msgs
               PROVE  msgs[k].id \in 0..n - 1 /\ \A i \in DOMAIN q : q[i].id # msgs[k].id
    BY DEF Ids
  <1>1. msgs[k].id \in Nat
    BY QueueFacts
  <1>2. lo <= msgs[k].id /\ msgs[k].id < mid
    BY DEF MessageLane
  <1>3. \A i \in DOMAIN q : q[i].id \in Nat /\ q[i].id < lo
    BY QueueFacts DEF MessageLane
  <1> QED
    BY <1>1, <1>2, <1>3

\* The lane of a deque to which nothing is added.
LEMMA StillLane ==
    ASSUME NEW c \in ConnectionType, NEW d, Joined(c, d, <<>>),
           NEW lo \in Nat, NEW hi \in Nat, lo <= hi, DequeLane(c, lo, hi)
    PROVE  DequeLane(d, lo, hi)
  <1>1. MessageLane(<<>>, hi, hi) /\ <<>> \in Seq(Message) /\ hi <= hi
    BY DEF MessageLane
  <1> QED
    BY <1>1, JoinedLane

\* Readable keeps the invariant.
LEMMA ReadableStep ==
    ASSUME IInv, NEW e \in End, Readable(e)
    PROVE  IInv'
  <1> DEFINE c == conn[e]
             p == PeerEnd(e)
             ch == e[1]
  <1>1. /\ Typed /\ c \in ConnectionType /\ QueueOK(c) /\ conn \in [End -> ConnectionType]
        /\ ch \in Chan /\ e[2] \in Side /\ e = <<ch, e[2]>>
        /\ server = "new" /\ e[2] = Server => c.sock = "none"
    BY EndFacts
  <1>2. /\ c.sock = "open" /\ Stream(e) # <<>>
        /\ UNCHANGED <<called, services, server, trouble>>
    BY ReadableFacts
  <1>30. PICK a, b \in Seq(Byte), r \in Seq(Message) : \E d : TakenIn(e, a, b, r, d)
    BY ReadableFacts
  <1>31. PICK d : TakenIn(e, a, b, r, d)
    BY <1>30
  <1>3. /\ Stream(e) = a \o b
        /\ wire' = [wire EXCEPT ![e] = b]
        /\ conn' = [conn EXCEPT ![e] = d]
        /\ d.rbuf = Rest(a) /\ Joined(c, d, r) /\ Answers(e, Cut(a).msgs, r)
        /\ IF e[2] = Client THEN onMessageOp(ch, Cut(a).msgs) ELSE UNCHANGED <<id_method, done>>
        /\ astray' = IF /\ Cut(a).sound
                        /\ e[2] = Client => Ids(Cut(a).msgs) \subseteq id_method[ch]
                     THEN astray ELSE astray \cup {e}
    BY <1>31 DEF TakenIn
  <1> DEFINE msgs == Cut(a).msgs
  <1>4. msgs \in Seq(Message) /\ Rest(a) \in Seq(Byte)
    BY CutPositions, RestFacts
  <1>5. /\ p \in End /\ p # e /\ p[1] = ch /\ PeerEnd(p) = e
        /\ \A x \in End : x = e \/ x = p \/ x[1] # ch
    BY <1>1 DEF PeerEnd, Peer, End, Side, Client, Server
  <1> HIDE DEF msgs, p
  <1>6. /\ conn'[e] = d /\ \A x \in End : x # e => conn'[x] = conn[x]
        /\ conn' \in [End -> ConnectionType]
        /\ d \in ConnectionType /\ QueueOK(d) /\ d.sock = "open"
    BY <1>1, <1>2, <1>3 DEF Joined
  <1>7. /\ wire \in [End -> Seq(Byte)] /\ wire' \in [End -> Seq(Byte)] /\ wire'[e] = b
        /\ \A x \in End : x # e => wire'[x] = wire[x]
    BY <1>1, <1>3 DEF Typed
  <1>8. Stream(e)' = Rest(a) \o b /\ \A x \in End : x # e => Stream(x)' = Stream(x)
    BY <1>3, <1>6, <1>7 DEF Stream
  <1>9. /\ \A k \in DOMAIN msgs : \E i \in DOMAIN Stream(e) : msgs[k] = Stream(e)[i][1]
        /\ \A k \in DOMAIN Stream(e)' : \E i \in DOMAIN Stream(e) : Stream(e)'[k] = Stream(e)[i]
    BY <1>3, <1>8, CutFromStream DEF msgs
  <1>10. /\ \A i \in DOMAIN d.deque : \/ \E j \in DOMAIN c.deque : d.deque[i] = c.deque[j]
                                      \/ \E j \in DOMAIN r : d.deque[i] = r[j]
         /\ \A s : LeftBy(c, s) => LeftBy(d, s)
    BY <1>1, <1>3, JoinedFacts
  <1>11. /\ e[2] = Client <=> e = <<ch, Client>>
         /\ e[2] = Server <=> e = <<ch, Server>>
         /\ e = <<ch, Client>> \/ e = <<ch, Server>>
         /\ <<ch, Client>> \in End /\ <<ch, Server>> \in End /\ <<ch, Client>> # <<ch, Server>>
    BY <1>1, ChannelEnds DEF Side, Client, Server
  <1>12. /\ done' \in [Chan -> Seq(Message)] /\ id_method' \in [Chan -> SUBSET Nat]
         /\ \A x \in Chan : x # ch \/ e[2] # Client => done'[x] = done[x] /\ id_method'[x] = id_method[x]
         /\ e[2] = Client => /\ done'[ch] = done[ch] \o msgs
                             /\ id_method'[ch] = id_method[ch] \ Ids(msgs)
    <2>1. done \in [Chan -> Seq(Message)] /\ id_method \in [Chan -> SUBSET Nat]
      BY <1>1 DEF Typed
    <2>2. CASE e[2] = Client
      <3>1. /\ id_method' = [id_method EXCEPT ![ch] = @ \ Ids(msgs)]
            /\ done' = [done EXCEPT ![ch] = @ \o msgs]
        BY <1>3, <2>2 DEF onMessageOp, msgs
      <3>2. done[ch] \o msgs \in Seq(Message)
        BY <1>1, <1>4, <2>1, JoinFacts
      <3>3. id_method[ch] \ Ids(msgs) \in SUBSET Nat
        BY <1>1, <2>1
      <3> QED
        BY <1>1, <2>1, <2>2, <3>1, <3>2, <3>3
    <2>3. CASE e[2] # Client
      <3>1. UNCHANGED <<id_method, done>>
        BY <1>3, <2>3
      <3> QED
        BY <2>1, <2>3, <3>1
    <2> QED
      BY <2>2, <2>3
  <1>13. astray' \in SUBSET End
    BY <1>1, <1>3 DEF Typed
  <1>14. Typed'
    BY <1>1, <1>2, <1>6, <1>7, <1>12, <1>13 DEF Typed
  <1>15. Queues'
    BY <1>6 DEF Queues, IInv
  <1>16. ASSUME NEW x \in Chan
         PROVE  /\ <<x, Client>> \in End /\ <<x, Server>> \in End /\ <<x, Server>> # <<x, Client>>
                /\ x # ch => <<x, Client>> # e /\ <<x, Server>> # e
    BY <1>1, ChannelEnds DEF Client, Server
  <1>17. NotYet'
    <2> SUFFICES ASSUME NEW x \in Chan
                 PROVE  /\ server' = "new" => conn'[<<x, Server>>].sock = "none"
                        /\ conn'[<<x, Server>>].sock = "none" =>
                              /\ conn'[<<x, Server>>].rbuf = <<>>
                              /\ Stream(<<x, Client>>)' = <<>> /\ done'[x] = <<>>
      BY DEF NotYet
    <2>1. /\ server = "new" => conn[<<x, Server>>].sock = "none"
          /\ conn[<<x, Server>>].sock = "none" =>
                /\ conn[<<x, Server>>].rbuf = <<>>
                /\ Stream(<<x, Client>>) = <<>> /\ done[x] = <<>>
      BY DEF IInv, NotYet
    <2>2. CASE e = <<x, Server>>
      BY <1>2, <1>6, <2>1, <2>2
    <2>3. CASE e = <<x, Client>>
      <3>1. conn[<<x, Server>>].sock # "none"
        BY <1>2, <2>1, <2>3
      <3>2. conn'[<<x, Server>>] = conn[<<x, Server>>]
        BY <1>6, <1>16, <2>3
      <3> QED
        BY <1>2, <2>1, <3>1, <3>2
    <2>4. CASE e # <<x, Server>> /\ e # <<x, Client>>
      <3>1. x # ch
        BY <1>11, <2>4
      <3>2. /\ conn'[<<x, Server>>] = conn[<<x, Server>>]
            /\ Stream(<<x, Client>>)' = Stream(<<x, Client>>) /\ done'[x] = done[x]
        BY <1>6, <1>8, <1>12, <1>16, <3>1
      <3> QED
        BY <1>2, <2>1, <3>2
    <2> QED
      BY <2>2, <2>3, <2>4
  <1>18. Framing'
    <2> SUFFICES ASSUME NEW x \in End, "send" \notin trouble'[x[1]]
                 PROVE  WellCut(Stream(x)') /\ LeftBy(conn'[PeerEnd(x)], Stream(x)')
      BY DEF Framing
    <2>1. WellCut(Stream(x)) /\ LeftBy(conn[PeerEnd(x)], Stream(x))
      BY <1>2 DEF Framing, IInv
    <2>2. CASE x = e
      <3>1. WellCut(a \o b)
        BY <1>3, <2>1, <2>2
      <3>2. WellCut(Rest(a) \o b) /\ Rest(Rest(a) \o b) = Rest(a \o b)
        BY <3>1, ReadKeepsCut
      <3>3. conn'[PeerEnd(x)] = conn[PeerEnd(x)]
        BY <1>5, <1>6, <2>2 DEF p
      <3>4. LeftBy(conn[PeerEnd(x)], a \o b)
        BY <1>3, <2>1, <2>2
      <3>5. LeftBy(conn[PeerEnd(x)], Rest(a) \o b)
        BY <3>2, <3>4 DEF LeftBy
      <3> QED
        BY <1>8, <2>2, <3>2, <3>3, <3>5
    <2>3. CASE x = p
      BY <1>5, <1>6, <1>8, <1>10, <2>1, <2>3
    <2>4. CASE x # e /\ x # p
      <3>1. PeerEnd(x) \in End /\ PeerEnd(x) # e
        BY <2>4 DEF p, PeerEnd, Peer, End, Side, Client, Server
      <3> QED
        BY <1>6, <1>8, <2>1, <2>4, <3>1
    <2> QED
      BY <2>2, <2>3, <2>4
  <1>19. Contents'
    <2> SUFFICES ASSUME NEW x \in Chan
                 PROVE  /\ \A i \in DOMAIN conn'[<<x, Client>>].deque :
                              IsRequest(called'[x], conn'[<<x, Client>>].deque[i])
                        /\ \A i \in DOMAIN Stream(<<x, Server>>)' :
                              IsRequest(called'[x], Stream(<<x, Server>>)'[i][1])
                        /\ \A i \in DOMAIN conn'[<<x, Server>>].deque :
                              IsResponse(called'[x], services', conn'[<<x, Server>>].deque[i])
                        /\ \A i \in DOMAIN Stream(<<x, Client>>)' :
                              IsResponse(called'[x], services', Stream(<<x, Client>>)'[i][1])
                        /\ \A i \in DOMAIN done'[x] : IsResponse(called'[x], services', done'[x][i])
      BY DEF Contents
    <2>1. /\ \A i \in DOMAIN conn[<<x, Client>>].deque :
                IsRequest(called[x], conn[<<x, Client>>].deque[i])
          /\ \A i \in DOMAIN Stream(<<x, Server>>) : IsRequest(called[x], Stream(<<x, Server>>)[i][1])
          /\ \A i \in DOMAIN conn[<<x, Server>>].deque :
                IsResponse(called[x], services, conn[<<x, Server>>].deque[i])
          /\ \A i \in DOMAIN Stream(<<x, Client>>) :
                IsResponse(called[x], services, Stream(<<x, Client>>)[i][1])
          /\ \A i \in DOMAIN done[x] : IsResponse(called[x], services, done[x][i])
      BY DEF IInv, Contents
    <2>2. CASE x # ch
      <3>1. /\ conn'[<<x, Client>>] = conn[<<x, Client>>] /\ conn'[<<x, Server>>] = conn[<<x, Server>>]
            /\ Stream(<<x, Client>>)' = Stream(<<x, Client>>)
            /\ Stream(<<x, Server>>)' = Stream(<<x, Server>>) /\ done'[x] = done[x]
        BY <1>6, <1>8, <1>12, <1>16, <2>2
      <3> QED
        BY <1>2, <2>1, <3>1
    <2>3. CASE x = ch /\ e = <<ch, Client>>
      <3>1. /\ conn'[<<x, Server>>] = conn[<<x, Server>>]
            /\ Stream(<<x, Server>>)' = Stream(<<x, Server>>)
        BY <1>6, <1>8, <1>16, <2>3
      <3>2. r = <<>> /\ DOMAIN r = {}
        <4>1. r = <<>>
          BY <1>3, <1>11, <2>3 DEF Answers, Client, Server
        <4> QED
          BY <4>1
      <3>3. \A i \in DOMAIN d.deque : IsRequest(called[x], d.deque[i])
        BY <1>10, <2>1, <2>3, <3>2
      <3>4. \A k \in DOMAIN msgs : IsResponse(called[x], services, msgs[k])
        BY <1>9, <2>1, <2>3
      <3>5. done'[x] = done[x] \o msgs /\ done[x] \in Seq(Message)
        BY <1>1, <1>11, <1>12, <2>3 DEF Typed
      <3>6. \A i \in DOMAIN done'[x] : IsResponse(called[x], services, done'[x][i])
        <4> DEFINE q == done[x]
                   t == q \o msgs
        <4>1. q \in Seq(Message) /\ \A i \in DOMAIN q : IsResponse(called[x], services, q[i])
          BY <2>1, <3>5
        <4> HIDE DEF q
        <4>2. t \in Seq(Message)
          BY <1>4, <4>1, JoinFacts
        <4>3. \A i \in 1..Len(t) : \/ i \in 1..Len(q) /\ t[i] = q[i]
                                   \/ i - Len(q) \in 1..Len(msgs) /\ t[i] = msgs[i - Len(q)]
          BY <1>4, <4>1, JoinCases
        <4> HIDE DEF t
        <4>4. DOMAIN t = 1..Len(t) /\ DOMAIN q = 1..Len(q) /\ DOMAIN msgs = 1..Len(msgs)
          BY <1>4, <4>1, <4>2
        <4>5. \A i \in DOMAIN t : IsResponse(called[x], services, t[i])
          BY <3>4, <4>1, <4>3, <4>4
        <4> QED
          BY <3>5, <4>5 DEF q, t
      <3>7. \A i \in DOMAIN Stream(<<x, Client>>)' :
               IsResponse(called[x], services, Stream(<<x, Client>>)'[i][1])
        <4>1. e = <<x, Client>>
          BY <2>3
        <4>2. \A i \in DOMAIN Stream(e) : IsResponse(called[x], services, Stream(e)[i][1])
          BY <2>1, <4>1
        <4>3. \A i \in DOMAIN Stream(e)' : IsResponse(called[x], services, Stream(e)'[i][1])
          BY <1>9, <4>2
        <4> QED
          BY <4>1, <4>3
      <3> QED
        BY <1>2, <1>6, <2>1, <2>3, <3>1, <3>3, <3>6, <3>7
    <2>4. CASE x = ch /\ e = <<ch, Server>>
      <3>1. /\ conn'[<<x, Client>>] = conn[<<x, Client>>] /\ done'[x] = done[x]
            /\ Stream(<<x, Client>>)' = Stream(<<x, Client>>)
        BY <1>6, <1>8, <1>11, <1>12, <1>16, <2>4
      <3>2. \A k \in DOMAIN msgs : IsRequest(called[x], msgs[k])
        BY <1>9, <2>1, <2>4
      <3>3. Len(r) = Len(msgs) /\ \A i \in 1..Len(msgs) : r[i] = onConnectionMessage(msgs[i])
        BY <1>3, <1>11, <2>4 DEF Answers, msgs
      <3>4. DOMAIN r = 1..Len(msgs) /\ DOMAIN msgs = 1..Len(msgs)
        BY <1>4, <3>3
      <3>5. \A i \in DOMAIN r : IsResponse(called[x], services, r[i])
        BY <1>4, <3>2, <3>3, <3>4, QueueFacts, AnswerContents
      <3>6. \A i \in DOMAIN d.deque : IsResponse(called[x], services, d.deque[i])
        BY <1>10, <2>1, <2>4, <3>5
      <3>7. \A i \in DOMAIN Stream(<<x, Server>>)' :
               IsRequest(called[x], Stream(<<x, Server>>)'[i][1])
        <4>1. e = <<x, Server>>
          BY <2>4
        <4>2. \A i \in DOMAIN Stream(e) : IsRequest(called[x], Stream(e)[i][1])
          BY <2>1, <4>1
        <4>3. \A i \in DOMAIN Stream(e)' : IsRequest(called[x], Stream(e)'[i][1])
          BY <1>9, <4>2
        <4> QED
          BY <4>1, <4>3
      <3> QED
        BY <1>2, <1>6, <2>1, <2>4, <3>1, <3>6, <3>7
    <2> QED
      BY <1>11, <2>2, <2>3, <2>4
  <1>20. PICK w1, w2, w3, w4 \in 0..Len(called[ch]) : LanesAt(ch, w1, w2, w3, w4)
    BY <1>1 DEF IInv, Lanes
  <1> DEFINE L == Len(called[ch])
  <1>21. L \in Nat /\ L = Len(called'[ch]) /\ w1 \in Nat /\ w2 \in Nat /\ w3 \in Nat /\ w4 \in Nat
    BY <1>1, <1>2 DEF Typed
  <1>22. /\ w1 <= w2 /\ w2 <= w3 /\ w3 <= w4 /\ w4 <= L
         /\ MessageLane(done[ch], 0, w1)
         /\ StreamLane(Stream(<<ch, Client>>), w1, w2)
         /\ DequeLane(conn[<<ch, Server>>], w2, w3)
         /\ StreamLane(Stream(<<ch, Server>>), w3, w4)
         /\ DequeLane(conn[<<ch, Client>>], w4, L)
    BY <1>20 DEF LanesAt
  <1>23. ASSUME NEW lo \in Nat, NEW hi \in Nat, lo <= hi, StreamLane(Stream(e), lo, hi)
         PROVE  \E mid \in lo..hi : MessageLane(msgs, lo, mid) /\ StreamLane(Stream(e)', mid, hi)
    <2>1. StreamLane(a \o b, lo, hi)
      BY <1>3, <1>23
    <2>2. \E mid \in lo..hi : MessageLane(Cut(a).msgs, lo, mid) /\ StreamLane(Rest(a) \o b, mid, hi)
      BY <1>23, <2>1, ReadLane
    <2> QED
      BY <1>8, <2>2 DEF msgs
  <1> HIDE DEF L
  <1>24. ASSUME e[2] = Client
         PROVE  /\ \E v \in 0..L : LanesAt(ch, v, w2, w3, w4)'
                /\ Ids(msgs) \subseteq (0..L - 1) \ Ids(done[ch])
    <2>1. e = <<ch, Client>> /\ StreamLane(Stream(e), w1, w2)
      BY <1>11, <1>22, <1>24
    <2>2. PICK mid \in w1..w2 : MessageLane(msgs, w1, mid) /\ StreamLane(Stream(e)', mid, w2)
      BY <1>21, <1>22, <1>23, <2>1
    <2>3. mid \in Nat /\ mid \in 0..L /\ mid <= w2 /\ w1 <= mid /\ 0 <= w1 /\ mid <= L
      BY <1>21, <1>22
    <2>4. done[ch] \in Seq(Message)
      BY <1>1 DEF Typed
    <2>5. MessageLane(done'[ch], 0, mid)
      <3>1. MessageLane(done[ch] \o msgs, 0, mid)
        BY <1>4, <1>21, <1>22, <2>2, <2>3, <2>4, MessageJoin
      <3> QED
        BY <1>12, <1>24, <3>1
    <2>6. r = <<>>
      BY <1>3, <1>24 DEF Answers, Client, Server
    <2>7. DequeLane(d, w4, L)
      <3>1. Joined(c, d, <<>>)
        BY <1>3, <2>6
      <3>2. DequeLane(c, w4, L)
        BY <1>22, <2>1
      <3> QED
        BY <1>1, <1>21, <1>22, <3>1, <3>2, StillLane
    <2>8. /\ conn'[<<ch, Client>>] = d /\ conn'[<<ch, Server>>] = conn[<<ch, Server>>]
          /\ Stream(<<ch, Client>>)' = Stream(e)' /\ Stream(<<ch, Server>>)' = Stream(<<ch, Server>>)
      BY <1>6, <1>8, <1>11, <2>1
    <2>9. LanesAt(ch, mid, w2, w3, w4)'
      BY <1>21, <1>22, <2>2, <2>3, <2>5, <2>7, <2>8 DEF LanesAt
    <2>10. Ids(msgs) \subseteq (0..L - 1) \ Ids(done[ch])
      BY <1>4, <1>21, <1>22, <2>2, <2>3, <2>4, NewIds
    <2> QED
      BY <2>3, <2>9, <2>10
  <1>25. ASSUME e[2] = Server
         PROVE  \E v \in 0..L : LanesAt(ch, w1, w2, v, w4)'
    <2>1. e = <<ch, Server>> /\ StreamLane(Stream(e), w3, w4)
      BY <1>11, <1>22, <1>25
    <2>2. PICK mid \in w3..w4 : MessageLane(msgs, w3, mid) /\ StreamLane(Stream(e)', mid, w4)
      BY <1>21, <1>22, <1>23, <2>1
    <2>3. mid \in Nat /\ mid \in 0..L /\ mid <= w4 /\ w3 <= mid /\ w2 <= mid
      BY <1>21, <1>22
    <2>4. Len(r) = Len(msgs) /\ \A i \in 1..Len(msgs) : r[i] = onConnectionMessage(msgs[i])
      BY <1>3, <1>25 DEF Answers, msgs
    <2>5. MessageLane(r, w3, mid)
      BY <1>4, <2>2, <2>4, AnswerLane
    <2>6. DequeLane(d, w2, mid)
      <3>1. Joined(c, d, r) /\ DequeLane(c, w2, w3)
        BY <1>3, <1>22, <2>1
      <3> QED
        BY <1>1, <1>21, <1>22, <2>3, <2>5, <3>1, JoinedLane
    <2>7. /\ conn'[<<ch, Server>>] = d /\ conn'[<<ch, Client>>] = conn[<<ch, Client>>]
          /\ Stream(<<ch, Server>>)' = Stream(e)' /\ Stream(<<ch, Client>>)' = Stream(<<ch, Client>>)
      BY <1>6, <1>8, <1>11, <2>1
    <2>8. done'[ch] = done[ch]
      BY <1>1, <1>12, <1>25 DEF Client, Server
    <2>9. LanesAt(ch, w1, w2, mid, w4)'
      BY <1>21, <1>22, <2>2, <2>3, <2>6, <2>7, <2>8 DEF LanesAt
    <2> QED
      BY <2>3, <2>9
  <1>26. Lanes'
    <2> SUFFICES ASSUME NEW x \in Chan
                 PROVE  \E v1, v2, v3, v4 \in 0..Len(called'[x]) : LanesAt(x, v1, v2, v3, v4)'
      BY DEF Lanes
    <2>1. CASE x # ch
      <3>1. PICK v1, v2, v3, v4 \in 0..Len(called[x]) : LanesAt(x, v1, v2, v3, v4)
        BY DEF IInv, Lanes
      <3>2. /\ conn'[<<x, Client>>] = conn[<<x, Client>>] /\ conn'[<<x, Server>>] = conn[<<x, Server>>]
            /\ Stream(<<x, Client>>)' = Stream(<<x, Client>>)
            /\ Stream(<<x, Server>>)' = Stream(<<x, Server>>) /\ done'[x] = done[x]
        BY <1>6, <1>8, <1>12, <1>16, <2>1
      <3>3. LanesAt(x, v1, v2, v3, v4)'
        BY <1>2, <3>1, <3>2 DEF LanesAt
      <3> QED
        BY <1>2, <3>3
    <2>2. CASE x = ch
      <3>1. w1 \in 0..L /\ w2 \in 0..L /\ w3 \in 0..L /\ w4 \in 0..L /\ Len(called'[x]) = L
        BY <1>20, <1>21, <2>2 DEF L
      <3>2. CASE e[2] = Client
        BY <1>24, <2>2, <3>1, <3>2
      <3>3. CASE e[2] = Server
        BY <1>25, <2>2, <3>1, <3>3
      <3> QED
        BY <1>11, <3>2, <3>3
    <2> QED
      BY <2>1, <2>2
  <1>27. Waiting'
    <2> SUFFICES ASSUME NEW x \in Chan
                 PROVE  id_method'[x] = (0..Len(called'[x]) - 1) \ Ids(done'[x])
      BY DEF Waiting
    <2>1. id_method[x] = (0..Len(called[x]) - 1) \ Ids(done[x])
      BY DEF Waiting, IInv
    <2>2. CASE x # ch \/ e[2] # Client
      BY <1>2, <1>12, <2>1, <2>2
    <2>3. CASE x = ch /\ e[2] = Client
      <3>1. done[ch] \in Seq(Message)
        BY <1>1 DEF Typed
      <3>2. Ids(done[ch] \o msgs) = Ids(done[ch]) \cup Ids(msgs)
        BY <1>4, <3>1, IdsJoin
      <3>3. done'[ch] = done[ch] \o msgs /\ id_method'[ch] = id_method[ch] \ Ids(msgs)
        BY <1>12, <2>3
      <3> QED
        BY <1>2, <2>1, <2>3, <3>2, <3>3
    <2> QED
      BY <2>2, <2>3
  <1>28. Blamed'
    <2>1. "send" \notin trouble[ch] => astray' = astray
      <3> SUFFICES ASSUME "send" \notin trouble[ch]
                   PROVE  astray' = astray
        OBVIOUS
      <3>1. WellCut(a \o b)
        BY <1>3 DEF Framing, IInv
      <3>2. Cut(a).sound
        BY <3>1, ReadKeepsCut
      <3>3. e[2] = Client => Ids(msgs) \subseteq id_method[ch]
        BY <1>1, <1>24 DEF Waiting, IInv, L
      <3> QED
        BY <1>3, <3>2, <3>3 DEF msgs
    <2>2. astray' = astray \/ astray' = astray \cup {e}
      BY <1>3
    <2>3. \A x \in End : x \in astray' =>
             x \in astray \/ trouble[x[1]] \cap {"hangup", "connect", "send", "stop"} # {}
      BY <2>1, <2>2
    <2>4. \A x \in End : conn'[x].sock = "hung" => conn[x].sock = "hung"
      BY <1>6
    <2> QED
      BY <1>2, <2>3, <2>4 DEF Blamed, IInv
  <1> QED
    BY <1>14, <1>15, <1>17, <1>18, <1>19, <1>26, <1>27, <1>28 DEF IInv

----------------------------------------------------------------------------
(* The theorems. *)

\* Of nothing, nothing is cut and nothing is left.
LEMMA NothingCut ==
    Cut(<<>>).sound /\ Rest(<<>>) = <<>> /\ WellCut(<<>>)
  <1> DEFINE s == <<>>
  <1>1. s \in Seq(Byte) /\ Len(s) = 0
    OBVIOUS
  <1>2. PICK f : CutIs(s, f) /\ Cut(s) = f[0]
    BY <1>1, CutFacts
  <1>3. 0 \in 0..Len(s) /\ ~Whole(s, 0) /\ Len(s) - 0 < HeaderBytes
    BY <1>1, HeaderAssumption DEF Whole, Headed
  <1>4. Cut(s).sound
    BY <1>2, <1>3 DEF CutIs
  <1>5. Rest(s) \in Seq(Byte) /\ Len(Rest(s)) = 0
    <2>1. Cut(s).end \in 0..Len(s) /\ Rest(s) \in Seq(Byte) /\ Len(Rest(s)) = Len(s) - Cut(s).end
      BY <1>1, RestFacts
    <2> HIDE DEF s
    <2> QED
      BY <1>1, <2>1
  <1>6. Rest(s) = <<>>
    BY <1>5, EmptyFacts
  <1> QED
    BY <1>4, <1>6 DEF WellCut

\* The initial states satisfy the invariant.
LEMMA InitHolds ==
    Init => IInv
  <1> SUFFICES ASSUME Init
               PROVE  IInv
    OBVIOUS
  <1>1. Connection \in ConnectionType
    BY DEF Connection, ConnectionType
  <1>2. /\ \A e \in End : conn[e] = Connection /\ wire[e] = <<>>
        /\ \A ch \in Chan : called[ch] = <<>> /\ done[ch] = <<>> /\ id_method[ch] = {}
        /\ astray = {}
    BY DEF Init
  <1>3. /\ Connection.sock = "none" /\ Connection.wop = "none" /\ Connection.sent = 0
        /\ Connection.deque = <<>> /\ Connection.rbuf = <<>>
    BY DEF Connection
  <1>4. Typed
    <2>1. conn \in [End -> ConnectionType]
      BY <1>1 DEF Init
    <2>2. wire \in [End -> Seq(Byte)]
      BY DEF Init
    <2> QED
      BY <2>1, <2>2 DEF Init, Typed
  <1>5. Queues
    BY <1>2, <1>3 DEF Queues, QueueOK
  <1>6. \A e \in End : Stream(e) = <<>>
    <2>1. <<>> \o <<>> = <<>>
      BY EmptyFacts
    <2> QED
      BY <1>2, <1>3, <2>1 DEF Stream
  <1>7. \A ch \in Chan : <<ch, Client>> \in End /\ <<ch, Server>> \in End
    BY ChannelEnds
  <1>8. NotYet
    BY <1>2, <1>3, <1>6, <1>7 DEF NotYet
  <1>9. DOMAIN <<>> = {}
    OBVIOUS
  <1>10. Contents
    BY <1>2, <1>3, <1>6, <1>7, <1>9 DEF Contents
  <1>11. Lanes
    <2> SUFFICES ASSUME NEW ch \in Chan
                 PROVE  \E w1, w2, w3, w4 \in 0..Len(called[ch]) : LanesAt(ch, w1, w2, w3, w4)
      BY DEF Lanes
    <2>1. Len(called[ch]) = 0 /\ 0 \in 0..Len(called[ch])
      BY <1>2
    <2>2. MessageLane(<<>>, 0, 0) /\ StreamLane(<<>>, 0, 0)
      BY <1>9 DEF MessageLane, StreamLane
    <2>3. DequeLane(Connection, 0, 0)
      BY <1>3, <1>9 DEF DequeLane
    <2>4. LanesAt(ch, 0, 0, 0, 0)
      BY <1>2, <1>6, <1>7, <2>1, <2>2, <2>3 DEF LanesAt
    <2> QED
      BY <2>1, <2>4
  <1>12. Waiting
    <2>1. 0..Len(<<>>) - 1 = {}
      OBVIOUS
    <2> QED
      BY <1>2, <2>1 DEF Waiting
  <1>13. Framing
    <2>1. \A e \in End : PeerEnd(e) \in End
      BY DEF PeerEnd, Peer, End, Side, Client, Server
    <2>2. LeftBy(Connection, <<>>)
      BY <1>3, NothingCut DEF LeftBy
    <2> QED
      BY <1>2, <1>6, <2>1, <2>2, NothingCut DEF Framing
  <1>14. Blamed
    BY <1>2, <1>3 DEF Blamed
  <1> QED
    BY <1>4, <1>5, <1>8, <1>10, <1>11, <1>12, <1>13, <1>14 DEF IInv

\* Every step keeps the invariant.
LEMMA StepHolds ==
    IInv /\ [Next]_vars => IInv'
  <1> SUFFICES ASSUME IInv, [Next]_vars
               PROVE  IInv'
    OBVIOUS
  <1>1. CASE UNCHANGED vars
    <2>1. UNCHANGED <<conn, wire, id_method, called, done, astray, services, server, trouble>>
      BY <1>1 DEF vars
    <2> QED
      BY <2>1, NoEnd DEF IInv, Typed
  <1>2. CASE Start
    BY <1>2, StartStep
  <1>3. CASE AcceptFails
    BY <1>3, AcceptFailsStep
  <1>4. CASE Stop
    BY <1>4, StopStep
  <1>5. CASE \E service \in {m[1] : m \in Methods} : RegisterService(service)
    BY <1>5, RegisterServiceStep
  <1>6. ASSUME NEW ch \in Chan,
               \/ Construct(ch) \/ ConnectDone(ch) \/ ConnectFails(ch) \/ Shutdown(ch)
               \/ Accept(ch) \/ StartRecv(ch)
               \/ \E ask \in Asks : CallMethod(ch, ask)
        PROVE  IInv'
    BY <1>6, ConstructStep, ConnectDoneStep, ConnectFailsStep, ShutdownStep, AcceptStep,
       StartRecvStep, CallMethodStep
  <1>7. ASSUME NEW e \in End,
               \/ Writable(e) \/ SendFails(e) \/ Readable(e) \/ PeerClosed(e)
               \/ RecvFails(e) \/ HangsUp(e) \/ HupEvent(e)
        PROVE  IInv'
    BY <1>7, WritableStep, SendFailsStep, ReadableStep, PeerClosedStep, RecvFailsStep,
       HangsUpStep, HupEventStep
  <1> QED
    BY <1>1, <1>2, <1>3, <1>4, <1>5, <1>6, <1>7 DEF Next

\* The invariant holds in every reachable state.
LEMMA InvariantHolds ==
    Spec => []IInv
  BY InitHolds, StepHolds, PTL DEF Spec

\* The invariant implies QueueMoves.
LEMMA QueueMovesHolds ==
    IInv => QueueMoves
  BY DEF IInv, Queues, QueueOK, Blamed, QueueMoves

\* The invariant implies Framed.
LEMMA FramedHolds ==
    IInv => Framed
  <1> SUFFICES ASSUME IInv, NEW e \in End, "send" \notin trouble[e[1]]
               PROVE  LET stream == Stream(e)
                          cut == Cut(stream)
                          tail == Rest(stream)
                      IN  /\ cut.sound
                          /\ tail # <<>> => tail = SubSeq(Frame(tail[1][1]), 1, Len(tail))
                          /\ conn[PeerEnd(e)].sock = "open" /\ conn[PeerEnd(e)].wop = "write" =>
                                tail = SubSeq(Frame(Head(conn[PeerEnd(e)].deque)), 1,
                                              conn[PeerEnd(e)].sent)
    BY DEF Framed, Stream, Rest
  <1> QED
    BY DEF IInv, Framing, WellCut, LeftBy

\* The invariant implies AnsweredByOwn.
LEMMA AnsweredByOwnHolds ==
    IInv => AnsweredByOwn
  <1> SUFFICES ASSUME IInv, NEW ch \in Chan
               PROVE  /\ \A i \in DOMAIN done[ch] : IsResponse(called[ch], services, done[ch][i])
                      /\ \A i, j \in DOMAIN done[ch] : done[ch][i].id = done[ch][j].id => i = j
                      /\ id_method[ch] = (0..Len(called[ch]) - 1) \ Ids(done[ch])
    BY DEF AnsweredByOwn, IsResponse
  <1>1. \A i \in DOMAIN done[ch] : IsResponse(called[ch], services, done[ch][i])
    BY DEF IInv, Contents
  <1>2. \A i, j \in DOMAIN done[ch] : i < j => done[ch][i].id < done[ch][j].id
    BY DEF IInv, Lanes, LanesAt, MessageLane
  <1>3. \A i, j \in DOMAIN done[ch] : done[ch][i].id = done[ch][j].id => i = j
    <2> DEFINE q == done[ch]
    <2>1. q \in Seq(Message)
      BY DEF IInv, Typed
    <2> HIDE DEF q
    <2>2. \A i \in DOMAIN q : i \in Nat /\ q[i].id \in Nat
      BY <2>1, QueueFacts
    <2>3. \A i, j \in DOMAIN q : i < j => q[i].id < q[j].id
      BY <1>2 DEF q
    <2>4. \A i, j \in DOMAIN q : q[i].id = q[j].id => i = j
      <3> SUFFICES ASSUME NEW i \in DOMAIN q, NEW j \in DOMAIN q, i # j
                   PROVE  q[i].id # q[j].id
        OBVIOUS
      <3>1. i < j \/ j < i
        BY <2>2
      <3> QED
        BY <2>2, <2>3, <3>1
    <2> QED
      BY <2>4 DEF q
  <1>4. id_method[ch] = (0..Len(called[ch]) - 1) \ Ids(done[ch])
    BY DEF IInv, Waiting
  <1> QED
    BY <1>1, <1>3, <1>4

\* A connection's queue never stops moving, and a write under way always has its
\* message: the deque and the registered write go together, whatever fails; and
\* the code leaves defined behaviour only after a hang-up, a failed connect or
\* send, or in stop (Connection::send, start_deque_send, onSendCompleted).
THEOREM QueuesMove ==
    Spec => []QueueMoves
  BY InvariantHolds, QueueMovesHolds, PTL

\* The length that Connection::onRecvMessage reads is always that of a message,
\* wherever TCP cuts the stream and whatever fails but a send.
THEOREM StreamsAreFramed ==
    Spec => []Framed
  BY InvariantHolds, FramedHolds, PTL

\* Each Closure of Channel::CallMethod runs at most once and with the answer to
\* its own request, and the calls that wait are those without an answer, even
\* after sends that fail in the middle of a message.
THEOREM AnswersAreOwn ==
    Spec => []AnsweredByOwn
  BY InvariantHolds, AnsweredByOwnHolds, PTL
=============================================================================
