-------------------------------- MODULE Rpc --------------------------------
(***************************************************************************)
(* The RPC layer: Channel (client) and Server, each over a Connection      *)
(* (rpc/src/channel.cc, server.cc, details/connection.cc,                  *)
(* details/server.cc).                                                     *)
(*                                                                         *)
(* A Connection queues whole messages, writes them one after the other,    *)
(* and cuts what it reads into messages by a length in front of each.  The *)
(* socket under it answers as module Sockets says: SUCCESS once a message  *)
(* is written, EOPEXISTS while another write (or the connect) is           *)
(* registered, EBADF when closed, EOPCANCELED from shutdown, and EFDHUP    *)
(* again and again while the descriptor is hung up.  TCP loses nothing and *)
(* cuts anywhere; a byte is <<message, index>>.                            *)
(*                                                                         *)
(* Each handler runs to its end on the loop thread of its side.  A service *)
(* runs its Closure before CallMethod returns, as tests/test_server.cc     *)
(* does: request and response are deleted right after it.  A descriptor's  *)
(* number is not used again (ReactorService is about that).                *)
(***************************************************************************)
EXTENDS Integers, Sequences, FiniteSets

CONSTANTS
    Chan,        \* channels, each with a connection of its own to the server
    Methods,     \* the methods of the services the program may register
    Asks,        \* what a request may ask for: [service, method, arguments]
    MaxCalls,    \* bound: calls per channel
    MaxTroubles, \* bound: kinds of failure per channel
    HeaderBytes  \* bytes of the length in front of a message (4 in the code)

ASSUME BoundAssumption == MaxCalls \in Nat /\ MaxTroubles \in Nat
ASSUME HeaderAssumption == HeaderBytes \in Nat \ {0}

Client == "client"
Server == "server"
Side == {Client, Server}
Peer(side) == IF side = Client THEN Server ELSE Client
Id == 0..MaxCalls - 1

VARIABLES
    conn,         \* Connection per channel and side
    wire,         \* bytes under way to it
    is_connected, \* Channel::is_connected_
    id_method,    \* Channel::id_method_umap_: calls waiting for their response
    called,       \* history: what each call asks for, in the order of ids
    early,        \* history: calls made before the connect completed
    done,         \* history: the response each time a call's Closure ran
    services,     \* Server::name_service_info_umap_: the services registered
    server,       \* "new", "accepting", "stuck" (its accept chain ended), "stopped"
    listening,    \* its acceptor was set up
    trouble,      \* history: what went wrong with each channel
    astray        \* connections past undefined behaviour (a pop of an empty deque,
                  \* a response nobody waits for, a length read off its place):
                  \* the model follows them no further

vars == <<conn, wire, is_connected, id_method, called, early, done, services, server, listening,
          trouble, astray>>
calls == <<id_method, called, early, done>>
serving == <<services, server, listening>>

End == Chan \X Side
PeerEnd(e) == <<e[1], Peer(e[2])>>
Troubles == {"connect", "hangup", "send", "recv", "shutdown", "accept", "stop"}

----------------------------------------------------------------------------
(* Messages. *)

Request(id, ask) == [tp |-> "request", id |-> id, ask |-> ask]
Response(id, code, result) == [tp |-> "response", id |-> id, code |-> code, result |-> result]
NoResult == "empty"

\* ServiceInfo::getMethod.
getMethod(service, method) == <<service, method>> \in Methods

\* Mutated: the response does not carry the request's id.
onConnectionMessageNoId(msg) == Response(0, "SUCCESS", msg.ask)

\* Server::onConnectionMessage: what goes back for a message.  The service
\* fills its response in from the request and runs the Closure.
send_error_response(msg, code) == Response(msg.id, code, NoResult)
onConnectionMessage(msg) ==
    IF msg.tp # "request" THEN send_error_response(msg, "NOT_SUPPORT")
    ELSE IF msg.ask.service \notin services THEN send_error_response(msg, "NO_SERVICE")
    ELSE IF ~getMethod(msg.ask.service, msg.ask.method) THEN send_error_response(msg, "NO_METHOD")
    ELSE IF msg.ask.arguments = "garbled" THEN send_error_response(msg, "INVALID_REQUEST")
    ELSE Response(msg.id, "SUCCESS", msg.ask)

\* Messages of one and of two bytes behind the length.
BodyBytes(msg) == 1 + (msg.id % 2)
Frame(msg) == [k \in 1..HeaderBytes + BodyBytes(msg) |-> <<msg, k>>]

\* The loop of Connection::onRecvMessage, from position i of buf: the messages
\* it cuts out, where it stops, and whether it went by the length in front of
\* a message or by other bytes.
Cut(buf) ==
    LET cut[i \in 0..Len(buf)] ==
            LET msg == buf[i + 1][1]
                end == i + HeaderBytes + BodyBytes(msg)
                rest == cut[end]
            IN  IF Len(buf) - i < HeaderBytes THEN [msgs |-> <<>>, end |-> i, sound |-> TRUE]
                ELSE IF SubSeq(buf, i + 1, i + HeaderBytes) # SubSeq(Frame(msg), 1, HeaderBytes)
                THEN [msgs |-> <<>>, end |-> i, sound |-> FALSE]
                ELSE IF Len(buf) < end THEN [msgs |-> <<>>, end |-> i, sound |-> TRUE]
                ELSE [rest EXCEPT !.msgs = <<msg>> \o @,
                                  !.sound = @ /\ SubSeq(buf, i + 1, end) = Frame(msg)]
    IN  cut[0]

----------------------------------------------------------------------------
(* Connection, as functions of its state. *)

\* sock: the socket's state; rop: a read is registered, or the task that will
\* register it is posted; wop: the write or connect registered; sent: how much
\* of the front message is written.
Connection ==
    [sock |-> "none", rop |-> "none", wop |-> "none", sent |-> 0, deque |-> <<>>, rbuf |-> <<>>]

start_recv(c) == [c EXCEPT !.rop = IF c.sock \in {"open", "hung"} THEN "read" ELSE "none"]

\* Mutated: the next message goes on where the last one was.
start_deque_send_rest(c) ==
    IF c.sock \in {"connecting", "open", "hung"} /\ c.wop = "none"
    THEN [c EXCEPT !.wop = "write"]
    ELSE [c EXCEPT !.deque = <<>>]

\* async_write for the front message.  When the reactor refuses, with EOPEXISTS
\* or EBADF, onSendCompleted pops the message and tries the next one, which is
\* refused as well: the whole queue is gone.
start_deque_send(c) ==
    IF c.sock \in {"connecting", "open", "hung"} /\ c.wop = "none"
    THEN [c EXCEPT !.wop = "write", !.sent = 0]
    ELSE [c EXCEPT !.deque = <<>>]

send(c, msg) ==
    LET pushed == [c EXCEPT !.deque = Append(@, msg)]
    IN  IF c.deque = <<>> THEN start_deque_send(pushed) ELSE pushed

\* Mutated: the next message is not started.
onSendCompletedPops(c) == [c EXCEPT !.deque = IF @ = <<>> THEN @ ELSE Tail(@)]

\* Pop whatever the outcome, then write the next one.  Of an empty deque:
\* undefined (see Astray).
onSendCompleted(c) ==
    LET popped == [c EXCEPT !.deque = IF @ = <<>> THEN @ ELSE Tail(@)]
    IN  IF popped.deque # <<>> THEN start_deque_send(popped) ELSE popped

\* The write's callback gets EOPCANCELED and may register the next message,
\* which stays with a descriptor that is then closed.
shutdown(c) ==
    LET cancelled == IF c.wop = "write" THEN onSendCompleted([c EXCEPT !.wop = "none"]) ELSE c
    IN  [cancelled EXCEPT !.sock = "closed", !.rop = "none", !.wop = "none"]

\* Only what is registered or posted keeps a connection of the server alive
\* (a Channel has a pointer of its own): the destructor closes the socket.
Kept(e, c) ==
    IF e[2] = Server /\ c.rop = "none" /\ c.wop = "none" THEN shutdown(c) ELSE c

----------------------------------------------------------------------------
(* Channel. *)

Trouble(ch, kind) ==
    /\ Cardinality(trouble[ch]) < MaxTroubles
    /\ trouble' = [trouble EXCEPT ![ch] = @ \cup {kind}]

\* Mutated: nobody reads the responses.
onConnectOpDeaf(ch, c) ==
    /\ is_connected' = [is_connected EXCEPT ![ch] = TRUE]
    /\ conn' = [conn EXCEPT ![<<ch, Client>>] = [c EXCEPT !.sock = "open", !.wop = "none"]]

\* onConnectOp with SUCCESS.
onConnectOp(ch, c) ==
    /\ is_connected' = [is_connected EXCEPT ![ch] = TRUE]
    /\ conn' = [conn EXCEPT ![<<ch, Client>>] = start_recv([c EXCEPT !.sock = "open", !.wop = "none"])]

\* The constructor opens the socket and connects: at once, in the background,
\* or not at all; a failed open shows as EBADF from connect.
Construct(ch) ==
    LET c == conn[<<ch, Client>>] IN
    /\ c.sock = "none"
    /\ \/ listening /\ onConnectOp(ch, c) /\ UNCHANGED trouble
       \/ /\ conn' = [conn EXCEPT ![<<ch, Client>>] = [c EXCEPT !.sock = "connecting", !.wop = "connect"]]
          /\ UNCHANGED <<is_connected, trouble>>
       \/ \E sock \in {"hung", "closed"} :
             /\ conn' = [conn EXCEPT ![<<ch, Client>>].sock = sock]
             /\ Trouble(ch, "connect")
             /\ UNCHANGED is_connected
    /\ UNCHANGED <<wire, calls, serving, astray>>

\* connect_op_wrap with SUCCESS: the server's kernel has taken the connection,
\* whether or not the server will accept it.
ConnectDone(ch) ==
    /\ listening
    /\ conn[<<ch, Client>>].sock = "connecting"
    /\ onConnectOp(ch, conn[<<ch, Client>>])
    /\ UNCHANGED <<wire, calls, serving, trouble, astray>>

\* The connect fails: EPOLLERR, hence EFDHUP, and the connect stays registered;
\* or an error in SO_ERROR, and it does not.  onConnectOp does nothing.
ConnectFails(ch) ==
    /\ conn[<<ch, Client>>].sock = "connecting"
    /\ \E wop \in {"connect", "none"} :
          conn' = [conn EXCEPT ![<<ch, Client>>].sock = "hung", ![<<ch, Client>>].wop = wop]
    /\ Trouble(ch, "connect")
    /\ UNCHANGED <<wire, is_connected, calls, serving, astray>>

CallMethod(ch, ask) ==
    LET id == Len(called[ch]) IN
    /\ id \in Id
    /\ conn[<<ch, Client>>].sock # "none" /\ <<ch, Client>> \notin astray
    /\ called' = [called EXCEPT ![ch] = Append(@, ask)]
    /\ early' = [early EXCEPT ![ch] = IF is_connected[ch] THEN @ ELSE @ \cup {id}]
    /\ id_method' = [id_method EXCEPT ![ch] = @ \cup {id}]
    /\ conn' = [conn EXCEPT ![<<ch, Client>>] = send(@, Request(id, ask))]
    /\ UNCHANGED <<wire, is_connected, done, serving, trouble, astray>>

\* Channel::shutdown, also by the destructor.
Shutdown(ch) ==
    /\ conn[<<ch, Client>>].sock \notin {"none", "closed"} /\ <<ch, Client>> \notin astray
    /\ is_connected' = [is_connected EXCEPT ![ch] = FALSE]
    /\ conn' = [conn EXCEPT ![<<ch, Client>>] = shutdown(@)]
    /\ Trouble(ch, "shutdown")
    /\ UNCHANGED <<wire, calls, serving, astray>>

----------------------------------------------------------------------------
(* Server. *)

\* registerService, before start: the table has no lock.
RegisterService(service) ==
    /\ server = "new"
    /\ services' = services \cup {service}
    /\ UNCHANGED <<conn, wire, is_connected, calls, server, listening, trouble, astray>>

\* start: setup may fail, which nobody looks at; the accept is registered in
\* any case, and never completes when nothing listens.
Start ==
    /\ server = "new"
    /\ server' = "accepting"
    /\ \/ listening' = TRUE /\ UNCHANGED trouble
       \/ UNCHANGED listening /\ trouble' = [ch \in Chan |-> trouble[ch] \cup {"accept"}]
    /\ UNCHANGED <<conn, wire, is_connected, calls, services, astray>>

\* The accept callback, maybe before the client's loop knows of the connection:
\* the posted start_recv is a step of its own, the next accept is registered
\* before the callback returns.
Accept(ch) ==
    /\ server = "accepting" /\ listening
    /\ conn[<<ch, Client>>].sock # "none" /\ "connect" \notin trouble[ch]
    /\ conn[<<ch, Server>>].sock = "none"
    /\ conn' = [conn EXCEPT ![<<ch, Server>>].sock = "open", ![<<ch, Server>>].rop = "posted"]
    /\ UNCHANGED <<wire, is_connected, calls, serving, trouble, astray>>

\* accept fails: start_accept is not called again.
AcceptFails ==
    /\ server = "accepting" /\ listening
    /\ server' = "stuck"
    /\ trouble' = [ch \in Chan |-> trouble[ch] \cup {"accept"}]
    /\ UNCHANGED <<conn, wire, is_connected, calls, services, listening, astray>>

\* Server::stop: the accept is cancelled, the loops of the connections end and
\* with their reactors go the operations that kept the connections.  A second
\* message in a queue is registered by the cancellation of the first with the
\* reactor that is being destroyed: undefined.
Stop ==
    /\ server \in {"accepting", "stuck"}
    /\ server' = "stopped"
    /\ conn' = [e \in End |->
          IF e[2] = Server /\ conn[e].sock # "none" THEN shutdown(conn[e]) ELSE conn[e]]
    /\ astray' = astray \cup {e \in Chan \X {Server} : Len(conn[e].deque) > 1}
    /\ trouble' = [ch \in Chan |-> trouble[ch] \cup {"stop"}]
    /\ UNCHANGED <<wire, is_connected, calls, services, listening>>

\* The posted start_recv of an accepted connection.
StartRecv(ch) ==
    /\ server # "stopped"
    /\ conn[<<ch, Server>>].rop = "posted"
    /\ conn' = [conn EXCEPT ![<<ch, Server>>] = start_recv(@)]
    /\ UNCHANGED <<wire, is_connected, calls, serving, trouble, astray>>

----------------------------------------------------------------------------
(* Events of a connection's loop. *)

\* The loop of end e still runs, and the model still follows it.
Live(e) == e \notin astray /\ (e[2] = Server => server # "stopped")

\* write_op_wrap: part of the rest is taken, or all of it, which completes.
Writable(e) ==
    /\ Live(e) /\ conn[e].sock = "open" /\ conn[e].wop = "write"
    /\ \E frame \in {Frame(Head(conn[e].deque))}, c \in {conn[e]} :
       \E n \in 1..Len(frame) - c.sent :
          /\ wire' = [wire EXCEPT ![PeerEnd(e)] = @ \o SubSeq(frame, c.sent + 1, c.sent + n)]
          /\ conn' = [conn EXCEPT ![e] =
                IF c.sent + n < Len(frame) THEN [c EXCEPT !.sent = @ + n]
                ELSE Kept(e, onSendCompleted([c EXCEPT !.wop = "none"]))]
    /\ UNCHANGED <<is_connected, calls, serving, trouble, astray>>

\* send fails: the message is popped however much of it is written.
SendFails(e) ==
    /\ Live(e) /\ conn[e].sock = "open" /\ conn[e].wop = "write"
    /\ Trouble(e[1], "send")
    /\ conn' = [conn EXCEPT ![e] = Kept(e, onSendCompleted([@ EXCEPT !.wop = "none"]))]
    /\ UNCHANGED <<wire, is_connected, calls, serving, astray>>

\* Channel::onMessageOp for each response: the entry is taken, the Closure runs
\* on what the response carries, whatever its error code.
Ids(msgs) == {msgs[i].id : i \in DOMAIN msgs}
onMessageOp(ch, msgs) ==
    /\ id_method' = [id_method EXCEPT ![ch] = @ \ Ids(msgs)]
    /\ done' = [done EXCEPT ![ch] = @ \o msgs]

\* The server answers each message of the batch in turn.
Replied(c, msgs) ==
    LET reply[i \in 0..Len(msgs)] ==
            IF i = 0 THEN c ELSE send(reply[i - 1], onConnectionMessage(msgs[i]))
    IN  reply[Len(msgs)]

\* read_op_wrap with n bytes, then onRecvMessage: every whole message goes to
\* message_op_, and the read is registered again.
Readable(e) ==
    /\ Live(e) /\ conn[e].sock = "open" /\ conn[e].rop = "read"
    /\ \E n \in 1..Len(wire[e]) : \E buf \in {conn[e].rbuf \o SubSeq(wire[e], 1, n)} :
       \E got \in {Cut(buf)} :
          /\ wire' = [wire EXCEPT ![e] = SubSeq(@, n + 1, Len(@))]
          /\ conn' = [conn EXCEPT ![e] =
                [IF e[2] = Server THEN Replied(@, got.msgs) ELSE @
                    EXCEPT !.rbuf = SubSeq(buf, got.end + 1, Len(buf))]]
          /\ IF e[2] = Client
             THEN onMessageOp(e[1], got.msgs)
             ELSE UNCHANGED <<id_method, done>>
          /\ astray' = IF /\ got.sound
                          /\ e[2] = Client => Ids(got.msgs) \subseteq id_method[e[1]]
                       THEN astray ELSE astray \cup {e}
    /\ UNCHANGED <<is_connected, called, early, serving, trouble>>

\* The peer closed and everything is read: conn->shutdown(); is_connected_
\* stays as it was.
PeerClosed(e) ==
    /\ Live(e) /\ conn[e].sock = "open" /\ conn[e].rop = "read"
    /\ wire[e] = <<>> /\ conn[PeerEnd(e)].sock = "closed"
    /\ conn' = [conn EXCEPT ![e] = shutdown(@)]
    /\ UNCHANGED <<wire, is_connected, calls, serving, trouble, astray>>

\* recv fails: onRecvMessage does nothing, and nobody reads again.
RecvFails(e) ==
    /\ Live(e) /\ conn[e].sock = "open" /\ conn[e].rop = "read"
    /\ Trouble(e[1], "recv")
    /\ conn' = [conn EXCEPT ![e] = Kept(e, [@ EXCEPT !.rop = "none"])]
    /\ UNCHANGED <<wire, is_connected, calls, serving, astray>>

\* The peer, or the network, resets the connection.
HangsUp(e) ==
    /\ conn[e].sock = "open" /\ e \notin astray
    /\ Trouble(e[1], "hangup")
    /\ conn' = [conn EXCEPT ![e].sock = "hung"]
    /\ UNCHANGED <<wire, is_connected, calls, serving, astray>>

\* EFDHUP goes to both callbacks and both stay registered.  The read ignores
\* it; the write pops, has the rest refused with EOPEXISTS, and when the event
\* comes again pops an empty deque.
HupEvent(e) ==
    /\ Live(e) /\ conn[e].sock = "hung" /\ conn[e].wop = "write"
    /\ conn' = [conn EXCEPT ![e] = onSendCompleted(@)]
    /\ astray' = IF conn[e].deque = <<>> THEN astray \cup {e} ELSE astray
    /\ UNCHANGED <<wire, is_connected, calls, serving, trouble>>

----------------------------------------------------------------------------
(* The specification. *)

Init ==
    /\ conn = [e \in End |-> Connection]
    /\ wire = [e \in End |-> <<>>]
    /\ is_connected = [ch \in Chan |-> FALSE]
    /\ id_method = [ch \in Chan |-> {}]
    /\ called = [ch \in Chan |-> <<>>]
    /\ early = [ch \in Chan |-> {}]
    /\ done = [ch \in Chan |-> <<>>]
    /\ trouble = [ch \in Chan |-> {}]
    /\ services = {} /\ server = "new" /\ listening = FALSE
    /\ astray = {}

Next ==
    \/ Start \/ AcceptFails \/ Stop
    \/ \E service \in {m[1] : m \in Methods} : RegisterService(service)
    \/ \E ch \in Chan : \/ Construct(ch) \/ ConnectDone(ch) \/ ConnectFails(ch) \/ Shutdown(ch)
                       \/ Accept(ch) \/ StartRecv(ch)
                       \/ \E ask \in Asks : CallMethod(ch, ask)
    \/ \E e \in End : \/ Writable(e) \/ SendFails(e) \/ Readable(e) \/ PeerClosed(e)
                     \/ RecvFails(e) \/ HangsUp(e) \/ HupEvent(e)

\* Level-triggered events are reported until they are handled, and a posted
\* task runs.  Nothing is assumed of callers or of failures.
Fairness ==
    /\ \A ch \in Chan : WF_vars(Accept(ch)) /\ WF_vars(StartRecv(ch))
    /\ \A e \in End : WF_vars(Writable(e)) /\ WF_vars(Readable(e))

Spec == Init /\ [][Next]_vars /\ Fairness

----------------------------------------------------------------------------
(* Properties. *)

\* A queue with messages has its front one being written, and a write under
\* way has a message to write: otherwise the queue would never move again,
\* since send only starts it when it was empty, or the completion would pop
\* what is not there.  It fails only for a connection that hung up, and the code
\* leaves defined behaviour only there, after a failed send, or in stop.
QueueMoves ==
    \A e \in End :
        /\ conn[e].sock \in {"connecting", "open"} =>
              /\ conn[e].wop = "write" <=> conn[e].deque # <<>>
              /\ conn[e].wop = "write" => conn[e].sent < Len(Frame(Head(conn[e].deque)))
        /\ e \in astray => trouble[e[1]] \cap {"hangup", "connect", "send", "stop"} # {}

\* What is read and not yet cut, with what is under way, starts at the front
\* of a message and is whole messages, but for the part of the last one that
\* is still to be written; unless a send failed, which may leave a message
\* half written in front of the next.
Framed ==
    \A e \in End : "send" \notin trouble[e[1]] =>
        LET stream == conn[e].rbuf \o wire[e]
            cut == Cut(stream)
            tail == SubSeq(stream, cut.end + 1, Len(stream))
        IN  /\ cut.sound
            /\ tail # <<>> => tail = SubSeq(Frame(tail[1][1]), 1, Len(tail))
            /\ conn[PeerEnd(e)].sock = "open" /\ conn[PeerEnd(e)].wop = "write" =>
                  tail = SubSeq(Frame(Head(conn[PeerEnd(e)].deque)), 1, conn[PeerEnd(e)].sent)

\* A call's Closure runs at most once, with the answer to its own request: what
\* its own arguments gave if the method is there, and an error if not.  The
\* calls that wait are those made and not answered.
AnsweredByOwn ==
    \A ch \in Chan :
        /\ \A i \in DOMAIN done[ch] :
              LET ask == called[ch][done[ch][i].id + 1]
                  served == <<ask.service, ask.method>> \in Methods /\ ask.service \in services
              IN  IF done[ch][i].code = "SUCCESS" THEN served /\ done[ch][i].result = ask
                  ELSE served => done[ch][i].code = "INVALID_REQUEST" /\ ask.arguments = "garbled"
        /\ \A i, j \in DOMAIN done[ch] : done[ch][i].id = done[ch][j].id => i = j
        /\ id_method[ch] = (0..Len(called[ch]) - 1) \ Ids(done[ch])

\* Every call made on a connected channel completes, unless something went
\* wrong with the channel: calls made before that are the ones the code drops.
CallsComplete ==
    \A ch \in Chan, id \in Id :
        id < Len(called[ch]) /\ id \notin early[ch]
            ~> trouble[ch] # {} \/ id \in Ids(done[ch])
=============================================================================
