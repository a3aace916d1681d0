------------------------------ MODULE Sockets ------------------------------
(***************************************************************************)
(* The objects of lcy::asio that own a descriptor: TCPSocket and UDPSocket *)
(* (asio/src/ip/details/), and Acceptor.  Each asynchronous call           *)
(* registers a wrapper with the reactor; the wrapper does the system call  *)
(* when the descriptor is ready and answers the caller's callback.         *)
(*                                                                         *)
(* The reactor appears by what it promises (module ReactorService): one    *)
(* operation per descriptor and direction, EOPEXISTS for a second one,     *)
(* EOPCANCELED when one is cancelled, and EFDHUP, which does not remove    *)
(* the operation, for as long as a descriptor is hung up.  Callbacks only  *)
(* record their answer: a callback that calls back into the reactor while  *)
(* the reactor cancels is the subject of ReactorService.                   *)
(***************************************************************************)
EXTENDS Integers, Sequences, FiniteSets

CONSTANTS
    Tcp,       \* TCPSocket objects, acceptors' sockets among them
    Udp,       \* UDPSocket objects
    Fd,        \* descriptors the kernel hands out
    Closed,    \* sockfd_ = -1
    Calls,     \* bound: number of asynchronous calls the program makes
    Length,    \* lengths of the buffers passed to them
    MaxHup,    \* bound: answers a call gets while its descriptor is hung up
    MaxLost    \* bound: descriptors lost when close fails

ASSUME SocketAssumption == Tcp \cap Udp = {}
ASSUME FdAssumption == Closed \notin Fd
ASSUME CallsAssumption == Calls \in Nat
ASSUME LengthAssumption == Length \subseteq Nat \ {0}

Call == 1..Calls     \* in the order they are made
Socket == Tcp \cup Udp
Dir == {"read", "write"}
None == 0            \* no operation

VARIABLES
    sockfd,    \* sockfd_ of each object
    open,      \* descriptors open in the kernel
    listening, \* those that listen
    hung,      \* those the peer hung up
    ops,       \* the reactor: the call whose wrapper is registered
    op,        \* per call, what its wrapper was bound to
    answers,   \* per call, the answers its callback got
    wire,      \* per open descriptor, the bytes the kernel took, as <<call, index>>
    lost       \* descriptors some object dropped without closing, or closed
               \* and kept: the two ways the code loses track of one

vars == <<sockfd, open, listening, hung, ops, op, answers, wire, lost>>
kernel == <<open, listening, hung>>

\* The calls not made yet come last.
NextCall == {c \in Call : op[c].kind = "none" /\ \A d \in 1..c - 1 : op[d].kind # "none"}
Unbound == [kind |-> "none"]
Answer(ec, n) == [ec |-> ec, n |-> n]

DirOf(kind) == IF kind \in {"read", "accept"} THEN "read" ELSE "write"

----------------------------------------------------------------------------
(* The reactor, as the objects use it. *)

\* registerReadOperation or registerWriteOperation for call c of object s.
\* The wrapper is answered at once when the direction is taken or epoll_ctl
\* refuses the descriptor (EBADF).
Register(c, s, dir, ec) ==
    /\ ec = IF sockfd[s] \notin open THEN "EBADF"
            ELSE IF ops[sockfd[s]][dir] # None THEN "EOPEXISTS" ELSE "SUCCESS"
    /\ IF ec = "SUCCESS"
       THEN ops' = [ops EXCEPT ![sockfd[s]][dir] = c] /\ UNCHANGED answers
       ELSE answers' = [answers EXCEPT ![c] = Append(@, Answer(ec, 0))] /\ UNCHANGED ops

\* The operations of fd in the directions dirs, without the empty ones.
Registered(fd, dirs) == {ops[fd][d] : d \in dirs} \ {None}

\* Each of the calls is answered ec with the bytes it has sent so far.
Notify(calls, ec) ==
    [c \in Call |-> IF c \in calls THEN Append(answers[c], Answer(ec, op[c].sent)) ELSE answers[c]]

\* The reactor without the operations of fd in dirs.
Without(fd, dirs) ==
    [ops EXCEPT ![fd] = [d \in Dir |-> IF d \in dirs THEN None ELSE @[d]]]

\* cancelReadOperation, cancelWriteOperation and cancelAllOperations.
CancelOperations(fd, dirs) ==
    IF fd = Closed THEN UNCHANGED <<ops, answers>>
    ELSE /\ ops' = Without(fd, dirs)
         /\ answers' = Notify(Registered(fd, dirs), "EOPCANCELED")

----------------------------------------------------------------------------
(* Calls on a socket, the same for TCP and UDP. *)

\* The program makes the next call: its wrapper is bound to sockfd_, the
\* buffer and what is sent so far, and registered.
Async(s, kind, length, target) ==
    \E c \in NextCall, ec \in {"EBADF", "EOPEXISTS", "SUCCESS"} :
        /\ op' = [op EXCEPT ![c] = [kind |-> kind, fd |-> sockfd[s], length |-> length,
                                    sent |-> 0, target |-> target]]
        /\ Register(c, s, DirOf(kind), ec)
        /\ UNCHANGED <<sockfd, open, listening, hung, wire, lost>>

\* close(fd): the number is free again also when close reports an error.
CloseFd(fd) == open \ {fd}
Unsent(fds) == [fd \in Fd |-> IF fd \in fds THEN <<>> ELSE wire[fd]]

\* Mutated: sockfd_ is not reset.
ShutKeepsNumber(s) ==
    /\ CancelOperations(sockfd[s], Dir)
    /\ open' = CloseFd(sockfd[s])
    /\ listening' = listening \ {sockfd[s]}
    /\ hung' = hung \ {sockfd[s]}
    /\ wire' = Unsent({sockfd[s]})
    /\ UNCHANGED <<sockfd, op, lost>>

\* shutdown: cancel both directions, close; when close fails (always on a
\* descriptor that is not open), sockfd_ stays.
Shut(s) ==
    /\ CancelOperations(sockfd[s], Dir)
    /\ open' = CloseFd(sockfd[s])
    /\ listening' = listening \ {sockfd[s]}
    /\ hung' = hung \ {sockfd[s]}
    /\ \/ /\ sockfd[s] \in open \cup {Closed}
          /\ sockfd' = [sockfd EXCEPT ![s] = Closed]
          /\ UNCHANGED lost
       \/ /\ sockfd[s] # Closed
          /\ sockfd[s] \in open => Cardinality(lost) < MaxLost
          /\ lost' = lost \cup {sockfd[s]}
          /\ UNCHANGED sockfd
    /\ wire' = Unsent({sockfd[s]})
    /\ UNCHANGED op

\* open: shut what is open, then a new descriptor, or -1 when socket fails;
\* a close that failed inside is not looked at.  With listens, bind and listen
\* follow and succeed.
Reopen(s, listens) ==
    LET old == sockfd[s] IN
    /\ CancelOperations(old, Dir)
    /\ hung' = hung \ {old}
    /\ \/ /\ sockfd' = [sockfd EXCEPT ![s] = Closed]
          /\ open' = CloseFd(old)
          /\ listening' = listening \ {old}
       \/ \E fd \in Fd \ CloseFd(old) :
             /\ sockfd' = [sockfd EXCEPT ![s] = fd]
             /\ open' = CloseFd(old) \cup {fd}
             /\ listening' = (listening \ {old}) \cup IF listens THEN {fd} ELSE {}
    /\ wire' = Unsent({old})
    /\ UNCHANGED <<op, lost>>

----------------------------------------------------------------------------
(* TCPSocket. *)

TcpOpen(s) == s \in Tcp /\ Reopen(s, FALSE)
TcpShutdown(s) == s \in Tcp /\ Shut(s)

async_read(s, length) == s \in Tcp /\ Async(s, "read", length, s)
async_write(s, length) == s \in Tcp /\ Async(s, "write", length, s)
async_accept(s, target) == {s, target} \subseteq Tcp /\ s # target /\ Async(s, "accept", 0, target)

\* connect succeeds or fails at once, or goes on and waits for writability.
async_connect(s) ==
    /\ s \in Tcp
    /\ \/ Async(s, "connect", 0, s)
       \/ \E c \in NextCall, ec \in {"SUCCESS", "ERRNO"} :
             /\ ec = "SUCCESS" => sockfd[s] \in open
             /\ op' = [op EXCEPT ![c] = [kind |-> "connect", fd |-> sockfd[s], length |-> 0,
                                         sent |-> 0, target |-> s]]
             /\ answers' = [answers EXCEPT ![c] = Append(@, Answer(ec, 0))]
             /\ UNCHANGED <<sockfd, open, listening, hung, ops, wire, lost>>

\* cancel, shutdownRead and shutdownWrite: the descriptor stays open, and an
\* error of ::shutdown changes nothing.
Cancel(s, dirs) ==
    /\ CancelOperations(sockfd[s], dirs)
    /\ UNCHANGED <<sockfd, open, listening, hung, op, wire, lost>>

TcpCancel(s) == s \in Tcp /\ Cancel(s, Dir)
shutdownRead(s) == s \in Tcp /\ Cancel(s, {"read"})
shutdownWrite(s) == s \in Tcp /\ Cancel(s, {"write"})

\* Acceptor::setup: open, then options, bind and listen, up to the first that
\* fails; whichever it is, the socket stays open, as after TcpOpen.
setup(s) == s \in Tcp /\ Reopen(s, TRUE)

----------------------------------------------------------------------------
(* UDPSocket. *)

UdpOpen(s) == s \in Udp /\ Reopen(s, FALSE)
UdpShutdown(s) == s \in Udp /\ Shut(s)
UdpRead(s, length) == s \in Udp /\ Async(s, "read", length, s)
UdpWrite(s, length) == s \in Udp /\ Async(s, "write", length, s)
UdpCancel(s) == s \in Udp /\ Cancel(s, Dir)
UdpShutdownRead(s) == s \in Udp /\ Cancel(s, {"read"})
UdpShutdownWrite(s) == s \in Udp /\ Cancel(s, {"write"})

----------------------------------------------------------------------------
(* The reactor calls a wrapper with SUCCESS.  Each wrapper removes its       *)
(* operation first, then does the system call, then answers.                *)

Ready(c, kind) ==
    /\ op[c].kind = kind
    /\ op[c].fd \in open \ hung
    /\ ops[op[c].fd][DirOf(kind)] = c

Removed(c) == Without(op[c].fd, {DirOf(op[c].kind)})
Answered(c, ec, n) == answers' = [answers EXCEPT ![c] = Append(@, Answer(ec, n))]

\* recv or recvfrom: some bytes (any number does: take the whole buffer), none
\* (the peer closed, or an empty datagram), or an error.
Receive(c, left) ==
    /\ Ready(c, "read")
    /\ ops' = left
    /\ \/ \E nread \in {0, op[c].length} : Answered(c, "SUCCESS", nread)
       \/ Answered(c, "ERRNO", 0)
    /\ UNCHANGED <<sockfd, kernel, op, wire, lost>>

\* Mutated: the operation is not removed before the callback.
readStays(c) ==
    /\ op[c].kind = "read" /\ op[c].target \in Tcp /\ op[c].fd \notin listening
    /\ Len(answers[c]) < MaxHup
    /\ Receive(c, ops)

read_op_wrap(c) ==
    /\ op[c].kind = "read" /\ op[c].target \in Tcp /\ op[c].fd \notin listening
    /\ Receive(c, Removed(c))

UdpReadWrap(c) ==
    /\ op[c].kind = "read" /\ op[c].target \in Udp
    /\ Receive(c, Removed(c))

\* The bytes of call c that a send of n bytes hands to the kernel.
Sent(c, n) == [i \in 1..n |-> <<c, op[c].sent + i>>]

\* send or sendto fails, or takes one of the counts of bytes of the rest of the
\* buffer; when some are left the wrapper is registered again, bound to what
\* is left and to the new count.
Transmit(c, counts) ==
    /\ Ready(c, "write")
    /\ \/ /\ Answered(c, "ERRNO", op[c].sent)
          /\ ops' = Removed(c)
          /\ UNCHANGED <<op, wire>>
       \/ \E nwrite \in counts :
             /\ wire' = [wire EXCEPT ![op[c].fd] = @ \o Sent(c, nwrite)]
             /\ op' = [op EXCEPT ![c].sent = @ + nwrite]
             /\ IF op[c].sent + nwrite # op[c].length
                THEN UNCHANGED <<ops, answers>>
                ELSE ops' = Removed(c) /\ Answered(c, "SUCCESS", op[c].sent + nwrite)
    /\ UNCHANGED <<sockfd, kernel, lost>>

\* Mutated: the rest is sent again from the start of the buffer.
writeFromStart(c) ==
    /\ op[c].kind = "write" /\ Ready(c, "write")
    /\ \E nwrite \in 1..op[c].length :
          /\ wire' = [wire EXCEPT ![op[c].fd] = @ \o Sent(c, nwrite)]
          /\ Len(wire[op[c].fd]) <= op[c].length
          /\ IF nwrite # op[c].length
             THEN UNCHANGED <<ops, answers>>
             ELSE ops' = Removed(c) /\ Answered(c, "SUCCESS", nwrite)
    /\ UNCHANGED <<sockfd, kernel, op, lost>>

\* Mutated: the count of bytes sent goes down.
writeCountsDown(c) ==
    /\ op[c].kind = "write" /\ Ready(c, "write")
    /\ \E nwrite \in 1..op[c].length :
          /\ op' = [op EXCEPT ![c].sent = @ - nwrite]
          /\ ops' = Removed(c)
          /\ Answered(c, "SUCCESS", op[c].sent - nwrite)
    /\ UNCHANGED <<sockfd, kernel, wire, lost>>

write_op_wrap(c) ==
    /\ op[c].kind = "write" /\ op[c].target \in Tcp
    /\ Transmit(c, 1..op[c].length - op[c].sent)

\* A datagram goes as a whole: the code for a rest is there and not reached.
UdpWriteWrap(c) ==
    /\ op[c].kind = "write" /\ op[c].target \in Udp
    /\ Transmit(c, {op[c].length})

\* accept stores the new descriptor, or -1, in the target's sockfd_, whatever
\* the target held by then.
accept_op_wrap(c) ==
    LET target == op[c].target IN
    /\ Ready(c, "accept")
    /\ op[c].fd \in listening
    /\ ops' = Removed(c)
    /\ \/ /\ sockfd' = [sockfd EXCEPT ![target] = Closed]
          /\ Answered(c, "ERRNO", 0)
          /\ UNCHANGED open
       \/ \E fd \in Fd \ open :
             /\ sockfd' = [sockfd EXCEPT ![target] = fd]
             /\ open' = open \cup {fd}
             /\ Answered(c, "SUCCESS", 0)
    /\ lost' = IF sockfd[target] \in open THEN lost \cup {sockfd[target]} ELSE lost
    /\ UNCHANGED <<listening, hung, op, wire>>

\* SO_ERROR tells how the connect ended.
connect_op_wrap(c) ==
    /\ Ready(c, "connect")
    /\ ops' = Removed(c)
    /\ \E ec \in {"SUCCESS", "ERRNO"} : Answered(c, ec, 0)
    /\ UNCHANGED <<sockfd, kernel, op, wire, lost>>

----------------------------------------------------------------------------
(* Hang-ups. *)

\* The peer resets the connection, or the socket was never connected.  It is
\* noticed only where an operation is registered.
PeerHangsUp(fd) ==
    /\ fd \in open \ (hung \cup listening)
    /\ Registered(fd, Dir) # {}
    /\ hung' = hung \cup {fd}
    /\ UNCHANGED <<sockfd, open, listening, ops, op, answers, wire, lost>>

\* EPOLLERR or EPOLLHUP: both wrappers get EFDHUP and pass it on, and both stay
\* registered; the next epoll_wait reports the same.
HupEvent(fd) ==
    /\ fd \in hung
    /\ Registered(fd, Dir) # {}
    /\ \A c \in Registered(fd, Dir) : Len(answers[c]) < MaxHup
    /\ answers' = Notify(Registered(fd, Dir), "EFDHUP")
    /\ UNCHANGED <<sockfd, kernel, ops, op, wire, lost>>

Init ==
    /\ sockfd = [s \in Socket |-> Closed]
    /\ open = {} /\ listening = {} /\ hung = {} /\ lost = {}
    /\ ops = [fd \in Fd |-> [d \in Dir |-> None]]
    /\ op = [c \in Call |-> Unbound]
    /\ answers = [c \in Call |-> <<>>]
    /\ wire = [fd \in Fd |-> <<>>]

UserCalls ==
    \E s \in Socket :
        \/ TcpOpen(s) \/ TcpShutdown(s) \/ TcpCancel(s) \/ setup(s)
        \/ shutdownRead(s) \/ shutdownWrite(s) \/ async_connect(s)
        \/ UdpOpen(s) \/ UdpShutdown(s) \/ UdpCancel(s)
        \/ UdpShutdownRead(s) \/ UdpShutdownWrite(s)
        \/ \E target \in Socket : async_accept(s, target)
        \/ \E length \in Length : \/ async_read(s, length) \/ async_write(s, length)
                                 \/ UdpRead(s, length) \/ UdpWrite(s, length)

Wrappers ==
    \E c \in Call : \/ read_op_wrap(c) \/ write_op_wrap(c)
                    \/ UdpReadWrap(c) \/ UdpWriteWrap(c)
                    \/ accept_op_wrap(c) \/ connect_op_wrap(c)

Next == UserCalls \/ Wrappers \/ \E fd \in Fd : PeerHangsUp(fd) \/ HupEvent(fd)

Spec == Init /\ [][Next]_vars

----------------------------------------------------------------------------
(* Properties. *)

TypeOK ==
    /\ sockfd \in [Socket -> Fd \cup {Closed}]
    /\ open \subseteq Fd /\ listening \subseteq open /\ hung \subseteq open /\ lost \subseteq Fd
    /\ ops \in [Fd -> [Dir -> Call \cup {None}]]
    /\ \A c \in Call : op[c] = Unbound
          \/ op[c] \in [kind : {"read", "write", "accept", "connect"}, fd : Fd \cup {Closed},
                       length : Nat, sent : Nat, target : Socket]

\* No call is forgotten and none is answered twice, by whatever mixture of
\* readiness, cancellation, shutdown and rejection: a call without an answer is
\* registered under the descriptor it was bound to, which is open, and only a
\* call whose earlier answers are all EFDHUP is answered again.
AnsweredOnce ==
    \A c \in Call :
        /\ op[c] # Unbound /\ answers[c] = <<>> =>
              op[c].fd \in open /\ c \in Registered(op[c].fd, Dir)
        /\ \A i \in 1..Len(answers[c]) - 1 : answers[c][i].ec = "EFDHUP"

\* The bytes of a write reach the kernel in order, without a gap and without
\* another call's bytes between them; the number reported, also with an error,
\* is the number handed over, and with SUCCESS it is the whole buffer.
WholeWrites ==
    /\ \A fd \in Fd : \A i \in DOMAIN wire[fd] :
          wire[fd][i][2] = 1 \/ (i > 1 /\ wire[fd][i - 1] = <<wire[fd][i][1], wire[fd][i][2] - 1>>)
    /\ \A c \in Call : op[c].kind = "write" => \A i \in DOMAIN answers[c] :
          /\ i = Len(answers[c]) => answers[c][i].n = op[c].sent
          /\ answers[c][i].ec = "SUCCESS" => answers[c][i].n = op[c].length

\* Every open descriptor belongs to exactly one object, but for the descriptors
\* the code is known to lose: the one a target held when accept stored another,
\* and the one kept after close failed.
OwnedOnce ==
    \A fd \in Fd \ lost :
        fd \in open => Cardinality({s \in Socket : sockfd[s] = fd}) = 1
=============================================================================
