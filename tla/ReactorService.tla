--------------------------- MODULE ReactorService ---------------------------
(***************************************************************************)
(* The epoll reactor of lcy::asio (asio/src/details/reactor_service.cc).   *)
(*                                                                         *)
(* One thread owns the reactor.  It alternates between library code and    *)
(* user code (the callbacks, and the program that calls loop_wait), and    *)
(* user code may call back into the reactor at any point, also from a      *)
(* callback that the reactor is in the middle of delivering.  The model    *)
(* keeps that call stack explicitly:                                       *)
(*                                                                         *)
(*   ctl = "user"   user code runs, called from the top frame of stack     *)
(*                  (stack = <<>>: the program outside loop_wait);         *)
(*   ctl = "code"   the first step of the top frame runs next;             *)
(*   ctl = "poll"   loop_wait is inside epoll_wait.                        *)
(*                                                                         *)
(* A frame is the work a library call has left: the events of a batch, the *)
(* callbacks of a cancellation, the close that follows it.                 *)
(*                                                                         *)
(* Descriptors are numbers that the kernel hands out again after a close.  *)
(* The map fd_opinfo_umap_ is keyed by the number and never loses an       *)
(* entry, so ops is a total function: an absent entry and an entry without *)
(* operations are told apart by nothing in the code.                       *)
(*                                                                         *)
(* Left out: the error code a callback receives (the reactor keeps none),  *)
(* EINTR (loop_wait polls again: a stuttering step), loop_wait called from *)
(* a callback, and the destructor.                                         *)
(***************************************************************************)
EXTENDS Integers, Sequences, FiniteSets

CONSTANTS
    Fd,        \* descriptor numbers
    Op,        \* operations (callbacks) the program registers
    NoOp,      \* an empty std::function
    InitCap,   \* initial size of event_array_ (128 in the code)
    MaxDepth   \* bound: library calls nested in callbacks

ASSUME FdAssumption == IsFiniteSet(Fd)   \* a process has finitely many descriptors
ASSUME NoOpAssumption == NoOp \notin Op
ASSUME InitCapAssumption == InitCap \in Nat \ {0}
ASSUME MaxDepthAssumption == MaxDepth \in Nat \ {0}

VARIABLES
    open,      \* descriptors the kernel has open
    epoll,     \* interest set: events monitored per descriptor, {} if not added
    ops,       \* fd_opinfo_umap_: the operation stored per descriptor and direction
    quit,      \* quit_
    cap,       \* event_array_.size()
    stack,     \* frames of pending library steps, the innermost call last
    ctl,       \* who runs
    status,    \* history: where each operation stands
    reentered, \* history: descriptors registered under a pending cancellation
    recycled   \* history: descriptors closed since the last epoll_wait

vars == <<open, epoll, ops, quit, cap, stack, ctl, status, reentered, recycled>>

Dir == {"read", "write"}
Other(dir) == IF dir = "read" THEN "write" ELSE "read"

----------------------------------------------------------------------------
(* Steps of a frame. *)

\* One entry of event_array_, with the directions still to be delivered.
EventStep == [kind : {"event"}, fd : Fd, dirs : SUBSET Dir]
\* OperationInfo::cancelReadOperation or cancelWriteOperation.
CancelStep == [kind : {"cancel"}, fd : Fd, dir : Dir]
\* ::close(fd).
CloseStep == [kind : {"close"}, fd : Fd]
\* The end of an iteration of loop_wait that received n events.
AgainStep == [kind : {"again"}, n : Nat]
Step == EventStep \cup CancelStep \cup CloseStep \cup AgainStep

Event(fd, dirs) == [kind |-> "event", fd |-> fd, dirs |-> dirs]
Cancel(fd, dir) == [kind |-> "cancel", fd |-> fd, dir |-> dir]
Close(fd) == [kind |-> "close", fd |-> fd]
Again(n) == [kind |-> "again", n |-> n]

Depth == Len(stack)
Top == stack[Depth]
WithTop(frame) == [stack EXCEPT ![Depth] = frame]

\* The next thing that runs is a library step of the given kind.
AtStep(kind) ==
    /\ ctl = "code"
    /\ stack # <<>>
    /\ Top # <<>>
    /\ Head(Top).kind = kind

\* User code may call a library function that calls back.
MayCall == ctl = "user" /\ Depth < MaxDepth

\* User code calls a function whose remaining work is the given frame.
Call(frame) ==
    /\ stack' = Append(stack, frame)
    /\ ctl' = "code"

\* User code calls a function that ends by running a callback.
CallBack ==
    /\ stack' = Append(stack, <<>>)
    /\ UNCHANGED ctl

\* A cancellation of (fd, dir) that some library call still has to perform.
PendingIn(frames, fd, dir) ==
    \E i \in DOMAIN frames : \E j \in DOMAIN frames[i] : frames[i][j] = Cancel(fd, dir)

PendingCancel(fd, dir) == PendingIn(stack, fd, dir)

----------------------------------------------------------------------------
(* The epoll instance. *)

\* EPOLL_CTL_ADD succeeds: an open descriptor not added yet (EBADF, EEXIST).
CanAdd(fd) == fd \in open /\ epoll[fd] = {}
\* EPOLL_CTL_MOD succeeds: a descriptor added before (EBADF, ENOENT).
CanModify(fd) == epoll[fd] # {}

hasOperation(fd) == \E dir \in Dir : ops[fd][dir] # NoOp

\* What is left monitored when (fd, dir) goes: a modify when the other
\* direction has an operation, a remove otherwise; errors are ignored.
Unmonitor(fd, dir) ==
    IF ops[fd][Other(dir)] # NoOp
    THEN IF CanModify(fd) THEN {Other(dir)} ELSE epoll[fd]
    ELSE {}

----------------------------------------------------------------------------
(* Calls user code makes.  Each is the whole function. *)

\* The callback runs at once with EOPEXISTS or with the errno of epoll_ctl.
Reject ==
    /\ CallBack
    /\ UNCHANGED <<open, epoll, ops, quit, cap, status, reentered, recycled>>

Accepts(fd, dir) ==
    /\ ops[fd][dir] = NoOp
    /\ IF ops[fd][Other(dir)] # NoOp THEN CanModify(fd) ELSE CanAdd(fd)

AcceptOperation(fd, dir, op) ==
    /\ epoll' = [epoll EXCEPT ![fd] =
                    IF ops[fd][Other(dir)] # NoOp THEN Dir ELSE {dir}]
    /\ ops' = [ops EXCEPT ![fd][dir] = op]
    /\ status' = [status EXCEPT ![op] = "waiting"]
    /\ reentered' = IF PendingCancel(fd, dir) THEN reentered \cup {fd} ELSE reentered
    /\ UNCHANGED <<open, quit, cap, stack, ctl, recycled>>

RegisterOperation(fd, dir, op) ==
    /\ MayCall
    /\ status[op] = "idle"
    /\ IF Accepts(fd, dir) THEN AcceptOperation(fd, dir, op) ELSE Reject

registerReadOperation(fd, op) == RegisterOperation(fd, "read", op)
registerWriteOperation(fd, op) == RegisterOperation(fd, "write", op)

\* read_op_ = {} (write_op_ = {}), or the swap with an empty function.
TakeOut(fd, dir) ==
    /\ ops' = [ops EXCEPT ![fd][dir] = NoOp]
    /\ status' = [status EXCEPT ![ops[fd][dir]] = "idle"]

ForgetAlwaysDelete(fd, dir) ==
    /\ epoll' = [epoll EXCEPT ![fd] = {}]
    /\ TakeOut(fd, dir)

ForgetStillMonitored(fd, dir) ==
    /\ UNCHANGED epoll
    /\ TakeOut(fd, dir)

\* A single operation leaves epoll and its slot.
Forget(fd, dir) ==
    /\ epoll' = [epoll EXCEPT ![fd] = Unmonitor(fd, dir)]
    /\ TakeOut(fd, dir)

\* The operation is dropped and its callback is never told.
RemoveOperation(fd, dir) ==
    /\ ctl = "user"
    /\ ops[fd][dir] # NoOp
    /\ Forget(fd, dir)
    /\ UNCHANGED <<open, quit, cap, stack, ctl, reentered, recycled>>

removeReadOperation(fd) == RemoveOperation(fd, "read")
removeWriteOperation(fd) == RemoveOperation(fd, "write")

\* The operation is swapped out and called with EOPCANCELED.
CancelOperation(fd, dir) ==
    /\ MayCall
    /\ ops[fd][dir] # NoOp
    /\ Forget(fd, dir)
    /\ CallBack
    /\ UNCHANGED <<open, quit, cap, reentered, recycled>>

cancelReadOperation(fd) == CancelOperation(fd, "read")
cancelWriteOperation(fd) == CancelOperation(fd, "write")

\* Both operations of fd leave the reactor without a word.
DropAll(fd) ==
    /\ ops' = [ops EXCEPT ![fd] = [dir \in Dir |-> NoOp]]
    /\ status' = [op \in Op |->
                    IF op \in {ops[fd][dir] : dir \in Dir} THEN "idle" ELSE status[op]]

removeAllOperations(fd) ==
    /\ ctl = "user"
    /\ hasOperation(fd)
    /\ epoll' = [epoll EXCEPT ![fd] = {}]
    /\ DropAll(fd)
    /\ UNCHANGED <<open, quit, cap, stack, ctl, reentered, recycled>>

CancelBoth(fd) == <<Cancel(fd, "read"), Cancel(fd, "write")>>
CancelBothThenClose(fd) == <<Cancel(fd, "read"), Cancel(fd, "write"), Close(fd)>>

cancelAllOperationsMonitored(fd) ==
    /\ MayCall
    /\ hasOperation(fd)
    /\ Call(CancelBoth(fd))
    /\ UNCHANGED <<open, epoll, ops, quit, cap, status, reentered, recycled>>

cancelAllOperations(fd) ==
    /\ MayCall
    /\ hasOperation(fd)
    /\ epoll' = [epoll EXCEPT ![fd] = {}]
    /\ Call(CancelBoth(fd))
    /\ UNCHANGED <<open, ops, quit, cap, status, reentered, recycled>>

\* TCPSocket::shutdown (UDPSocket::shutdown, ~SignalSet): cancelAllOperations,
\* then close.
shutdown(fd) ==
    /\ MayCall
    /\ fd \in open
    /\ IF hasOperation(fd)
       THEN /\ epoll' = [epoll EXCEPT ![fd] = {}]
            /\ Call(CancelBothThenClose(fd))
       ELSE /\ Call(<<Close(fd)>>)
            /\ UNCHANGED epoll
    /\ UNCHANGED <<open, ops, quit, cap, status, reentered, recycled>>

\* The operations stored for fd outlive the descriptor they were registered on.
Orphan(fd) ==
    [op \in Op |-> IF op \in {ops[fd][dir] : dir \in Dir} THEN "orphan" ELSE status[op]]

\* ~BridgeService (~TimerService): removeAllOperations, then close.
destroy(fd) ==
    /\ ctl = "user"
    /\ fd \in open
    /\ epoll' = [epoll EXCEPT ![fd] = {}]
    /\ DropAll(fd)
    /\ open' = open \ {fd}
    /\ reentered' = reentered \ {fd}
    /\ recycled' = recycled \cup {fd}
    /\ UNCHANGED <<quit, cap, stack, ctl>>

\* socket, accept, eventfd, ...: the kernel hands out a number that is free.
create(fd) ==
    /\ ctl = "user"
    /\ fd \notin open
    /\ open' = open \cup {fd}
    /\ UNCHANGED <<epoll, ops, quit, cap, stack, ctl, status, reentered, recycled>>

Quit ==
    /\ ctl = "user"
    /\ quit' = TRUE
    /\ UNCHANGED <<open, epoll, ops, cap, stack, ctl, status, reentered, recycled>>

----------------------------------------------------------------------------
(* loop_wait. *)

\* Called by the program; an earlier quit() is forgotten.
loop_wait ==
    /\ ctl = "user"
    /\ stack = <<>>
    /\ quit' = FALSE
    /\ stack' = << <<>> >>
    /\ ctl' = "poll"
    /\ UNCHANGED <<open, epoll, ops, cap, status, reentered, recycled>>

Monitored == {fd \in Fd : epoll[fd] # {}}

\* EPOLLERR and EPOLLHUP are reported whatever is monitored, and stand for
\* both directions.
Reportable(fd) == (SUBSET epoll[fd] \ {{}}) \cup {Dir}

\* epoll_wait returns at least one and at most cap descriptors, in any order.
epoll_wait ==
    /\ ctl = "poll"
    /\ \E n \in 1..cap : \E fds \in [1..n -> Monitored] :
          /\ \A i, j \in 1..n : i # j => fds[i] # fds[j]
          /\ \E dirs \in [1..n -> SUBSET Dir] :
                /\ \A i \in 1..n : dirs[i] \in Reportable(fds[i])
                /\ stack' = WithTop(Append([i \in 1..n |-> Event(fds[i], dirs[i])], Again(n)))
    /\ ctl' = "code"
    /\ recycled' = {}
    /\ UNCHANGED <<open, epoll, ops, quit, cap, status, reentered>>

FirstDir(dirs) == IF "read" \in dirs THEN "read" ELSE "write"

\* One direction of an entry of event_array_, the read first: the operation
\* stored now, if there is one, is called in place and stays stored.
doOperation ==
    /\ AtStep("event")
    /\ LET e == Head(Top)
           dir == FirstDir(e.dirs)
           rest == e.dirs \ {dir}
       IN /\ stack' = WithTop(IF rest = {} THEN Tail(Top)
                              ELSE <<Event(e.fd, rest)>> \o Tail(Top))
          /\ ctl' = IF ops[e.fd][dir] # NoOp THEN "user" ELSE ctl
    /\ UNCHANGED <<open, epoll, ops, quit, cap, status, reentered, recycled>>

nextIterationShrink ==
    /\ AtStep("again")
    /\ LET n == Head(Top).n
       IN cap' = IF n >= cap THEN n * 2 ELSE n \div 2
    /\ stack' = WithTop(Tail(Top))
    /\ ctl' = IF quit THEN ctl ELSE "poll"
    /\ UNCHANGED <<open, epoll, ops, quit, status, reentered, recycled>>

nextIterationAlwaysGrow ==
    /\ AtStep("again")
    /\ cap' = IF Head(Top).n > 0 THEN cap * 2 ELSE cap
    /\ stack' = WithTop(Tail(Top))
    /\ ctl' = IF quit THEN ctl ELSE "poll"
    /\ UNCHANGED <<open, epoll, ops, quit, status, reentered, recycled>>

\* The array grows when the batch filled it; the loop ends on quit_.
nextIteration ==
    /\ AtStep("again")
    /\ LET n == Head(Top).n
       IN cap' = IF n >= cap THEN n * 2 ELSE cap
    /\ stack' = WithTop(Tail(Top))
    /\ ctl' = IF quit THEN ctl ELSE "poll"
    /\ UNCHANGED <<open, epoll, ops, quit, status, reentered, recycled>>

----------------------------------------------------------------------------
(* Cancellation callbacks, close and returns. *)

doCancelInPlace ==
    /\ AtStep("cancel")
    /\ LET c == Head(Top)
       IN IF ops[c.fd][c.dir] # NoOp
          THEN status' = [status EXCEPT ![ops[c.fd][c.dir]] = "idle"] /\ ctl' = "user"
          ELSE UNCHANGED <<status, ctl>>
    /\ stack' = WithTop(Tail(Top))
    /\ UNCHANGED <<open, epoll, ops, quit, cap, reentered, recycled>>

\* The stored operation is swapped out and then called with EOPCANCELED.
doCancel ==
    /\ AtStep("cancel")
    /\ LET c == Head(Top)
       IN IF ops[c.fd][c.dir] # NoOp
          THEN TakeOut(c.fd, c.dir) /\ ctl' = "user"
          ELSE UNCHANGED <<ops, status, ctl>>
    /\ stack' = WithTop(Tail(Top))
    /\ UNCHANGED <<open, epoll, quit, cap, reentered, recycled>>

\* ::close(sockfd_): the kernel forgets the descriptor's entry in the interest
\* set, the reactor keeps whatever operations it stores for the number.
CloseDescriptor(fd) ==
    /\ open' = open \ {fd}
    /\ epoll' = [epoll EXCEPT ![fd] = {}]
    /\ status' = Orphan(fd)
    /\ reentered' = reentered \ {fd}
    /\ recycled' = recycled \cup {fd}

\* A shutdown that a cancellation callback called on the same socket has closed
\* the number already and left -1 in sockfd_: then there is nothing to close,
\* unless the callback opened the socket again under the same number.
doClose ==
    /\ AtStep("close")
    /\ LET fd == Head(Top).fd
       IN \/ CloseDescriptor(fd)
          \/ fd \in recycled /\ UNCHANGED <<open, epoll, status, reentered, recycled>>
    /\ stack' = WithTop(Tail(Top))
    /\ UNCHANGED <<ops, quit, cap, ctl>>

\* User code returns to the library call that invoked it.
callbackReturns ==
    /\ ctl = "user"
    /\ stack # <<>>
    /\ ctl' = "code"
    /\ UNCHANGED <<open, epoll, ops, quit, cap, stack, status, reentered, recycled>>

\* A library call that has nothing left to do returns to user code.
callReturns ==
    /\ ctl = "code"
    /\ stack # <<>>
    /\ Top = <<>>
    /\ stack' = SubSeq(stack, 1, Depth - 1)
    /\ ctl' = "user"
    /\ UNCHANGED <<open, epoll, ops, quit, cap, status, reentered, recycled>>

----------------------------------------------------------------------------

Init ==
    /\ open = {}
    /\ epoll = [fd \in Fd |-> {}]
    /\ ops = [fd \in Fd |-> [dir \in Dir |-> NoOp]]
    /\ quit = TRUE
    /\ cap = InitCap
    /\ stack = <<>>
    /\ ctl = "user"
    /\ status = [op \in Op |-> "idle"]
    /\ reentered = {}
    /\ recycled = {}

UserCall ==
    \/ \E fd \in Fd, op \in Op :
          \/ registerReadOperation(fd, op)
          \/ registerWriteOperation(fd, op)
    \/ \E fd \in Fd :
          \/ removeReadOperation(fd)
          \/ removeWriteOperation(fd)
          \/ cancelReadOperation(fd)
          \/ cancelWriteOperation(fd)
          \/ removeAllOperations(fd)
          \/ cancelAllOperations(fd)
          \/ shutdown(fd)
          \/ destroy(fd)
          \/ create(fd)
    \/ Quit
    \/ loop_wait

LibraryStep ==
    \/ epoll_wait
    \/ doOperation
    \/ nextIteration
    \/ doCancel
    \/ doClose
    \/ callReturns

Next == UserCall \/ LibraryStep \/ callbackReturns

Spec == Init /\ [][Next]_vars

----------------------------------------------------------------------------
(* Properties. *)

\* The types of the reactor's members, of the interest set and of the stack.
TypeOK ==
    /\ open \subseteq Fd
    /\ epoll \in [Fd -> SUBSET Dir]
    /\ ops \in [Fd -> [Dir -> Op \cup {NoOp}]]
    /\ quit \in BOOLEAN
    /\ cap \in Nat \ {0}
    /\ stack \in Seq(Seq(Step))
    /\ ctl \in {"user", "code", "poll"}
    /\ status \in [Op -> {"idle", "waiting", "orphan"}]
    /\ reentered \subseteq Fd
    /\ recycled \subseteq Fd

\* OperationInfo holds every accepted operation in exactly one slot until it is
\* removed or told EOPCANCELED, and holds nothing else: no registration is
\* overwritten, lost or called after it ended, whatever callbacks do
\* (the swap of cancelReadOperation and the EOPEXISTS check).
StoredExactlyWhileAccepted ==
    /\ \A fd \in Fd, dir \in Dir : ops[fd][dir] # NoOp => status[ops[fd][dir]] # "idle"
    /\ \A op \in Op : status[op] # "idle" =>
          \E fd \in Fd, dir \in Dir : ops[fd][dir] = op
    /\ \A fd1, fd2 \in Fd, dir1, dir2 \in Dir :
          ops[fd1][dir1] = ops[fd2][dir2] /\ ops[fd1][dir1] # NoOp
             => fd1 = fd2 /\ dir1 = dir2

\* An accepted operation on an open descriptor is never silently unmonitored:
\* epoll watches its direction, or a cancellation is about to call it.  The
\* ignored results of epoll_modify and epoll_remove never cost an event.
NoSilentOperation ==
    \A fd \in Fd, dir \in Dir :
       ops[fd][dir] # NoOp /\ status[ops[fd][dir]] = "waiting"
          => dir \in epoll[fd] \/ PendingCancel(fd, dir)

\* A descriptor in the interest set is monitored for exactly the directions
\* that have an operation (the choice between EPOLL_CTL_ADD, MOD and DEL relies
\* on it), as long as no callback registered a direction of the descriptor that
\* an enclosing cancelAllOperations had still to cancel.  Only open descriptors
\* are in the interest set.
MonitorsExactlyItsOperations ==
    \A fd \in Fd :
       /\ epoll[fd] # {} /\ fd \notin reentered
             => epoll[fd] = {dir \in Dir : ops[fd][dir] # NoOp}
       /\ epoll[fd] # {} => fd \in open

\* What a pending cancellation will call is no longer monitored, under the same
\* proviso: cancelAllOperations leaves epoll before it runs any callback, so no
\* event can reach an operation that is being cancelled.
CancelledIsUnmonitored ==
    \A fd \in Fd \ reentered, dir \in Dir : PendingCancel(fd, dir) => dir \notin epoll[fd]

\* The comment in cancelReadOperation and cancelWriteOperation: an operation that
\* a cancellation callback registers is not affected by what follows.  An
\* accepted registration below a pending cancellation would be taken by it.
ReRegistrationIsUnaffected ==
    \A fd \in Fd, dir \in Dir : PendingCancel(fd, dir) => dir \notin epoll[fd]

\* The comment in loop_wait: checking that the operation exists is enough for
\* events whose operation an earlier callback of the batch took away.  Then an
\* entry of event_array_ never reaches an operation of another descriptor that
\* took over the number after the entry was collected.
EventReachesItsDescriptor ==
    AtStep("event") =>
       LET e == Head(Top)
           op == ops[e.fd][FirstDir(e.dirs)]
       IN op # NoOp => e.fd \notin recycled

\* event_array_ grows past its first size only as far as twice the number of
\* descriptors: a full batch doubles the batch, never the array.
EventArrayBounded ==
    cap <= InitCap \/ cap <= 2 * Cardinality(Fd)
=============================================================================
