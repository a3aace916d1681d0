# A TLA+ model of lcy

lcy is a C++ network library for Linux: an epoll reactor with timers, tasks
posted from other threads, sockets and signals (`asio`), parsers for HTTP and
for a type-length-value format (`protocol`), and an RPC system over protobuf
(`rpc`). This directory holds TLA+ modules translated from its source, the TLC
configurations that check them on small instances, and proofs checked by TLAPS.

## 1. Inventory

| Component | State | Operations | Hard behaviour | What makes it correct |
|---|---|---|---|---|
| ReactorService | table descriptor -> read and write operation, epoll interest set, `quit_`, `event_array_` | register, remove, cancel (read, write, all), loop_wait, quit | callbacks call back into the reactor in the middle of a batch or of a cancellation; descriptor numbers are reused | table, interest set and accepted operations agree; each operation is called for its own events |
| BridgeService | `task_list_`, eventfd, `mutex_` | push, batch, execute | several producers and the loop thread | FIFO, exactly once, no lost wake-up |
| TimerService | ordered set of waits, index by id, timerfd, id counter | registerTimer, cancelTimer, expireTimerExecute | time passes inside calls, callbacks start and cancel waits while a batch runs | one callback per wait, in deadline order, timerfd armed for the first |
| SteadyTimer | `timer_id_` | async_wait, cancel, destructor | stale ids, re-arming from its own cancellation | cancels its own wait or nothing |
| IOContext | map of lazily created services, owner thread | use_service, post, batch, loop_wait, quit, destructor | first use from another thread, order of destruction | one instance per service; services die before the reactor |
| ThreadPool | threads with their contexts, `next_` | start, stop, nextContext | start/stop handshakes, compare-and-swap | stop ends every thread; contexts are handed out in turn |
| TCPSocket, Acceptor, UDPSocket, SignalSet | descriptor, one operation per direction in the reactor | async_*, cancel, shutdown* | partial sends, operations that stay registered after an error, close and reuse | one completion per call, whole writes, one owner per descriptor |
| DynamicBuffer | read and write index, vector | reserve, read, write, typed reads and writes | long sequences of growth and compaction | behaves as a queue of bytes |
| HTTP parser | parse state, offset, chunk state | parse, reset | input in arbitrary fragments | result independent of the cuts |
| TLV parser, integer encoding | tag, offset | parse, reset, encode, decode | fragments, least integers | result independent of the cuts; decode inverts encode |
| RPC Connection | send queue, read buffer | send, start_recv, completions, shutdown | completions with errors, shutdown from callbacks | bytes sent in order, one completion per message |
| RPC Channel, Server | pending calls by id; services, accept chain | CallMethod, onMessageOp; accept, answer | calls before connect, unknown ids, failed accepts | each call completes once |

How they interact. Everything but the producers of BridgeService runs on the
thread that calls `loop_wait`. The reactor calls the operations of its clients:
`execute` of the bridge (eventfd), `expireTimerExecute` of the timers (timerfd),
the wrappers of sockets and signals, and these call user code, which may call any
function of the library again. Other threads enter through `post` and `batch`.
ThreadPool runs one context per thread; the RPC server accepts on one context and
posts each connection to another.

`PROJECT.json` lists every component with its status, and the hazards with the
properties that would catch them.

## 2. Modules

| Module | Models | Kind |
|---|---|---|
| `ReactorService` | `asio/src/details/reactor_service.cc`, life of descriptors | component |
| `BridgeService` | `asio/src/details/bridge_service.cc`, `.ipp`, post and batch | component |
| `TaskQueue` | what post and batch promise | abstract specification |
| `TimerService` | `asio/src/details/timer_service.cc`, `asio/src/steady_timer.cc` | component |
| `ThreadPool` | `asio/src/thread_pool.cc`, life of the contexts in `asio/src/io_context.cc`, `.ipp` | component |
| `Sockets` | `asio/src/ip/details/tcp_socket.cc`, `udp_socket.cc`, `acceptor.cc` | component |
| `DynamicBuffer` | `asio/src/dynamic_buffer.cc`, and how `Connection` receives into it | component |
| `ByteQueue` | what DynamicBuffer promises | abstract specification |
| `HttpMessage`, `HttpParser` | `protocol/src/http/message.cc`, `request.cc`, `response.cc`, `parser.cc` | operators |
| `TlvParser`, `VariantEncode` | `protocol/src/tlv/parser.cc`, `message.cc`, `variant_encode.cc` | operators |
| `ParserCall`, `Numerals` | what the two parsers share: a call of `parse` and its returns; numbers in digits | operators |
| `ParserFeed` | a parser fed in pieces, as `examples/.../http_connection.cc` does | composition |
| `Rpc` | `rpc/src/channel.cc`, `server.cc`, `details/connection.cc`, `details/server.cc` | composition |
| `MCReactorService`, `MCBridgeService`, `MCTimerService`, `MCSockets`, `MCParserFeed`, `MCRpc` | values of the constants | model checking |
| `ReactorServiceProofs`, `BridgeServiceProofs`, `TimerServiceProofs`, `DynamicBufferProofs`, `ThreadPoolProofs`, `SocketsProofs`, `RpcProofs`, `ParserFeedProofs` | theorems | proofs |

A definition has the name of the function it models; `PROJECT.json` maps each to
its lines. Definitions named after another one with a suffix
(`executeMoveKeepsList`, `EraseKeepsIndex`), or said to be mutated, are faulty
variants, used to show that the properties can fail; no next-state relation uses
them.

### ReactorService

`ops` is `fd_opinfo_umap_`, `epoll` the kernel's interest set, `cap` the size of
`event_array_`, `open` the descriptors that exist. Re-entrancy is what is hard
here, so the call stack is state: `stack` holds, per active library call, the
steps it has still to make (entries of the batch, callbacks of a cancellation,
the close after it), and `ctl` says whether user code or the library runs. Each
public function is one action; a function that calls back more than once pushes a
frame. `epoll_wait` returns any nonempty set of monitored descriptors in any
order with any of their events, or an error that stands for both directions.
`status`, `reentered` and `recycled` are history for the properties.

### BridgeService and TaskQueue

Producers and the owner interleave at each access to shared state: taking the
mutex, each `emplace_back`, the write to the eventfd, the release; in `execute`
the lock, the reset, the move, the release, then the tasks one by one. The
eventfd has a limit at which writes fail, as the kernel's has; the kernel's is
2^64 - 2, which no program reaches, so `EventMax` is foremost a bound of the counter,
small enough that nothing can depend on how often it was written. `TaskQueue` is the
promise: a submission enters a FIFO queue as a whole, the owner runs the head.
The refinement maps the queue to the tasks moved out, followed by `task_list_`,
followed by what the holder of the mutex has still to append.

### TimerService

`timer_mset_` is a set of waits ordered by deadline and id (the multiset inserts
equal keys last and ids increase). Functions that arm the timerfd read the clock
again, and the model lets it advance between the two readings. The timerfd may
be reported in one batch with another descriptor whose callback runs first and
changes the waits (`otherEvent`, `expireTimerExecuteLate`). The kernel arms the
timerfd relative to the reading made by `update_timerfd`; the moment between that
reading and `timerfd_settime` is not modelled, it can only delay an expiry.

### ThreadPool

The owner, the threads of the pool and the clients interleave at each access to
what they share: `ioc_`, the semaphore, `next_`, `mutex_` of a context, its queue.
`post` is its three uses of locks (find or create the reactor, find or create the
bridge, push); only the creation of the bridge, whose constructor registers with
the reactor, takes time under the lock. The queue of a context is used as
`TaskQueue` promises it. A caller whose context has ended is "dangling" and takes
no further step, since what the code would do is undefined; `misuse` records the
two things a program can do to get there: use the pool while it is being stopped,
or quit the loop of a pool thread from a task. Everything else is unrestricted.

### Sockets

`sockfd` is `sockfd_` of each object, `open`, `listening` and `hung` what the
kernel knows of a descriptor, `ops` the reactor's table as ReactorService
promises it: one operation per direction, EOPEXISTS for a second one, EOPCANCELED
when cancelled, EFDHUP without removal while hung up. A call is bound to the
descriptor, the buffer and the count of bytes sent when it is made, as
`std::bind` does, and each wrapper is one action: remove the operation, make the
system call, answer or register the rest. `accept` stores its descriptor in the
target as it is when the event comes. `lost` records the descriptors the code
loses: the one a target held when accept stored another, and the one whose close
failed. Callbacks only record their answer here; those that call back into the
reactor while it cancels are in ReactorService.

### DynamicBuffer and ByteQueue

The vector and both indices as in the code; reserve as the three values it
leaves, so that a typed write is one action (reserve, copy, write). The typed
reads, writes and peeks differ only in their width. A receive is two steps, as in
`Connection`: the room behind `write_index_` is lent to the kernel, then
`write(nbytes)` counts what came. `ByteQueue` knows neither indices nor capacity.

### HttpParser, TlvParser, VariantEncode, ParserFeed

A call of `parse` is a record (`ParserCall`): the parser's members, the message,
where the part of the message began in this call (`base`), and the return code, or
that it is still parsing. `HttpTurn` and `TlvTurn` are one turn of the loop: a start
line, one header line, what has come of a plain body, one chunk, one trailer line,
one field of a TLV message. In the code the parts of HTTP have loops of their own,
whose offset `nparse` the outer loop adds when they return: on READY and on
WAITING_DATA, not on ERROR. The model counts each line and each chunk at once and
takes the sum back on an error (`Fail`), which comes to the same, since nobody looks
in between. The tag `TRAILER` stands for the inner loop over the trailer lines; no
call returns with it, which is just what the code forgets.

`ParseWith` takes as many turns as a call can need: all but two read two bytes at
least. It is a recursive function of the number of turns whose values are sets (of
one element), so that TLC and the prover read the same definition.

HTTP text is a sequence of symbols: words, blanks, colons, CR, LF and single
characters where the code looks at characters (bodies, chunk sizes); a TLV stream is
a sequence of bytes. Messages are written by the model of `dump`, so the parsers are
checked against what the library itself writes, in addition to malformed input and to
chunked bodies, which `dump` does not write. A stream says which messages its bytes
write and where each ends; `StreamsAssumption` is that this is what the parser finds
when all of it is there at once, and TLC evaluates it on every stream.

`ParserFeed` delivers the stream byte by byte and calls parse on what is unread after
any number of bytes, or again after none; a piece of several bytes is as many steps
with no call between them. On READY it drops `nparse()` bytes and resets. The example
parses once per read; the model also parses again without a read in between.
`Untrailed` tells the streams none of whose chunked messages has trailer lines;
`TrailersAssumption` checks that of the streams of both runs. Integer encodings keep
their width (`% 2^w`, and `IntBits` for the promotion to int).

### Rpc

A channel and its server over one TCP stream. A Connection is a record: the state
of its socket, what is registered, how much of the front message is written, the
queue, what is read and not cut yet. Its functions are functions of the record, so
that a handler that calls several of them is one action. The socket answers as
`Sockets` says; a refusal (EOPEXISTS while the connect is registered, EBADF when
closed) comes back synchronously, pops the message and tries the next, so that
the whole queue goes. A connection of the server lives as long as something is
registered or posted for it (`Kept`). `Stop` closes them all. `astray` holds the
connections that have met undefined behaviour: a pop of an empty deque when
EFDHUP is delivered again, a response nobody waits for, a length read off its
place after a failed send, a queue of two while the reactor is destroyed; the
model follows them no further. `trouble`, `early`, `called` and `done` are history.

## 3. Runs

| Run | Question | Bounds | Distinct states |
|---|---|---|---|
| `reactor` | do table, interest set and accepted operations agree, whatever callbacks do? | 2 descriptors, 3 operations, depth 3, array of 1 | 2.0 million |
| `reactor_reentry` | is an operation registered by a cancellation callback left alone? | the same | violated |
| `reactor_recycled` | does a batch entry reach only its own descriptor? | the same | violated |
| `bridge` | FIFO, mutual exclusion, wake-ups, progress | 2 producers, 3 tasks, batches of up to 2, eventfd limit 2, 4 calls | 11 thousand |
| `timer` | one callback each, in order, timerfd armed, progress | 2 timers (timeouts 0 and 2), 3 waits, clock up to 5, depth 3 | 124 thousand |
| `thread_pool` | do start and stop end, are contexts alive and handed out in turn, are services made once, are earlier tasks run? | 2 threads, 2 clients, 2 starts, 2 calls of nextContext | 218 thousand |
| `thread_pool_empty` | does a pool have threads? | no threads | violated |
| `sockets` | is each call answered once, are writes whole, do descriptors have one owner? | 2 TCP sockets, 1 UDP socket, 2 descriptors, 2 calls, buffers of 2 bytes, 2 hang-up events, 1 failed close | 991 thousand |
| `dynamic_buffer` | is the buffer a queue of bytes, does reserve make room? | 2 bytes, widths 1 and 2, expansion 2, vector up to 7 | 216 thousand |
| `parsers` | is the result independent of the cuts, does everything get parsed, do numbers read back? | 109 streams of up to 3 messages | 16 thousand |
| `http_trailers` | the same for a chunked message with a trailer | one stream | violated |
| `rpc` | do queues move, do messages stay framed, is each call answered by its own response, do calls complete? | 1 channel, 2 calls of 3 kinds, 1 failure besides accept and stop, length of 2 bytes, messages of 1 and 2 | 632 thousand |

Why the bounds are enough. Reactor: two descriptors make a batch with two
entries and a reuse of a number, three operations make two on one descriptor and
one more registered by a callback, depth 3 a cancellation inside a cancellation
inside the loop; the array of one entry makes the growth happen. Bridge: two
producers and a limit of 2 make the saturation happen; batches are empty, of one
and of two tasks. Timer: a timeout of 0 and one of 2 make equal deadlines, a
batch of two and a wait started by a callback that has expired already. Thread
pool: two clients meet in the compare-and-swap loop, a client and stop meet at the
first use of a context, `next_` wraps around, and the pool is started again.
Sockets: two descriptors and three objects make a number pass from one object to
another; two calls meet on one descriptor in the same or in both directions, a
buffer of 2 bytes is sent in one or two pieces. Buffer: the vector grows three
times, and every combination of the two indices occurs below 7. Parsers: a stream
of two HTTP messages has the end of one and the start of the next in one piece;
the numbers are the edges of a type that is promoted to int and of one that is
not. Rpc: two messages make a queue with one waiting, and batches of two in one
read; the length is cut in the middle. Channels meet only at the acceptor, whose
failures `trouble` marks for all of them, so one is enough.

`CHECK_DEADLOCK FALSE` appears because all these systems may really stop:
`epoll_wait` blocks without a timeout, and the bounded calls run out.

The four violated runs, which disagree with comments and messages of the source:

- `reactor_reentry`: the callback of the read half of `cancelAllOperations`
  registers a write operation. It is accepted, and the write half of the same
  call then cancels it and leaves the descriptor in epoll without an operation.
- `reactor_recycled`: a callback closes a descriptor of the batch, a new
  descriptor takes its number and registers; the old entry is delivered to it.
- `thread_pool_empty`: the constructor compares an unsigned number with 0, so the
  pool without threads that its message rules out is built, started, and divides
  by zero in `nextContext`.
- `http_trailers`: the parser consumes the line of the last chunk, and each
  trailer line, before the rest has come, and forgets that it is past the chunks:
  the next call takes what follows for the size of a chunk and reports an error.
  In one piece the same bytes parse.

`MonitorsExactlyItsOperations` and `CancelledIsUnmonitored` state what does hold
outside the first case.

What the passing runs show of behaviours no comment settles: a call is answered
with EFDHUP again on every iteration while its descriptor is hung up and only
then more than once (`AnsweredOnce`); the write queue of a Connection gets stuck
or is popped when empty only after a hang-up (`QueueMoves`); a message may be cut
short only by a failed send (`Framed`); calls made before the connect completed
are dropped, which is why `CallsComplete` is about the others; a response whose
description has two words (404 Not Found), which `Response::dump` writes, is an
error to the parser, and one of the malformed streams of `parsers`.

Some properties leave out a case in which the code does go wrong and no comment,
assertion or test says that it must not. They name the case, and do not cover it:

| Property | Leaves out |
|---|---|
| `StoredExactlyWhileAccepted` | an operation that a callback of `shutdown` registers just before the close: it stays in the table, orphaned |
| `LostOnlyByOverwrite` | the wait whose id `cancel` overwrites with -1 |
| `UsesLiveContexts` | using the pool while it is stopped; a task that quits the loop of its pool thread |
| `ServicesAreMadeSafely` | contexts outside a pool on which sockets or timers were used before the first post |
| `AnsweredOnce`, `QueueMoves` | a call answered with EFDHUP again and again; a connection that hung up |
| `OwnedOnce` | the descriptor a target of accept held; the one whose close failed |
| `SameHoweverCut`, `AllIsParsed` | a description of two words: such a response counts as malformed |
| `NumbersReadBack` | the least number of a type as wide as int or wider |
| `CallsComplete` | calls made before the connect completed; channels that were refused, failed (accept, setup, send, receive), hung up or were shut down, or whose server stopped |

Two behaviours of SteadyTimer that no comment settles are visible in the model:
a wait already taken into the batch cannot be cancelled and still gets SUCCESS
(`cancelNothing`), and a wait started by the callback that receives EOPCANCELED
loses its id when `cancel` stores -1. `LostOnlyByOverwrite` shows that the second
is the only way for a pending wait to lose its id.

Fairness. `bridge`: the scheduler runs a thread that can run and tasks end (weak
fairness for the owner's steps and for each producer inside its critical
section; the mutex is held for finitely many steps and there are finitely many
calls). Nothing forces calls or the entry into `loop_wait`, so the liveness
properties allow for a program outside `loop_wait`. `timer`: the clock advances,
the loop handles a readable timerfd, and callbacks return; the last is strong
fairness per depth, because a callback that keeps making calls is not always at
the point where it could return. `thread_pool`: weak fairness for each thread and
for the owner inside start and stop, and for clients inside `post`, which hold a
mutex for finitely many steps. `parsers`: the peer sends what it has and the
receiver parses what it gets. `rpc`: epoll is level-triggered, so a readable or
writable descriptor with an operation is reported until the wrapper has run, a
pending connection is accepted, a posted task runs (shown by `bridge`); nothing is
assumed of callers, of the connect or of failures.

## 4. Proofs

Checked by TLAPS for every value of the constants, from the named assumptions of
the modules only.

`ReactorServiceProofs`: `TypeCorrect`, `OperationsAreAccounted`,
`OperationsAreNeverSilent`, `MonitoringAgrees`, `CancellationIsUnmonitored`,
`ArrayIsBounded`. The inductive invariant of the first five is `IInv == TypeOK /\ LoopFrame /\ Safe`: the four safety
properties are inductive only together (a modify succeeds because the interest
set agrees with the table, and it agrees because cancelled operations are
unmonitored), and `LoopFrame` says that `loop_wait` polls with no library work
outstanding and that the end of an iteration is the last step of its frame. The
lemmas on frames say which cancellations are pending after a push, a step or a
return. For `ArrayIsBounded` it is `Bounded`: no batch on the stack that may still
double the array has more entries than there are descriptors. A batch names each
descriptor once, so that is a bound on the length of an injective sequence; it is
where `FdAssumption` (finitely many descriptors) is used.

`BridgeServiceProofs`: `TypeCorrect`, `MutualExclusion`, `WakeupsAreNotLost`,
`Refinement`, `OrderIsKept`. The inductive invariant adds `Positions` to the
checked properties: a producer has tasks to append only while it appends, and
the owner holds tasks only between the move and the return; without it the move
could overwrite tasks and the release of the mutex forget some. Each action is
then a step of `TaskQueue` or none, which gives the refinement, and the order of
tasks follows from the queue's.

`TimerServiceProofs`: `TypeCorrect`, `IndexIsExact`, `TimerfdFollowsFirst`,
`ExactlyOneCallback`, `ExpiryIsOrdered`, `CancelReachesItsOwn`,
`WaitsStayReachable`. The inductive invariant is `IInv == TypeOK /\ ExpireFrame /\
Safe`. Besides the checked properties it has `IdsAreFresh` (ids of pending and
expired waits are distinct and below `id_allocator_`, as are the ids that
SteadyTimers remember), from which follow that a stale `timer_id_` never names a
new wait and that equal deadlines keep their order, and `ExpireFrame` (expired
waits are outstanding only while `expireTimerExecute` is the outermost call),
without which a second batch could overwrite the first. That a nonempty set of
waits has a first element is proved from the well-foundedness of the natural
numbers; the lemmas on `First` say when adding or removing a wait leaves it in
place, which is why arming the timerfd only when the first wait changes is enough.

`DynamicBufferProofs`: `IndicesAreSound`, `BufferIsAQueue`. `BufferOK` is inductive
as it stands. `ReserveFacts` is the heart: whether reserve moves, grows or does
nothing, the indices enclose the same bytes and more room than asked for is left
(a multiple of `expand_size_` above the size, `Multiple`). The refinement then
compares windows of the vector: a move is the same window elsewhere
(`SameWindow`), a store behind a window leaves it alone (`OverlayFacts`), and what
a read returns is a window of the window (`InnerWindow`).

`SocketsProofs`: `SocketTypes`, `EveryCallAnsweredOnce`, `WritesAreWhole`,
`DescriptorsHaveOneOwner`, for any sockets, descriptors, calls and buffers, from
`SocketAssumption` (TCP and UDP objects differ), `FdAssumption` (-1 is no
descriptor), `CallsAssumption` and `LengthAssumption` (buffers are not empty). The
base of the inductive invariant is `Bound`: what the reactor holds for a descriptor
and a direction is the call that was bound to both, and the descriptor is open. A
call is then pending in one place at most. `Answering` follows it to its answer: it
is pending until the first one, and afterwards only while its descriptor is hung
up; without the last clause a second answer could not be told from a repeated
EFDHUP. `Reporting` and `Wires` relate the count a wrapper carries to what was told
and to the end of the byte stream, since a write goes on only behind its own last
byte; `Owners` allows two objects to share only a descriptor the code has lost.
Each step is shown to give every call one of five fates (`Fate`: untouched, bound,
sent further, told of a hang-up, answered and removed), and the invariant is shown
for each fate.

`ThreadPoolProofs`: `PoolTypes`, `LiveContextsUsed`, `RoundRobin`,
`ServicesMadeSafely`, `EarlierTasksAreRun`, for any number of threads, clients,
starts and calls, from `ThreadNumAssumption`, `OwnerAssumption` (the owner is not a
client) and `PoolBoundsAssumption`; a pool without threads is included. `Places` and
`Threads` tell from where the owner is which threads exist and which have published
their context; `Creators` that a service is created by one caller at a time;
`Quitting` that a loop ends only by a task that quits and what came after it is
late; `Gentle` what a program that does not misuse the pool may be doing. A first
version was not inductive: the step of the owner past `sem_wait` needs that the
semaphore of the thread it waits for is at most 1, which is now part of `Threads`.
`Turn` says exactly how often each context was handed out, which gives the
difference of at most one.

`RpcProofs`: `QueuesMove`, `StreamsAreFramed`, `AnswersAreOwn`, for any channels,
methods and requests, any number of calls and failures and any length of the
header, from `HeaderAssumption`. The hard part is that a Closure runs at most once
although a failed send may leave half a message in the stream. A call's id passes
through five places: the client's deque, the stream to the server, the server's
deque, the stream back, and `done`. `Lanes` says that four numbers separate their
ids and that each place has them in increasing order. A message counts as being in
a stream by its first byte, because that is where a sound cut starts; so the
invariant needs nothing about soundness, and holds after failed sends too.
`Contents` says that what is under way is what was asked, or its answer; `Framing`
that a stream is whole messages and then what the sender has written of the front
one, unless a send failed; `Queues` that deque and registered write go together;
`NotYet` that services change only before anything has been answered; `Blamed`
where undefined behaviour comes from. The steps that move no message are settled
by one lemma (`Quietly`): connections may change only by losing the front of their
deque (`Eased`) and not in what is being written (`Undisturbed`). Writing, reading
and calling are proved on their own.

`Cut` and `Replied` are recursive functions. What they compute is proved here by
induction all the same: a nonempty set of natural numbers has a least element
(`LeastNumber`, from the library's `WFMin`), which gives an induction for a set
(`Downward`, `Upward`) instead of a predicate. `CutFacts` and `ReplyExists` show
that the recursions have solutions; `CutJoin` that cutting a longer stream goes on
where the shorter one stopped, which is why reading in pieces changes nothing;
`CutPositions` that what is cut starts at first bytes, in order. The proof also
showed that `onConnectionMessage` was written with overlapping arms of a CASE, of
which TLA+ may take any and TLC takes the first; it is now the chain of tests that
the code has.

`ParserFeedProofs`: `SameMessagesHoweverCut`, `NumbersAreReadBack`,
`EveryCallReturns`, `StreamsAreFollowed`, for every set of streams, from
`StreamsAssumption`: in one piece a stream parses to its messages and then to nothing
more, or to an error. What is proved is that cutting changes none of this: the
messages and their order, the bytes that `nparse()` counts, where an error comes, and
that none comes early. The streams are of any length, the messages any that the
parsers accept, and the theorem is about the tests of the code as they are (which
lines split, which sizes are numbers), not about a list of examples.

- The inductive invariant `FeedInv`. `SameHoweverCut` is about what has been found;
  it says nothing of a parser that waits with half a message, and so is not
  inductive. `FeedInv` adds `GoesOn`: the next call comes to what a call of a fresh
  parser comes to on everything behind the last message (`Resumes`: after some number
  of turns of that call, the two are in states that agree, and stay so). At READY the
  message is then the one of the whole stream, by `StreamsAssumption`.
- A turn. `HttpLeads` and `TlvLeads`: it leaves the types right and either returns,
  or is two bytes further, or is one of two turns that read nothing. `HttpAgrees` and
  `TlvAgrees`: unless it waits, it does the same when more data follows, since every
  test looks at bytes that are there. `HttpResumes` and `TlvResumes`: if it waits, the
  first turn of the next call does what this turn would have done with all the data.
  The hard case is the plain body, which takes what there is before it waits: the two
  appends have to come to the one.
- Calls. `RunEnds` and `ReturnsOnce` follow from the measure: a call has returned
  after `Len(data) \div 2 + 2` turns, with one result. That is `EveryCallReturns`, and
  it holds for every stream: no input makes `parse` loop or count bytes it was not
  given. `RunsGoAlong` and `WaitingResumes` carry agreement and resumption from turns
  to calls.
- Trailers. `HttpResumes` fails in one place, the one that `http_trailers` shows: a
  call that waits behind the last chunk. The theorem therefore supposes
  `Untrailed(stream)`. A message that ends with the empty line right behind the last
  chunk is covered: the code waits for that line together with the last chunk, and
  the proof shows it (`TrailersFit`). TLV streams are all untrailed (`TlvUntrailed`).
- Numbers. `ZigzagReadsBack`, `VariantReadsBack` and `SignedReadsBack` hold for every
  width in bits, any buffer of at least `BUFLEN` bytes and any width of int. The
  hypothesis `Defined` leaves out the one value whose negation C++ does not define.
  The number the decoder sums up is at each byte the low end of the number encoded
  (`SumsAreLowEnds`: seven bits extend a remainder by 128^k to one by 128^(k + 1)),
  and the last byte is the only one without the mark, so the decoder stops where the
  encoder did. The prover knows `b^n` only of literals, so powers are a function of
  the exponent (`Power`) whose laws are proved here. `NumbersAreReadBack` puts this
  behind the parser: what arrives in the value of a TLV message is the number sent.

As in `RpcProofs`, induction over the turns of a call and over exponents is by the
least number of a set that is not empty (`LeastNumber`, from the library's `WFMin`).

Only model-checked: liveness (`TasksAreRun`, `WakeupsAreConsumed`, `WaitsEnd`,
`HandshakesEnd`, `AllIsParsed`, `CallsComplete`), which the prover does not do. Every
invariant and every action property of the passing runs is proved, `SameHoweverCut`
for the streams without trailer lines, as all of its passing run are; for the others
it is false (`http_trailers`).

## 5. Not modelled

- SignalSet: a wait on a signalfd goes through the reactor as a socket's read
  does; what is its own is the signal mask of each thread of the process, which no
  other part of the library reads or sets.
- The destructors of ReactorService and TimerService, but for what they do to the
  connections of an RPC server; `loop_wait` called from a callback.
- A service that runs its Closure after CallMethod returned, and a service
  registered while the server runs: the first uses deleted objects, the second a
  table without a lock.
- Numbers at the limits of the machine: 64-bit ids that wrap around, chunk sizes
  beyond size_t, content lengths beyond int or with a sign, the least value of an integer as wide as int
  or wider, whose negation is undefined.
- Reuse of descriptor numbers in `Rpc`: ReactorService and Sockets have it.
- The text of errors and of `tcpInfo`, addresses, socket options, the servlet
  table (a map from path to function), plain setters, protobuf's generated code.

## 6. What could come next

Every safety property of the passing runs is proved. What is left is outside the
modules there are:

1. `SignalSet`, with the masks of the threads of a ThreadPool.
2. The destructors of ReactorService and TimerService, which run callbacks, or drop
   them, while the tables they walk may change.
3. A service that runs its Closure after CallMethod has returned.
