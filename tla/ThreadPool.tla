----------------------------- MODULE ThreadPool -----------------------------
(***************************************************************************)
(* ThreadPool (asio/src/thread_pool.cc) and the life of the IOContexts it  *)
(* runs (asio/src/io_context.cc, io_context.ipp).                          *)
(*                                                                         *)
(* The owner creates, starts, stops and destroys the pool.  Each thread of *)
(* the pool has an IOContext on its stack and runs its loop.  Clients are  *)
(* other threads, which take contexts from nextContext and post to them.   *)
(* The owner posts too: stop posts a task that calls quit.                 *)
(*                                                                         *)
(* post follows pointers to the context, so a context that ends under a    *)
(* call leaves the caller "dangling": what happens then is undefined and   *)
(* that caller takes no further step.  misuse records what makes this      *)
(* possible: a client that uses the pool while it is being stopped, or a   *)
(* task that quits the loop of a pool thread by itself.                    *)
(*                                                                         *)
(* The queue of a context is the one of TaskQueue: a post is one step, and *)
(* execute takes the whole list.  Left out: post from the context's own    *)
(* thread, which calls the task directly; stop from a pool thread, which   *)
(* would join itself; calls of start and stop that return at once.         *)
(***************************************************************************)
EXTENDS Integers, Sequences

CONSTANTS
    ThreadNum, \* thread_num
    Client,    \* threads that use the pool
    Owner,     \* the thread that owns it
    MaxStarts, \* bound: calls of start
    MaxCalls   \* bound: calls of nextContext

ASSUME ThreadNumAssumption == ThreadNum \in Nat
ASSUME OwnerAssumption == Owner \notin Client
ASSUME PoolBoundsAssumption == MaxStarts \in Nat /\ MaxCalls \in Nat

Thread == 0..(ThreadNum - 1)
Poster == Client \cup {Owner}
Task == [kind : {"work", "quit"}, late : BOOLEAN]

VARIABLES
    is_start,  \* is_start_
    next,      \* next_
    main,      \* what the owner does
    index,     \* i in start and stop
    deleting,  \* stop was called by the destructor
    ioc,       \* is ioc_ of each Thread set?
    sem,       \* sem_ of each Thread
    thread,    \* what each thread of the pool does
    services,  \* id_service_umap_ of each context, in the order of creation
    quit,      \* quit_ of the context's reactor
    task_list, \* tasks posted and not taken
    batch,     \* tasks taken by execute and not run
    at,        \* what each client does, and the owner inside post
    ctx,       \* current in nextContext, then the context it returned
    kind,      \* the task that the poster posts
    calls,     \* history: calls of nextContext
    starts,    \* history: calls of start
    handed,    \* history: how often each context was handed out
    quitting,  \* history: was a task that quits posted to the context?
    misuse     \* history: see above

pool == <<is_start, next>>
owner == <<main, index, deleting>>
context == <<services, quit, task_list, batch>>
posters == <<at, ctx, kind>>
history == <<calls, starts, handed, quitting, misuse>>

vars == <<pool, owner, ioc, sem, thread, context, posters, history>>

----------------------------------------------------------------------------
(* use_service. *)

Exists(k, s) == \E n \in DOMAIN services[k] : services[k][n] = s

\* Is mutex_ of the context held?  Only the creation of a BridgeService, which
\* registers with the reactor, takes time here.
Locked(k) == \E p \in Poster : at[p] = "create" /\ ctx[p] = k

\* The reactor is created on first use, with quit_ set.
use_service_reactor(k) ==
    /\ ~ Locked(k)
    /\ IF Exists(k, "reactor")
       THEN UNCHANGED <<services, quit>>
       ELSE /\ services' = [services EXCEPT ![k] = Append(@, "reactor")]
            /\ quit' = [quit EXCEPT ![k] = TRUE]

----------------------------------------------------------------------------
(* post, in the steps of its use of mutex_. *)

postReactor(p) ==
    /\ at[p] = "reactor"
    /\ use_service_reactor(ctx[p])
    /\ at' = [at EXCEPT ![p] = "find"]
    /\ UNCHANGED <<pool, owner, ioc, sem, thread, task_list, batch, ctx, kind, history>>

findBridgeUnlocked(p) ==
    /\ at[p] = "find"
    /\ at' = [at EXCEPT ![p] = IF Exists(ctx[p], "bridge") THEN "push" ELSE "create"]
    /\ UNCHANGED <<pool, owner, ioc, sem, thread, context, ctx, kind, history>>

findBridge(p) ==
    /\ at[p] = "find"
    /\ ~ Locked(ctx[p])
    /\ at' = [at EXCEPT ![p] = IF Exists(ctx[p], "bridge") THEN "push" ELSE "create"]
    /\ UNCHANGED <<pool, owner, ioc, sem, thread, context, ctx, kind, history>>

createBridge(p) ==
    /\ at[p] = "create"
    /\ services' = [services EXCEPT ![ctx[p]] = Append(@, "bridge")]
    /\ at' = [at EXCEPT ![p] = "push"]
    /\ UNCHANGED <<pool, owner, ioc, sem, thread, quit, task_list, batch, ctx, kind, history>>

push(p) ==
    /\ at[p] = "push"
    /\ task_list' = [task_list EXCEPT ![ctx[p]] =
                        Append(@, [kind |-> kind[p], late |-> quitting[ctx[p]]])]
    /\ quitting' = [quitting EXCEPT ![ctx[p]] = @ \/ kind[p] = "quit"]
    /\ at' = [at EXCEPT ![p] = "idle"]
    /\ main' = IF p = Owner THEN "join" ELSE main
    /\ UNCHANGED <<pool, index, deleting, ioc, sem, thread, services, quit, batch, ctx, kind,
                   calls, starts, handed, misuse>>

Post(p) == postReactor(p) \/ findBridge(p) \/ createBridge(p) \/ push(p)

----------------------------------------------------------------------------
(* A thread of the pool. *)

\* Constructs the context and publishes it.
threadMain(k) ==
    /\ thread[k] = "created"
    /\ thread' = [thread EXCEPT ![k] = "publish"]
    /\ services' = [services EXCEPT ![k] = <<>>]
    /\ task_list' = [task_list EXCEPT ![k] = <<>>]
    /\ quitting' = [quitting EXCEPT ![k] = FALSE]
    /\ ioc' = [ioc EXCEPT ![k] = TRUE]
    /\ UNCHANGED <<pool, owner, sem, quit, batch, posters, calls, starts, handed, misuse>>

sem_post(k) ==
    /\ thread[k] = "publish"
    /\ thread' = [thread EXCEPT ![k] = "enter"]
    /\ sem' = [sem EXCEPT ![k] = @ + 1]
    /\ UNCHANGED <<pool, owner, ioc, context, posters, history>>

\* IOContext::loop_wait looks up the reactor, whose loop_wait clears quit_.
enterLoop(k) ==
    /\ thread[k] = "enter"
    /\ use_service_reactor(k)
    /\ thread' = [thread EXCEPT ![k] = "wait"]
    /\ UNCHANGED <<pool, owner, ioc, sem, task_list, batch, posters, history>>

loop_wait(k) ==
    /\ thread[k] = "wait"
    /\ quit' = [quit EXCEPT ![k] = FALSE]
    /\ thread' = [thread EXCEPT ![k] = "poll"]
    /\ UNCHANGED <<pool, owner, ioc, sem, services, task_list, batch, posters, history>>

\* epoll_wait reports the eventfd of the bridge.
execute(k) ==
    /\ thread[k] = "poll"
    /\ task_list[k] # <<>>
    /\ batch' = [batch EXCEPT ![k] = task_list[k]]
    /\ task_list' = [task_list EXCEPT ![k] = <<>>]
    /\ thread' = [thread EXCEPT ![k] = "run"]
    /\ UNCHANGED <<pool, owner, ioc, sem, services, quit, posters, history>>

\* A task that quits looks up the reactor again.
runTask(k) ==
    /\ thread[k] = "run"
    /\ batch[k] # <<>>
    /\ batch' = [batch EXCEPT ![k] = Tail(@)]
    /\ IF Head(batch[k]).kind = "quit"
       THEN ~ Locked(k) /\ quit' = [quit EXCEPT ![k] = TRUE]
       ELSE UNCHANGED quit
    /\ UNCHANGED <<pool, owner, ioc, sem, thread, services, task_list, posters, history>>

endOfBatchStops(k) ==
    /\ thread[k] = "run"
    /\ batch[k] = <<>> \/ quit[k]
    /\ thread' = [thread EXCEPT ![k] = IF quit[k] THEN "leave" ELSE "poll"]
    /\ UNCHANGED <<pool, owner, ioc, sem, context, posters, history>>

\* loop_wait looks at quit_ only after the whole batch.
endOfBatch(k) ==
    /\ thread[k] = "run"
    /\ batch[k] = <<>>
    /\ thread' = [thread EXCEPT ![k] = IF quit[k] THEN "leave" ELSE "poll"]
    /\ UNCHANGED <<pool, owner, ioc, sem, context, posters, history>>

leave(k) ==
    /\ thread[k] = "leave"
    /\ ioc' = [ioc EXCEPT ![k] = FALSE]
    /\ thread' = [thread EXCEPT ![k] = "destroy"]
    /\ UNCHANGED <<pool, owner, sem, context, posters, history>>

\* ~IOContext, with the tasks that nobody took.  Who still uses it dangles.
destroyContext(k) ==
    /\ thread[k] = "destroy"
    /\ task_list' = [task_list EXCEPT ![k] = <<>>]
    /\ services' = [services EXCEPT ![k] = <<>>]
    /\ thread' = [thread EXCEPT ![k] = "done"]
    /\ at' = [p \in Poster |->
                 IF at[p] \in {"holds", "reactor", "find", "create", "push"} /\ ctx[p] = k
                 THEN "dangling" ELSE at[p]]
    /\ UNCHANGED <<pool, owner, ioc, sem, quit, batch, ctx, kind, history>>

ThreadStep(k) ==
    \/ threadMain(k) \/ sem_post(k) \/ enterLoop(k) \/ loop_wait(k) \/ execute(k)
    \/ runTask(k) \/ endOfBatch(k) \/ leave(k) \/ destroyContext(k)

----------------------------------------------------------------------------
(* The owner. *)

\* The constructor: thread_num is unsigned, so its check never fails.
construct ==
    /\ main = "new"
    /\ main' = "idle"
    /\ UNCHANGED <<pool, index, deleting, ioc, sem, thread, context, posters, history>>

start ==
    /\ main = "idle"
    /\ ~ is_start
    /\ starts < MaxStarts
    /\ starts' = starts + 1
    /\ index' = 0
    /\ main' = IF ThreadNum > 0 THEN "start" ELSE main
    /\ is_start' = (ThreadNum = 0)
    /\ UNCHANGED <<next, deleting, ioc, sem, thread, context, posters, calls, handed, quitting,
                   misuse>>

\* Thread::start creates the thread and waits for its context.
startThread ==
    /\ main = "start"
    /\ main' = "wait"
    /\ thread' = [thread EXCEPT ![index] = "created"]
    /\ UNCHANGED <<pool, index, deleting, ioc, sem, context, posters, history>>

nextStart ==
    /\ IF index + 1 < ThreadNum
       THEN main' = "start" /\ index' = index + 1 /\ UNCHANGED is_start
       ELSE main' = "idle" /\ is_start' = TRUE /\ UNCHANGED index
    /\ UNCHANGED <<next, deleting, ioc, thread, context, posters, history>>

sem_wait_skipped ==
    /\ main = "wait"
    /\ nextStart
    /\ UNCHANGED sem

sem_wait ==
    /\ main = "wait"
    /\ sem[index] > 0
    /\ sem' = [sem EXCEPT ![index] = @ - 1]
    /\ nextStart

\* The destructor stops a pool that runs.
stop(delete) ==
    /\ main = "idle"
    /\ is_start
    /\ index' = 0
    /\ deleting' = delete
    /\ main' = IF ThreadNum > 0 THEN "stop" ELSE IF delete THEN "gone" ELSE main
    /\ is_start' = (ThreadNum > 0)
    /\ misuse' = (misuse \/ \E c \in Client : at[c] # "idle")
    /\ UNCHANGED <<next, ioc, sem, thread, context, posters, calls, starts, handed, quitting>>

destroyPool ==
    /\ main = "idle"
    /\ ~ is_start
    /\ main' = "gone"
    /\ UNCHANGED <<pool, index, deleting, ioc, sem, thread, context, posters, history>>

stopThreadDirectly ==
    /\ main = "stop"
    /\ main' = "join"
    /\ quit' = [quit EXCEPT ![index] = TRUE]
    /\ UNCHANGED <<pool, index, deleting, ioc, sem, thread, services, task_list, batch, posters,
                   history>>

\* Thread::stop follows ioc_ and posts a task that quits.
stopThread ==
    /\ main = "stop"
    /\ main' = "post"
    /\ at' = [at EXCEPT ![Owner] = IF ioc[index] THEN "reactor" ELSE "dangling"]
    /\ ctx' = [ctx EXCEPT ![Owner] = index]
    /\ kind' = [kind EXCEPT ![Owner] = "quit"]
    /\ UNCHANGED <<pool, index, deleting, ioc, sem, thread, context, history>>

join ==
    /\ main = "join"
    /\ thread[index] = "done"
    /\ thread' = [thread EXCEPT ![index] = "none"]
    /\ IF index + 1 < ThreadNum
       THEN main' = "stop" /\ index' = index + 1 /\ UNCHANGED is_start
       ELSE main' = (IF deleting THEN "gone" ELSE "idle") /\ is_start' = FALSE /\ UNCHANGED index
    /\ UNCHANGED <<next, deleting, ioc, sem, context, posters, history>>

OwnerStep == startThread \/ sem_wait \/ stopThread \/ join \/ Post(Owner)

----------------------------------------------------------------------------
(* The clients. *)

\* nextContext reads is_start_ and next_; with no threads it divides by zero.
nextContext(c) ==
    /\ main \notin {"new", "gone"}
    /\ is_start
    /\ at[c] = "idle"
    /\ calls < MaxCalls
    /\ calls' = calls + 1
    /\ ctx' = [ctx EXCEPT ![c] = next]
    /\ at' = [at EXCEPT ![c] = IF ThreadNum = 0 THEN "trapped" ELSE "loaded"]
    /\ misuse' = (misuse \/ main # "idle")
    /\ UNCHANGED <<pool, owner, ioc, sem, thread, context, kind, starts, handed, quitting>>

store(c) ==
    /\ at[c] = "loaded"
    /\ next' = (ctx[c] + 1) % ThreadNum
    /\ handed' = [handed EXCEPT ![ctx[c]] = @ + 1]
    /\ at' = [at EXCEPT ![c] = "chosen"]
    /\ UNCHANGED <<is_start, owner, ioc, sem, thread, context, ctx, kind, calls, starts, quitting,
                   misuse>>

compare_exchange_no_remainder(c) ==
    /\ at[c] = "loaded"
    /\ next = ctx[c]
    /\ next' = ctx[c] + 1
    /\ handed' = [handed EXCEPT ![ctx[c]] = @ + 1]
    /\ at' = [at EXCEPT ![c] = "chosen"]
    /\ UNCHANGED <<is_start, owner, ioc, sem, thread, context, ctx, kind, calls, starts, quitting,
                   misuse>>

\* compare_exchange_weak may also fail for no reason, which changes nothing.
compare_exchange(c) ==
    /\ at[c] = "loaded"
    /\ next = ctx[c]
    /\ next' = (ctx[c] + 1) % ThreadNum
    /\ handed' = [handed EXCEPT ![ctx[c]] = @ + 1]
    /\ at' = [at EXCEPT ![c] = "chosen"]
    /\ UNCHANGED <<is_start, owner, ioc, sem, thread, context, ctx, kind, calls, starts, quitting,
                   misuse>>

compareFails(c) ==
    /\ at[c] = "loaded"
    /\ next # ctx[c]
    /\ ctx' = [ctx EXCEPT ![c] = next]
    /\ UNCHANGED <<pool, owner, ioc, sem, thread, context, at, kind, history>>

\* Thread::context follows ioc_.
returnContext(c) ==
    /\ at[c] = "chosen"
    /\ at' = [at EXCEPT ![c] = IF ioc[ctx[c]] THEN "holds" ELSE "dangling"]
    /\ UNCHANGED <<pool, owner, ioc, sem, thread, context, ctx, kind, history>>

post(c, k) ==
    /\ at[c] = "holds"
    /\ at' = [at EXCEPT ![c] = "reactor"]
    /\ kind' = [kind EXCEPT ![c] = k]
    /\ misuse' = (misuse \/ k = "quit")
    /\ UNCHANGED <<pool, owner, ioc, sem, thread, context, ctx, calls, starts, handed, quitting>>

ClientStep(c) ==
    \/ nextContext(c) \/ compare_exchange(c) \/ compareFails(c) \/ returnContext(c)
    \/ \E k \in {"work", "quit"} : post(c, k)

----------------------------------------------------------------------------

Init ==
    /\ is_start = FALSE
    /\ next = 0
    /\ main = "new"
    /\ index = 0
    /\ deleting = FALSE
    /\ ioc = [k \in Thread |-> FALSE]
    /\ sem = [k \in Thread |-> 0]
    /\ thread = [k \in Thread |-> "none"]
    /\ services = [k \in Thread |-> <<>>]
    /\ quit = [k \in Thread |-> TRUE]
    /\ task_list = [k \in Thread |-> <<>>]
    /\ batch = [k \in Thread |-> <<>>]
    /\ at = [p \in Poster |-> "idle"]
    /\ ctx = [p \in Poster |-> 0]
    /\ kind = [p \in Poster |-> "work"]
    /\ calls = 0
    /\ starts = 0
    /\ handed = [k \in Thread |-> 0]
    /\ quitting = [k \in Thread |-> FALSE]
    /\ misuse = FALSE

Next ==
    \/ construct \/ start \/ destroyPool
    \/ \E delete \in BOOLEAN : stop(delete)
    \/ OwnerStep
    \/ \E k \in Thread : ThreadStep(k)
    \/ \E c \in Client : ClientStep(c) \/ Post(c)

Spec == Init /\ [][Next]_vars

\* The scheduler runs every thread that can run, and epoll_wait reports a
\* written eventfd.  Nothing makes the owner or a client call anything.
Fairness ==
    /\ WF_vars(OwnerStep)
    /\ \A k \in Thread : WF_vars(ThreadStep(k))
    /\ \A c \in Client : WF_vars(Post(c))

FairSpec == Spec /\ Fairness

----------------------------------------------------------------------------
(* Properties. *)

\* The types of the members of ThreadPool, Thread and IOContext.
TypeOK ==
    /\ is_start \in BOOLEAN
    /\ next \in Thread \cup {0}
    /\ main \in {"new", "idle", "start", "wait", "stop", "post", "join", "gone"}
    /\ index \in Thread \cup {0}
    /\ deleting \in BOOLEAN
    /\ ioc \in [Thread -> BOOLEAN]
    /\ sem \in [Thread -> Nat]
    /\ thread \in [Thread -> {"none", "created", "publish", "enter", "wait", "poll", "run",
                              "leave", "destroy", "done"}]
    /\ services \in [Thread -> Seq({"reactor", "bridge"})]
    /\ quit \in [Thread -> BOOLEAN]
    /\ task_list \in [Thread -> Seq(Task)]
    /\ batch \in [Thread -> Seq(Task)]
    /\ at \in [Poster -> {"idle", "loaded", "chosen", "holds", "reactor", "find", "create",
                          "push", "dangling", "trapped"}]
    /\ ctx \in [Poster -> Thread \cup {0}]
    /\ kind \in [Poster -> {"work", "quit"}]
    /\ calls \in 0..MaxCalls
    /\ starts \in 0..MaxStarts
    /\ handed \in [Thread -> Nat]
    /\ quitting \in [Thread -> BOOLEAN]
    /\ misuse \in BOOLEAN

\* A context is used only while it lives: nextContext never follows an ioc_ that
\* is not set yet, and post and stop never one that is gone, unless a client
\* races with stop or a task quits the loop of its thread.
UsesLiveContexts == (\E p \in Poster : at[p] = "dangling") => misuse

\* Contexts are handed out in turn, also to clients that call nextContext at the
\* same time, and across stop and start.
HandedOutInTurn == \A j, k \in Thread : handed[j] <= handed[k] + 1

\* Each service of a context is created once, the reactor first, however many
\* threads use the context for the first time.  post creates the BridgeService in
\* the thread that calls it, and its constructor writes the reactor's table
\* without a lock: no callback runs in the context's own thread at that time.
ServicesAreMadeSafely ==
    /\ \A k \in Thread : services[k] \in {<<>>, <<"reactor">>, <<"reactor", "bridge">>}
    /\ \A p \in Poster : at[p] = "create" =>
          thread[ctx[p]] \in {"publish", "enter", "wait", "poll"}

\* Tasks posted to a context before the task that stops it are run: what
\* ~IOContext drops was posted later.
EarlierTasksRun ==
    \A k \in Thread : thread[k] \in {"leave", "destroy"} =>
        batch[k] = <<>> /\ \A n \in DOMAIN task_list[k] : task_list[k][n].late

\* start and stop return: the handshake of a thread that starts is never missed,
\* and a quit that is posted before the thread enters loop_wait is not lost.
HandshakesEnd ==
    /\ main \in {"start", "wait"} ~> main = "idle"
    /\ main \in {"stop", "post", "join"} ~> (main \in {"idle", "gone"} \/ misuse)

\* "The number of threads must be greater than 0": nextContext never computes a
\* remainder by zero.
PoolHasThreads == \A p \in Poster : at[p] # "trapped"

=============================================================================
