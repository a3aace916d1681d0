---------------------------- MODULE BridgeService ----------------------------
(***************************************************************************)
(* The way into an IOContext from other threads                            *)
(* (asio/src/details/bridge_service.cc, .ipp; post and batch of            *)
(* asio/src/io_context.cc, .ipp).                                          *)
(*                                                                         *)
(* Producers append tasks to task_list_ under mutex_ and add one to an     *)
(* eventfd; the thread inside loop_wait sees the eventfd readable (the     *)
(* reactor's epoll is level triggered), and execute, still under the       *)
(* mutex, resets the eventfd and moves the list out, then runs the tasks   *)
(* without the mutex.  A task may call IOContext::quit.                    *)
(*                                                                         *)
(* post and batch called by the owner thread run the task in place and     *)
(* touch no state of the bridge: they are not actions.  pushNoLock and     *)
(* batchNoLock have no caller but push and batch.  The construction of the *)
(* service and the other descriptors of the reactor are left out.          *)
(***************************************************************************)
EXTENDS Integers, Sequences, FiniteSets

CONSTANTS
    Task,      \* callables that are submitted
    Batch,     \* the sequences of tasks one call submits
    Producer,  \* threads that do not own the context
    Owner,     \* the thread that owns the context
    Nobody,    \* mutex_ is free
    EventMax,  \* value at which a write to the eventfd fails with EAGAIN
    MaxCalls   \* bound: calls of push and batch

ASSUME BatchAssumption == Batch \subseteq Seq(Task) /\ \A t \in Task : <<t>> \in Batch
ASSUME ThreadAssumption == Owner \notin Producer /\ Nobody \notin Producer \cup {Owner}
ASSUME EventMaxAssumption == EventMax \in Nat \ {0}
ASSUME MaxCallsAssumption == MaxCalls \in Nat

VARIABLES
    mutex,      \* who holds mutex_
    task_list,  \* task_list_
    eventfd,    \* counter of event_fd_
    pc,         \* where each producer is
    todo,       \* tasks of its call that a producer has still to append
    loop,       \* where the owner thread is
    tmp,        \* tmp_task_list: tasks moved out and not run yet
    quit,       \* ReactorService::quit_
    calls,      \* history: calls of push and batch so far
    submitted,  \* history: tasks in the order their calls took the mutex
    ran         \* history: tasks in the order they ran

producerVars == <<pc, todo>>
vars == <<mutex, task_list, eventfd, pc, todo, loop, tmp, quit, calls, submitted, ran>>

Elements(s) == {s[i] : i \in DOMAIN s}

----------------------------------------------------------------------------
(* Producers. *)

\* The call takes the mutex.  Bound: a task is submitted once.
Submit(p, s) ==
    /\ pc[p] = "idle"
    /\ mutex = Nobody
    /\ calls < MaxCalls
    /\ Elements(s) \cap Elements(submitted) = {}
    /\ mutex' = p
    /\ pc' = [pc EXCEPT ![p] = "append"]
    /\ todo' = [todo EXCEPT ![p] = s]
    /\ calls' = calls + 1
    /\ submitted' = submitted \o s
    /\ UNCHANGED <<task_list, eventfd, loop, tmp, quit, ran>>

push(p, t) == Submit(p, <<t>>)
batch(p, s) == Submit(p, s)

emplace_front(p) ==
    /\ pc[p] = "append"
    /\ todo[p] # <<>>
    /\ task_list' = <<Head(todo[p])>> \o task_list
    /\ todo' = [todo EXCEPT ![p] = Tail(@)]
    /\ UNCHANGED <<mutex, eventfd, pc, loop, tmp, quit, calls, submitted, ran>>

emplace_back(p) ==
    /\ pc[p] = "append"
    /\ todo[p] # <<>>
    /\ task_list' = Append(task_list, Head(todo[p]))
    /\ todo' = [todo EXCEPT ![p] = Tail(@)]
    /\ UNCHANGED <<mutex, eventfd, pc, loop, tmp, quit, calls, submitted, ran>>

AfterWrite(p) ==
    /\ pc[p] = "append"
    /\ todo[p] = <<>>
    /\ pc' = [pc EXCEPT ![p] = "unlock"]
    /\ UNCHANGED <<mutex, task_list, todo, loop, tmp, quit, calls, submitted, ran>>

write_eventfd_once(p) ==
    /\ AfterWrite(p)
    /\ eventfd' = IF eventfd = 0 /\ Len(task_list) = 1 THEN 1 ELSE eventfd

write_eventfd_unchecked(p) ==
    /\ AfterWrite(p)
    /\ eventfd' = eventfd + 1

\* One write per call, whatever the number of tasks; a write to a full counter
\* fails and the result is ignored.
write_eventfd(p) ==
    /\ AfterWrite(p)
    /\ eventfd' = IF eventfd = EventMax THEN eventfd ELSE eventfd + 1

unlock(p) ==
    /\ pc[p] = "unlock"
    /\ mutex' = Nobody
    /\ pc' = [pc EXCEPT ![p] = "idle"]
    /\ UNCHANGED <<task_list, eventfd, todo, loop, tmp, quit, calls, submitted, ran>>

----------------------------------------------------------------------------
(* The owner thread. *)

\* The program calls loop_wait.
loop_wait ==
    /\ loop = "main"
    /\ loop' = "poll"
    /\ quit' = FALSE
    /\ UNCHANGED <<mutex, task_list, eventfd, producerVars, tmp, calls, submitted, ran>>

\* epoll_wait reports the eventfd readable and the reactor calls execute.
epoll_wait ==
    /\ loop = "poll"
    /\ eventfd > 0
    /\ loop' = "lock"
    /\ UNCHANGED <<mutex, task_list, eventfd, producerVars, tmp, quit, calls, submitted, ran>>

executeLockFree ==
    /\ loop = "lock"
    /\ loop' = "clear"
    /\ mutex' = Owner
    /\ UNCHANGED <<task_list, eventfd, producerVars, tmp, quit, calls, submitted, ran>>

executeLock ==
    /\ loop = "lock"
    /\ mutex = Nobody
    /\ loop' = "clear"
    /\ mutex' = Owner
    /\ UNCHANGED <<task_list, eventfd, producerVars, tmp, quit, calls, submitted, ran>>

clear_eventfd_skipped ==
    /\ loop = "clear"
    /\ loop' = "move"
    /\ UNCHANGED <<mutex, task_list, eventfd, producerVars, tmp, quit, calls, submitted, ran>>

clear_eventfd ==
    /\ loop = "clear"
    /\ eventfd' = 0
    /\ loop' = "move"
    /\ UNCHANGED <<mutex, task_list, producerVars, tmp, quit, calls, submitted, ran>>

executeMoveKeepsList ==
    /\ loop = "move"
    /\ tmp' = task_list
    /\ loop' = "unlock"
    /\ UNCHANGED <<mutex, task_list, eventfd, producerVars, quit, calls, submitted, ran>>

executeMove ==
    /\ loop = "move"
    /\ tmp' = task_list
    /\ task_list' = <<>>
    /\ loop' = "unlock"
    /\ UNCHANGED <<mutex, eventfd, producerVars, quit, calls, submitted, ran>>

executeUnlock ==
    /\ loop = "unlock"
    /\ mutex' = Nobody
    /\ loop' = "run"
    /\ UNCHANGED <<task_list, eventfd, producerVars, tmp, quit, calls, submitted, ran>>

\* The task runs to its end; it may call quit().
runTask ==
    /\ loop = "run"
    /\ tmp # <<>>
    /\ ran' = Append(ran, Head(tmp))
    /\ tmp' = Tail(tmp)
    /\ quit' \in {quit, TRUE}
    /\ UNCHANGED <<mutex, task_list, eventfd, producerVars, loop, calls, submitted>>

\* execute returns; loop_wait polls again or ends.
executeReturns ==
    /\ loop = "run"
    /\ tmp = <<>>
    /\ loop' = IF quit THEN "main" ELSE "poll"
    /\ UNCHANGED <<mutex, task_list, eventfd, producerVars, tmp, quit, calls, submitted, ran>>

----------------------------------------------------------------------------

Init ==
    /\ mutex = Nobody
    /\ task_list = <<>>
    /\ eventfd = 0
    /\ pc = [p \in Producer |-> "idle"]
    /\ todo = [p \in Producer |-> <<>>]
    /\ loop = "main"
    /\ tmp = <<>>
    /\ quit = TRUE
    /\ calls = 0
    /\ submitted = <<>>
    /\ ran = <<>>

Call(p) ==
    \/ \E t \in Task : push(p, t)
    \/ \E s \in Batch : batch(p, s)

CriticalSection(p) ==
    \/ emplace_back(p)
    \/ write_eventfd(p)
    \/ unlock(p)

LoopStep ==
    \/ epoll_wait
    \/ executeLock
    \/ clear_eventfd
    \/ executeMove
    \/ executeUnlock
    \/ runTask
    \/ executeReturns

Next ==
    \/ \E p \in Producer : Call(p) \/ CriticalSection(p)
    \/ loop_wait
    \/ LoopStep

Spec == Init /\ [][Next]_vars

\* The scheduler runs every thread that can run, and tasks end.  Nothing makes
\* a producer call again or the program enter loop_wait.
Fairness ==
    /\ WF_vars(LoopStep)
    /\ \A p \in Producer : WF_vars(CriticalSection(p))

FairSpec == Spec /\ Fairness

----------------------------------------------------------------------------
(* Properties. *)

\* The types of the bridge's members and of the threads' positions.
TypeOK ==
    /\ mutex \in Producer \cup {Owner, Nobody}
    /\ task_list \in Seq(Task)
    /\ eventfd \in 0..EventMax
    /\ pc \in [Producer -> {"idle", "append", "unlock"}]
    /\ todo \in [Producer -> Seq(Task)]
    /\ loop \in {"main", "poll", "lock", "clear", "move", "unlock", "run"}
    /\ tmp \in Seq(Task)
    /\ quit \in BOOLEAN
    /\ calls \in 0..MaxCalls
    /\ submitted \in Seq(Task)
    /\ ran \in Seq(Task)

\* task_list_ and the eventfd are only touched under mutex_ (the lock_guards of
\* push, batch and execute): never by two threads at a time.
OneThreadAtTheList ==
    /\ \A p \in Producer : pc[p] # "idle" => mutex = p
    /\ loop \in {"clear", "move", "unlock"} => mutex = Owner

\* A task in task_list_ always has a wake-up on its way: the eventfd is readable,
\* or the thread that appended it has still to write, or execute has cleared the
\* counter and is about to move the list.  This is what lets epoll_wait block
\* without a timeout.
NoLostWakeup ==
    task_list # <<>> =>
       \/ eventfd > 0
       \/ \E p \in Producer : pc[p] = "append"
       \/ loop = "move"

\* Tasks the holder of the mutex is committed to append.
Committed == IF mutex \in Producer THEN todo[mutex] ELSE <<>>

\* Tasks submitted and not run, in the order in which they will run.
Outstanding == tmp \o task_list \o Committed

\* Tasks run in the order in which their calls took mutex_, each once; a batch
\* is never interleaved with another call's tasks, and quit drops none of the
\* tasks that were moved out.
RunsInOrderOnce == submitted = ran \o Outstanding

\* push, batch and execute implement the queue.
Queue == INSTANCE TaskQueue WITH queue <- Outstanding
ImplementsQueue == Queue!Spec

\* Every task submitted through push or batch is eventually run by execute, as
\* long as loop_wait does not end.
TasksAreRun ==
    \A t \in Task : t \in Elements(submitted) ~> (t \in Elements(ran) \/ loop = "main")

\* execute consumes wake-ups: the eventfd does not stay readable, which would
\* keep loop_wait spinning on an empty list.
WakeupsAreConsumed == eventfd > 0 ~> (eventfd = 0 \/ loop = "main")
=============================================================================
