---------------------------- MODULE TimerService ----------------------------
(***************************************************************************)
(* Timers of an IOContext (asio/src/details/timer_service.cc) and the      *)
(* objects that use them (asio/src/steady_timer.cc).                       *)
(*                                                                         *)
(* One thread owns all of it.  ctl says what that thread is doing:         *)
(*                                                                         *)
(*   "user"   user code runs, called from the last frame of stack          *)
(*            (stack = <<>>: the program outside loop_wait);               *)
(*   "code"   expireTimerExecute is between two of its callbacks;          *)
(*   "poll"   loop_wait is inside epoll_wait.                              *)
(*                                                                         *)
(* timer_mset_ is ordered by deadline and keeps equal deadlines in the     *)
(* order of their insertion; ids are handed out in increasing order, so    *)
(* here it is a set of waits ordered by deadline and id.  A wait is        *)
(* identified by its id.                                                   *)
(*                                                                         *)
(* Time is a number of milliseconds.  The clock may advance at any moment, *)
(* also inside a function, between the moment it computes a deadline and   *)
(* the moment it arms the timerfd.                                         *)
(*                                                                         *)
(* Left out: the wrap-around of id_allocator_ (after 2^63 waits), the      *)
(* destructor of the service, loop_wait called from a callback.            *)
(* ~SteadyTimer only calls cancel.                                         *)
(***************************************************************************)
EXTENDS Integers, Sequences

CONSTANTS
    Timer,     \* SteadyTimer objects
    Timeout,   \* timeout_ of each of them
    MaxTime,   \* bound: the clock
    MaxWaits,  \* bound: waits accepted by registerTimer
    MaxDepth   \* bound: library calls nested in callbacks

ASSUME TimeoutAssumption == Timeout \in [Timer -> Nat]
ASSUME MaxTimeAssumption == MaxTime \in Nat \ {0}
ASSUME MaxWaitsAssumption == MaxWaits \in Nat
ASSUME MaxDepthAssumption == MaxDepth \in Nat \ {0}

VARIABLES
    now,           \* now_ms()
    timerfd,       \* when timerfd_ expires, 0 if it is disarmed
    timer_mset,    \* timer_mset_
    id_timer_umap, \* id_timer_umap_: the wait that each id stands for
    id_allocator,  \* id_allocator_
    expire_timers, \* waits taken out by expireTimerExecute and not run yet
    timer_id,      \* timer_id_ of each SteadyTimer
    quit,          \* ReactorService::quit_
    stack,         \* calls that wait for a callback to return, the innermost last
    ctl,           \* who runs
    called,        \* history: number of callbacks that each wait received
    last,          \* history: the wait that expired last
    lost           \* history: waits whose id its SteadyTimer has overwritten

vars == <<now, timerfd, timer_mset, id_timer_umap, id_allocator, expire_timers,
          timer_id, quit, stack, ctl, called, last, lost>>

clock == <<now, timerfd>>
waits == <<timer_mset, id_timer_umap, id_allocator>>
history == <<called, last, lost>>

Id == 0..(MaxWaits - 1)
Wait == [id : Id, at : 1..MaxTime, timer : Timer]

\* Nothing has expired yet.
NoWait == [id |-> -1, at |-> 0]

\* The order of timer_mset_.
Before(t, u) == t.at < u.at \/ (t.at = u.at /\ t.id < u.id)
FirstById(S) == CHOOSE t \in S : \A u \in S : t.id <= u.id
First(S) == CHOOSE t \in S : \A u \in S \ {t} : Before(t, u)

----------------------------------------------------------------------------
(* Frames: what a library call does when the callback it made returns. *)

Frame == [kind : {"expire", "return"}]        \* expireTimerExecute; nothing left to do
         \cup [kind : {"reset"}, timer : Timer] \* SteadyTimer::cancel clears timer_id_
         \cup [kind : {"event"}, due : BOOLEAN] \* loop_wait; is the timerfd next?

Top == stack[Len(stack)]
MayCall == ctl = "user" /\ Len(stack) < MaxDepth
CallBack(frame) == stack' = Append(stack, frame) /\ ctl' = "user"

----------------------------------------------------------------------------
(* The timerfd. *)

readable == timerfd # 0 /\ timerfd <= now

update_timerfd_absolute(at) ==
    \E later \in now..MaxTime :
       /\ now' = later
       /\ timerfd' = later + at

\* Arms the timerfd for an absolute time; the clock is read here, later than by
\* the caller.  A time that has passed already expires at once.
update_timerfd(at) ==
    \E later \in now..MaxTime :
       /\ now' = later
       /\ timerfd' = IF later >= at THEN later ELSE at

disarm_timerfd == timerfd' = 0 /\ UNCHANGED now

update_timerfd_first_skipped(S) == UNCHANGED clock
update_timerfd_first_disarmed(S) == disarm_timerfd

\* For the first of a set of waits, if there is one.
update_timerfd_first(S) ==
    IF S = {} THEN disarm_timerfd ELSE update_timerfd(First(S).at)

----------------------------------------------------------------------------
(* The set of waits and its index. *)

Indexed(ids) == [i \in ids |-> id_timer_umap[i]]

EraseKeepsIndex(S) ==
    /\ timer_mset' = timer_mset \ S
    /\ UNCHANGED id_timer_umap

EraseKeepsSet(S) ==
    /\ UNCHANGED timer_mset
    /\ id_timer_umap' = Indexed(DOMAIN id_timer_umap \ {t.id : t \in S})

Erase(S) ==
    /\ timer_mset' = timer_mset \ S
    /\ id_timer_umap' = Indexed(DOMAIN id_timer_umap \ {t.id : t \in S})

Insert(t) ==
    /\ timer_mset' = timer_mset \cup {t}
    /\ id_timer_umap' = [i \in DOMAIN id_timer_umap \cup {t.id} |->
                            IF i = t.id THEN t ELSE id_timer_umap[i]]

----------------------------------------------------------------------------
(* Calls made by user code. *)

\* registerTimer when the id it is given stands for a wait: EOPEXISTS.
rejectTimer(s) ==
    /\ timer_id[s] \in DOMAIN id_timer_umap
    /\ MayCall
    /\ CallBack([kind |-> "return"])
    /\ UNCHANGED <<clock, waits, expire_timers, timer_id, quit, history>>

\* A new wait gets a new id and a deadline; the timerfd is armed if the wait is
\* the first now.  Bounds: the number of waits and the last deadline.
acceptTimer(s, id) ==
    LET t == [id |-> id, at |-> now + Timeout[s], timer |-> s]
    IN  /\ ctl = "user"
        /\ id_allocator < MaxWaits
        /\ t.at <= MaxTime
        /\ timer_id' = [timer_id EXCEPT ![s] = id]
        /\ id_allocator' = id_allocator + 1
        /\ Insert(t)
        /\ IF First(timer_mset') = t THEN update_timerfd(t.at) ELSE UNCHANGED clock
        /\ UNCHANGED <<expire_timers, quit, stack, ctl, history>>

registerTimerAgain(s) == acceptTimer(s, id_allocator)

registerTimerReusesId(s) ==
    /\ timer_id[s] \notin DOMAIN id_timer_umap
    /\ \E id \in Id \ DOMAIN id_timer_umap :
          (\A i \in Id \ DOMAIN id_timer_umap : id <= i) /\ acceptTimer(s, id)

registerTimer(s) ==
    /\ timer_id[s] \notin DOMAIN id_timer_umap
    /\ acceptTimer(s, id_allocator)

async_wait(s) == rejectTimer(s) \/ registerTimer(s)

\* cancelTimer when the id stands for no wait: SteadyTimer::cancel only clears
\* timer_id_.
cancelNothing(s) ==
    /\ ctl = "user"
    /\ timer_id[s] \notin DOMAIN id_timer_umap
    /\ timer_id' = [timer_id EXCEPT ![s] = -1]
    /\ UNCHANGED <<clock, waits, expire_timers, quit, stack, ctl, history>>

\* The wait is taken out, the timerfd is armed again if the wait was the first,
\* and the callback runs with EOPCANCELED; timer_id_ is cleared afterwards.
cancelTimer(s) ==
    LET id == timer_id[s]
        t == id_timer_umap[id]
        need_update == t = First(timer_mset)
    IN  /\ id \in DOMAIN id_timer_umap
        /\ MayCall
        /\ Erase({t})
        /\ IF need_update THEN update_timerfd_first(timer_mset') ELSE UNCHANGED clock
        /\ called' = [called EXCEPT ![id] = @ + 1]
        /\ CallBack([kind |-> "reset", timer |-> s])
        /\ UNCHANGED <<id_allocator, expire_timers, timer_id, quit, last, lost>>

cancel(s) == cancelNothing(s) \/ cancelTimer(s)

Quit ==
    /\ ctl = "user"
    /\ quit' = TRUE
    /\ UNCHANGED <<clock, waits, expire_timers, timer_id, stack, ctl, history>>

loop_wait ==
    /\ ctl = "user"
    /\ stack = <<>>
    /\ quit' = FALSE
    /\ ctl' = "poll"
    /\ UNCHANGED <<clock, waits, expire_timers, timer_id, stack, history>>

----------------------------------------------------------------------------
(* loop_wait and expireTimerExecute. *)

\* epoll_wait reports another descriptor, whose callback runs first; the
\* timerfd is in the same batch if it is readable by now.
otherEvent ==
    /\ ctl = "poll"
    /\ CallBack([kind |-> "event", due |-> readable])
    /\ UNCHANGED <<clock, waits, expire_timers, timer_id, quit, history>>

\* Takes the expired waits out of the set and of the index and arms the timerfd
\* for the rest, before any of their callbacks runs.
Expire ==
    LET expired == {t \in timer_mset : t.at <= now}
    IN  /\ expire_timers' = expired
        /\ Erase(expired)
        /\ update_timerfd_first(timer_mset')
        /\ stack' = <<[kind |-> "expire"]>>
        /\ ctl' = "code"
        /\ UNCHANGED <<id_allocator, timer_id, quit, history>>

expireTimerExecute ==
    /\ ctl = "poll"
    /\ readable
    /\ Expire

\* The timerfd was reported with an event whose callback has returned; that
\* callback may have armed it anew.
expireTimerExecuteLate ==
    /\ ctl = "user"
    /\ stack = <<[kind |-> "event", due |-> TRUE]>>
    /\ Expire

doTimerOperation ==
    LET t == First(expire_timers)
    IN  /\ ctl = "code"
        /\ expire_timers # {}
        /\ expire_timers' = expire_timers \ {t}
        /\ called' = [called EXCEPT ![t.id] = @ + 1]
        /\ last' = t
        /\ ctl' = "user"
        /\ UNCHANGED <<clock, waits, timer_id, quit, stack, lost>>

\* The end of an iteration of loop_wait.
Again ==
    /\ stack' = <<>>
    /\ ctl' = IF quit THEN "user" ELSE "poll"
    /\ UNCHANGED <<clock, waits, expire_timers, timer_id, quit, history>>

expireReturns ==
    /\ ctl = "code"
    /\ expire_timers = {}
    /\ Again

otherReturns ==
    /\ ctl = "user"
    /\ stack = <<[kind |-> "event", due |-> FALSE]>>
    /\ Again

\* A callback made by expireTimerExecute returns.
operationReturns ==
    /\ ctl = "user"
    /\ stack = <<[kind |-> "expire"]>>
    /\ ctl' = "code"
    /\ UNCHANGED <<clock, waits, expire_timers, timer_id, quit, stack, history>>

\* A callback made by a call of user code returns, and so does the call.
callReturns ==
    /\ ctl = "user"
    /\ stack # <<>>
    /\ Top.kind \in {"return", "reset"}
    /\ stack' = SubSeq(stack, 1, Len(stack) - 1)
    /\ IF Top.kind = "reset"
       THEN /\ timer_id' = [timer_id EXCEPT ![Top.timer] = -1]
            /\ lost' = lost \cup ({timer_id[Top.timer]} \cap DOMAIN id_timer_umap)
       ELSE UNCHANGED <<timer_id, lost>>
    /\ UNCHANGED <<clock, waits, expire_timers, quit, ctl, called, last>>

Tick ==
    /\ now < MaxTime
    /\ now' = now + 1
    /\ UNCHANGED <<timerfd, waits, expire_timers, timer_id, quit, stack, ctl, history>>

----------------------------------------------------------------------------

Init ==
    /\ now = 1
    /\ timerfd = 0
    /\ timer_mset = {}
    /\ id_timer_umap = [i \in {} |-> i]
    /\ id_allocator = 0
    /\ expire_timers = {}
    /\ timer_id = [s \in Timer |-> -1]
    /\ quit = TRUE
    /\ stack = <<>>
    /\ ctl = "user"
    /\ called = [i \in Id |-> 0]
    /\ last = NoWait
    /\ lost = {}

UserStep == (\E s \in Timer : async_wait(s) \/ cancel(s)) \/ Quit \/ loop_wait

Return == expireTimerExecuteLate \/ otherReturns \/ operationReturns \/ callReturns

LoopStep == expireTimerExecute \/ doTimerOperation \/ expireReturns

Next == UserStep \/ otherEvent \/ LoopStep \/ Return \/ Tick

Spec == Init /\ [][Next]_vars

\* Time passes, epoll_wait reports a readable timerfd, the thread is scheduled
\* and callbacks end: strong fairness, because a callback that keeps making
\* calls is not always at the point where it can return.  Nothing makes user
\* code call anything.
Fairness ==
    /\ WF_vars(Tick)
    /\ WF_vars(LoopStep)
    /\ \A depth \in 1..MaxDepth : SF_vars(Len(stack) = depth /\ Return)

FairSpec == Spec /\ Fairness

----------------------------------------------------------------------------
(* Properties. *)

\* The types of the members of TimerService::Impl and SteadyTimer.
TypeOK ==
    /\ now \in 1..MaxTime
    /\ timerfd \in 0..MaxTime
    /\ timer_mset \subseteq Wait
    /\ DOMAIN id_timer_umap \subseteq Id
    /\ \A i \in DOMAIN id_timer_umap : id_timer_umap[i] \in Wait
    /\ id_allocator \in 0..MaxWaits
    /\ expire_timers \subseteq Wait
    /\ timer_id \in [Timer -> Id \cup {-1}]
    /\ quit \in BOOLEAN
    /\ stack \in Seq(Frame)
    /\ ctl \in {"user", "code", "poll"}
    /\ called \in [Id -> Nat]
    /\ last \in Wait \cup {NoWait}
    /\ lost \subseteq Id

\* id_timer_umap_ and timer_mset_ hold the same waits: no iterator in the map is
\* dangling when cancelTimer follows it, and no wait in the set is unreachable
\* by id.
IndexMatchesSet ==
    /\ \A t \in timer_mset : t.id \in DOMAIN id_timer_umap /\ id_timer_umap[t.id] = t
    /\ \A i \in DOMAIN id_timer_umap : id_timer_umap[i] \in timer_mset /\ id_timer_umap[i].id = i

\* After every call the timerfd is armed exactly if some wait is pending, for
\* its deadline or for a moment that has come already: registerTimer and
\* cancelTimer only arm it when the first wait changes, so loop_wait would
\* sleep through a deadline otherwise, or spin.
ArmedForFirst ==
    IF timer_mset = {}
    THEN timerfd = 0
    ELSE \/ timerfd = First(timer_mset).at
         \/ First(timer_mset).at <= timerfd /\ timerfd <= now

\* Every wait that registerTimer accepts gets one callback: none while it is in
\* timer_mset_ or expire_timers, and exactly one when it is in neither.
OneCallbackEach ==
    /\ timer_mset \cap expire_timers = {}
    /\ \A i \in Id :
          called[i] = IF i < id_allocator
                         /\ ~ \E t \in timer_mset \cup expire_timers : t.id = i
                      THEN 1 ELSE 0

\* Waits expire in the order of their deadlines, equal deadlines in the order of
\* the calls of async_wait, and never early, across the batches of
\* expireTimerExecute and with callbacks that start new waits.
ExpireInOrder ==
    /\ last.at <= now
    /\ \A t \in expire_timers : t.at <= now /\ Before(last, t)
    /\ \A u \in timer_mset : Before(last, u) /\ \A t \in expire_timers : Before(t, u)

\* timer_id_ is not reset when a wait expires, yet a SteadyTimer never holds the
\* id of another one's wait: its cancel cancels its own wait or nothing.
CancelsOnlyItsOwn ==
    \A s \in Timer : timer_id[s] \in DOMAIN id_timer_umap => id_timer_umap[timer_id[s]].timer = s

\* A pending wait can be cancelled through its SteadyTimer, and a second
\* async_wait on it is rejected.  The one exception: a wait started by the
\* callback that receives EOPCANCELED, whose id SteadyTimer::cancel overwrites
\* with -1 when that callback returns.
LostOnlyByOverwrite == \A t \in timer_mset : timer_id[t.timer] = t.id \/ t.id \in lost

\* Every wait ends: it expires or is cancelled, as long as loop_wait runs.
WaitsEnd ==
    \A i \in Id : i < id_allocator ~> (called[i] > 0 \/ (ctl = "user" /\ stack = <<>>))

=============================================================================
