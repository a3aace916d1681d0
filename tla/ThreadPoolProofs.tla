-------------------------- MODULE ThreadPoolProofs --------------------------
(***************************************************************************)
(* Proofs about ThreadPool, for any number of threads and any clients.     *)
(*                                                                         *)
(* Three arguments meet.  Where the owner is decides which threads exist   *)
(* (Begun), so what is published can be followed.  A context that is used  *)
(* lives, and its services are made in order, one creator at a time.  And  *)
(* without misuse only the owner's own task quits a loop, after every      *)
(* client has finished.                                                    *)
(***************************************************************************)
EXTENDS ThreadPool, SequenceTheorems, TLAPS

----------------------------------------------------------------------------
(* The inductive invariant. *)

Using == {"holds", "reactor", "find", "create", "push"}
Up == {"publish", "enter", "wait", "poll", "run", "leave"}
Ending == {"leave", "destroy", "done"}
R == <<"reactor">>
RB == <<"reactor", "bridge">>

\* The owner has created thread k and not joined it.
Begun(k) ==
    \/ main = "idle" /\ is_start
    \/ main = "start" /\ k < index
    \/ main = "wait" /\ k <= index
    \/ main \in {"stop", "post", "join"} /\ index <= k

\* What the owner's place says about the threads, and about its own post.
Places ==
    /\ main \in {"new", "gone", "start", "wait"} => ~ is_start
    /\ main \in {"stop", "post", "join"} => is_start
    /\ main \in {"start", "wait", "stop", "post", "join"} => ThreadNum > 0
    /\ at[Owner] \in {"idle", "reactor", "find", "create", "push", "dangling"}
    /\ at[Owner] # "idle" <=> main = "post"
    /\ main = "post" => ctx[Owner] = index /\ kind[Owner] = "quit"

ThreadOf(k) ==
    /\ thread[k] = "none" <=> ~ Begun(k)
    /\ thread[k] \in {"created", "publish"} => main = "wait" /\ k = index
    /\ sem[k] > 0 => /\ main = "wait" /\ k = index /\ sem[k] = 1
                     /\ thread[k] \notin {"created", "publish"}
    /\ ioc[k] <=> thread[k] \in Up

Threads == \A k \in Thread : ThreadOf(k)

\* Who uses a context uses one that is not destroyed.
Holders ==
    \A p \in Poster :
        /\ at[p] \in Using \cup {"loaded", "chosen"} => ThreadNum > 0
        /\ at[p] \in Using => thread[ctx[p]] \in Up \cup {"destroy"}

\* The services of a context: the reactor is there when the thread has entered
\* its loop or a post has passed its first step, the bridge when a task is.
ServicesOf(k) ==
    /\ services[k] \in {<<>>, R, RB}
    /\ thread[k] \in {"wait", "poll"} => services[k] # <<>>
    /\ thread[k] \in {"run", "leave", "destroy"} => services[k] = RB
    /\ task_list[k] # <<>> => services[k] = RB
    /\ batch[k] # <<>> => thread[k] = "run"

Services == \A k \in Thread : ServicesOf(k)

Creators ==
    /\ \A p \in Poster :
          /\ at[p] = "find" => services[ctx[p]] # <<>>
          /\ at[p] = "create" => services[ctx[p]] = R
          /\ at[p] = "push" => services[ctx[p]] = RB
    /\ \A p, q \in Poster : at[p] = "create" /\ at[q] = "create" /\ ctx[p] = ctx[q] => p = q

Quits(s) == \E n \in DOMAIN s : s[n].kind = "quit"
AllLate(s) == \A n \in DOMAIN s : s[n].late

\* A loop ends only by a task that quits, and what is posted after that task was
\* taken is late.
QuittingOf(k) ==
    /\ Quits(task_list[k]) \/ Quits(batch[k]) => quitting[k]
    /\ thread[k] = "poll" => ~ quit[k]
    /\ thread[k] = "run" /\ quit[k] => quitting[k]
    /\ thread[k] \in Ending => quitting[k]
    /\ thread[k] = "run" /\ (quit[k] \/ Quits(batch[k])) => AllLate(task_list[k])
    /\ thread[k] \in {"leave", "destroy"} => AllLate(task_list[k])

Quitting == \A k \in Thread : QuittingOf(k)

\* Without misuse clients are busy only while the pool runs, they post only
\* work, and a context quits only while the owner waits for its thread.
Gentle ==
    ~ misuse =>
        /\ \A c \in Client :
              /\ at[c] # "idle" => main = "idle" /\ is_start
              /\ at[c] \in {"reactor", "find", "create", "push"} => kind[c] = "work"
        /\ \A k \in Thread : quitting[k] /\ thread[k] \notin {"none", "created"} =>
              main = "join" /\ k = index
        /\ \A p \in Poster : at[p] # "dangling"

\* Contexts before next_ were handed out once more than those from next_ on.
Turn ==
    \A j, k \in Thread :
        handed[j] = handed[k] + (IF j < next THEN 1 ELSE 0) - (IF k < next THEN 1 ELSE 0)

IInv ==
    /\ TypeOK
    /\ Places
    /\ Threads
    /\ Holders
    /\ Services
    /\ Creators
    /\ Quitting
    /\ Gentle
    /\ Turn

\* The initial states satisfy the invariant.
LEMMA InitIInv == Init => IInv
  <1> SUFFICES ASSUME Init PROVE IInv
    OBVIOUS
  <1> USE ThreadNumAssumption, OwnerAssumption, PoolBoundsAssumption DEF Init
  <1>1. TypeOK
    <2>1. calls \in 0..MaxCalls /\ starts \in 0..MaxStarts /\ 0 \in Nat
      OBVIOUS
    <2>2. \A S : <<>> \in Seq(S)
      OBVIOUS
    <2>3. QED
      BY <2>1, <2>2, Zenon DEF TypeOK
  <1>2. Places /\ Holders
    BY DEF Places, Holders, Using, Poster
  <1>3. Threads
    BY DEF Threads, ThreadOf, Begun, Up
  <1>4. Services /\ Quitting
    BY DEF Services, Quitting, ServicesOf, QuittingOf, Quits, AllLate, Ending
  <1>5. Creators /\ Turn
    BY DEF Creators, Turn, Thread
  <1>6. Gentle
    BY DEF Gentle, Poster
  <1>7. QED
    BY <1>1, <1>2, <1>3, <1>4, <1>5, <1>6 DEF IInv

----------------------------------------------------------------------------
(* Every step keeps the types. *)

\* Who uses a context uses one of a thread.
LEMMA UsedIsThread ==
    ASSUME TypeOK, Holders, NEW p \in Poster, at[p] \in Using \cup {"loaded", "chosen"}
    PROVE  ctx[p] \in Thread /\ ThreadNum > 0
  BY ThreadNumAssumption DEF TypeOK, Holders, Thread

\* Looking up the reactor keeps the types of what it may change.
LEMMA ReactorTypes ==
    ASSUME TypeOK, NEW k \in Thread, use_service_reactor(k)
    PROVE  services' \in [Thread -> Seq({"reactor", "bridge"})] /\ quit' \in [Thread -> BOOLEAN]
  <1>1. services' \in [Thread -> Seq({"reactor", "bridge"})]
    <2>1. services' = services \/ services' = [services EXCEPT ![k] = Append(@, "reactor")]
      BY Zenon DEF use_service_reactor
    <2>2. services[k] \in Seq({"reactor", "bridge"}) /\ "reactor" \in {"reactor", "bridge"}
      BY DEF TypeOK
    <2>3. Append(services[k], "reactor") \in Seq({"reactor", "bridge"})
      BY <2>2, AppendProperties
    <2>4. QED
      BY <2>1, <2>3 DEF TypeOK
  <1>2. quit' \in [Thread -> BOOLEAN]
    BY Zenon DEF TypeOK, use_service_reactor
  <1>3. QED
    BY <1>1, <1>2

\* The remainder that nextContext computes.
LEMMA Remainder ==
    ASSUME NEW i \in Thread, ThreadNum > 0
    PROVE  /\ (i + 1) % ThreadNum = IF i + 1 < ThreadNum THEN i + 1 ELSE 0
           /\ (i + 1) % ThreadNum \in Thread
  <1>1. CASE i + 1 < ThreadNum
    BY <1>1, ThreadNumAssumption DEF Thread
  <1>2. CASE i + 1 = ThreadNum
    BY <1>2, ThreadNumAssumption DEF Thread
  <1>3. QED
    BY <1>1, <1>2, ThreadNumAssumption DEF Thread

\* The index after the last one is not used.
LEMMA NextIndex ==
    ASSUME index \in Thread \cup {0}, index + 1 < ThreadNum
    PROVE  index + 1 \in Thread
  BY ThreadNumAssumption DEF Thread

\* Every step keeps the types.
LEMMA TypeStep == IInv /\ [Next]_vars => TypeOK'
  <1> SUFFICES ASSUME IInv, [Next]_vars PROVE TypeOK'
    OBVIOUS
  <1> USE ThreadNumAssumption, PoolBoundsAssumption, UsedIsThread
      DEF IInv, TypeOK, pool, owner, context, posters, history, Using
  <1>1. ASSUME NEW p \in Poster, postReactor(p) PROVE TypeOK'
    <2>1. ctx[p] \in Thread /\ use_service_reactor(ctx[p])
      BY <1>1 DEF postReactor
    <2>2. services' \in [Thread -> Seq({"reactor", "bridge"})] /\ quit' \in [Thread -> BOOLEAN]
      BY <2>1, ReactorTypes
    <2>3. QED
      BY <1>1, <2>2 DEF postReactor
  <1>2. ASSUME NEW p \in Poster, findBridge(p) PROVE TypeOK'
    BY <1>2 DEF findBridge
  <1>3. ASSUME NEW p \in Poster, createBridge(p) PROVE TypeOK'
    BY <1>3 DEF createBridge
  <1>4. ASSUME NEW p \in Poster, push(p) PROVE TypeOK'
    <2>1. ctx[p] \in Thread
      BY <1>4 DEF push
    <2>2. quitting[ctx[p]] \in BOOLEAN /\ kind[p] \in {"work", "quit"}
      BY <2>1
    <2>3. [kind |-> kind[p], late |-> quitting[ctx[p]]] \in Task
      BY <2>2 DEF Task
    <2>4. task_list' \in [Thread -> Seq(Task)]
      BY <1>4, <2>1, <2>3 DEF push
    <2>5. (quitting[ctx[p]] \/ kind[p] = "quit") \in BOOLEAN
      OBVIOUS
    <2>6. quitting' \in [Thread -> BOOLEAN]
      BY <1>4, <2>5, Zenon DEF push
    <2>7. QED
      BY <1>4, <2>4, <2>6 DEF push
  <1>5. ASSUME NEW k \in Thread, threadMain(k) PROVE TypeOK'
    BY <1>5 DEF threadMain
  <1>6. ASSUME NEW k \in Thread, sem_post(k) PROVE TypeOK'
    BY <1>6 DEF sem_post
  <1>7. ASSUME NEW k \in Thread, enterLoop(k) PROVE TypeOK'
    <2>1. services' \in [Thread -> Seq({"reactor", "bridge"})] /\ quit' \in [Thread -> BOOLEAN]
      BY <1>7, ReactorTypes DEF enterLoop
    <2>2. QED
      BY <1>7, <2>1 DEF enterLoop
  <1>8. ASSUME NEW k \in Thread, loop_wait(k) PROVE TypeOK'
    BY <1>8 DEF loop_wait
  <1>9. ASSUME NEW k \in Thread, execute(k) PROVE TypeOK'
    BY <1>9 DEF execute
  <1>10. ASSUME NEW k \in Thread, runTask(k) PROVE TypeOK'
    <2>1. Tail(batch[k]) \in Seq(Task)
      BY <1>10 DEF runTask
    <2>2. quit' \in [Thread -> BOOLEAN]
      BY <1>10, Zenon DEF runTask
    <2>3. QED
      BY <1>10, <2>1, <2>2 DEF runTask
  <1>11. ASSUME NEW k \in Thread, endOfBatch(k) PROVE TypeOK'
    BY <1>11 DEF endOfBatch
  <1>12. ASSUME NEW k \in Thread, leave(k) PROVE TypeOK'
    BY <1>12 DEF leave
  <1>13. ASSUME NEW k \in Thread, destroyContext(k) PROVE TypeOK'
    BY <1>13 DEF destroyContext
  <1>14. CASE construct
    BY <1>14 DEF construct
  <1>15. CASE start
    BY <1>15 DEF start
  <1>16. CASE startThread
    BY <1>16 DEF startThread
  <1>17. CASE sem_wait
    <2>1. /\ index' \in Thread \cup {0} /\ is_start' \in BOOLEAN
          /\ main' \in {"start", "idle"}
      BY <1>17, NextIndex DEF sem_wait, nextStart
    <2>2. sem' \in [Thread -> Nat]
      <3>1. index \in Thread
        BY <1>17 DEF sem_wait, Places, Thread
      <3>2. sem[index] - 1 \in Nat
        BY <1>17, <3>1 DEF sem_wait
      <3>3. QED
        BY <1>17, <3>2 DEF sem_wait
    <2>3. QED
      BY <1>17, <2>1, <2>2 DEF sem_wait, nextStart
  <1>18. ASSUME NEW delete \in BOOLEAN, stop(delete) PROVE TypeOK'
    BY <1>18 DEF stop
  <1>19. CASE destroyPool
    BY <1>19 DEF destroyPool
  <1>20. CASE stopThread
    BY <1>20 DEF stopThread
  <1>21. CASE join
    <2>1. /\ index' \in Thread \cup {0} /\ is_start' \in BOOLEAN
          /\ main' \in {"stop", "gone", "idle"}
      BY <1>21, NextIndex DEF join
    <2>2. QED
      BY <1>21, <2>1 DEF join
  <1>22. ASSUME NEW c \in Client, nextContext(c) PROVE TypeOK'
    <2>1. misuse' \in BOOLEAN
      BY <1>22, Zenon DEF nextContext
    <2>2. calls' \in 0..MaxCalls
      BY <1>22 DEF nextContext
    <2>3. at' \in [Poster -> {"idle", "loaded", "chosen", "holds", "reactor", "find", "create",
                              "push", "dangling", "trapped"}]
          /\ ctx' \in [Poster -> Thread \cup {0}]
      BY <1>22 DEF nextContext
    <2>4. QED
      BY <1>22, <2>1, <2>2, <2>3 DEF nextContext
  <1>23. ASSUME NEW c \in Client, compare_exchange(c) PROVE TypeOK'
    <2>1. c \in Poster
      BY DEF Poster
    <2>2. ctx[c] \in Thread /\ ThreadNum > 0
      BY <1>23, <2>1 DEF compare_exchange
    <2>3. (ctx[c] + 1) % ThreadNum \in Thread
      BY <2>2, Remainder
    <2>4. handed[ctx[c]] + 1 \in Nat
      BY <2>2
    <2>5. handed' \in [Thread -> Nat]
      BY <1>23, <2>4 DEF compare_exchange
    <2>6. QED
      BY <1>23, <2>3, <2>5 DEF compare_exchange
  <1>24. ASSUME NEW c \in Client, compareFails(c) PROVE TypeOK'
    BY <1>24 DEF compareFails
  <1>25. ASSUME NEW c \in Client, returnContext(c) PROVE TypeOK'
    BY <1>25 DEF returnContext
  <1>26. ASSUME NEW c \in Client, NEW k \in {"work", "quit"}, post(c, k) PROVE TypeOK'
    BY <1>26 DEF post
  <1>27. CASE UNCHANGED vars
    BY <1>27 DEF vars
  <1> HIDE DEF IInv, TypeOK
  <1>28. QED
    BY <1>1, <1>2, <1>3, <1>4, <1>5, <1>6, <1>7, <1>8, <1>9, <1>10, <1>11, <1>12, <1>13, <1>14,
       <1>15, <1>16, <1>17, <1>18, <1>19, <1>20, <1>21, <1>22, <1>23, <1>24, <1>25, <1>26, <1>27
    DEF Next, OwnerStep, Post, ThreadStep, ClientStep, Poster
----------------------------------------------------------------------------
(* Where the owner and the threads are. *)

\* The owner is inside post exactly while it stops a thread.
LEMMA PlacesStep == IInv /\ [Next]_vars => Places'
  <1> SUFFICES ASSUME IInv, [Next]_vars PROVE Places'
    OBVIOUS
  <1> USE ThreadNumAssumption, OwnerAssumption
          DEF IInv, TypeOK, Places, Poster, pool, owner, context, posters, history
  <1>1. ASSUME NEW p \in Poster, postReactor(p) PROVE Places'
    BY <1>1 DEF postReactor, use_service_reactor
  <1>2. ASSUME NEW p \in Poster, findBridge(p) PROVE Places'
    BY <1>2 DEF findBridge
  <1>3. ASSUME NEW p \in Poster, createBridge(p) PROVE Places'
    BY <1>3 DEF createBridge
  <1>4. ASSUME NEW p \in Poster, push(p) PROVE Places'
    BY <1>4 DEF push
  <1>5. ASSUME NEW k \in Thread, destroyContext(k) PROVE Places'
    BY <1>5 DEF destroyContext
  <1>6. CASE construct
    BY <1>6 DEF construct
  <1>7. CASE start
    BY <1>7 DEF start
  <1>8. CASE startThread
    BY <1>8 DEF startThread
  <1>9. CASE sem_wait
    BY <1>9 DEF sem_wait, nextStart
  <1>10. ASSUME NEW delete \in BOOLEAN, stop(delete) PROVE Places'
    BY <1>10 DEF stop
  <1>11. CASE destroyPool
    BY <1>11 DEF destroyPool
  <1>12. CASE stopThread
    BY <1>12 DEF stopThread
  <1>13. CASE join
    BY <1>13 DEF join
  <1>14. ASSUME NEW c \in Client, nextContext(c) PROVE Places'
    BY <1>14 DEF nextContext
  <1>15. ASSUME NEW c \in Client, compare_exchange(c) PROVE Places'
    BY <1>15 DEF compare_exchange
  <1>16. ASSUME NEW c \in Client, compareFails(c) PROVE Places'
    BY <1>16 DEF compareFails
  <1>17. ASSUME NEW c \in Client, returnContext(c) PROVE Places'
    BY <1>17 DEF returnContext
  <1>18. ASSUME NEW c \in Client, NEW k \in {"work", "quit"}, post(c, k) PROVE Places'
    BY <1>18 DEF post
  <1>19. CASE UNCHANGED <<main, is_start, index, at, ctx, kind>>
    BY <1>19
  <1> HIDE DEF IInv, TypeOK, Places, Poster
  <1>20. QED
    BY <1>1, <1>2, <1>3, <1>4, <1>5, <1>6, <1>7, <1>8, <1>9, <1>10, <1>11, <1>12, <1>13, <1>14,
       <1>15, <1>16, <1>17, <1>18, <1>19
    DEF Next, OwnerStep, Post, ThreadStep, ClientStep, Poster, vars,
        threadMain, sem_post, enterLoop, loop_wait, execute, runTask, endOfBatch, leave,
        use_service_reactor

\* The owner's index is a thread's while it starts or stops one.
LEMMA IndexIsThread ==
    ASSUME TypeOK, Places, main \in {"start", "wait", "stop", "post", "join"}
    PROVE  index \in Thread /\ ThreadNum > 0
  BY ThreadNumAssumption DEF TypeOK, Places, Thread

\* A thread is a number below ThreadNum.
LEMMA ThreadIsNumber ==
    ASSUME NEW k \in Thread
    PROVE  k \in Nat /\ k < ThreadNum /\ ThreadNum \in Nat
  BY ThreadNumAssumption DEF Thread

\* SemPost keeps Threads.
LEMMA SemPostThreads ==
    ASSUME IInv, NEW k \in Thread, sem_post(k)
    PROVE  Threads'
  <1>1. /\ UNCHANGED <<main, is_start, index, ioc>> /\ thread[k] = "publish"
        /\ thread'[k] = "enter" /\ sem'[k] = sem[k] + 1
        /\ \A j \in Thread : j # k => thread'[j] = thread[j] /\ sem'[j] = sem[j]
    BY DEF sem_post, IInv, TypeOK, pool, owner
  <1>2. ASSUME NEW j \in Thread PROVE ThreadOf(j)'
    <2>1. ThreadOf(j) /\ sem[j] \in Nat
      BY DEF IInv, Threads, TypeOK
    <2>2. Begun(j)' = Begun(j)
      BY <1>1 DEF Begun
    <2>3. CASE j = k
      <3>1. main = "wait" /\ k = index /\ sem[k] = 0
        BY <1>1, <2>1, <2>3 DEF ThreadOf
      <3>2. QED
        BY <1>1, <2>1, <2>2, <2>3, <3>1 DEF ThreadOf, Up
    <2>4. CASE j # k
      BY <1>1, <2>1, <2>2, <2>4 DEF ThreadOf
    <2>5. QED
      BY <2>3, <2>4
  <1>3. QED
    BY <1>2 DEF Threads

\* Start keeps Threads.
LEMMA StartThreads ==
    ASSUME IInv, startThread
    PROVE  Threads'
  <1>1. index \in Thread /\ main = "start" /\ main' = "wait" /\ index' = index
    BY IndexIsThread DEF startThread, IInv
  <1>2. /\ UNCHANGED <<sem, ioc>> /\ thread'[index] = "created"
        /\ \A k \in Thread : k # index => thread'[k] = thread[k]
    BY <1>1 DEF startThread, IInv, TypeOK
  <1>3. ASSUME NEW k \in Thread PROVE ThreadOf(k)'
    <2>1. ThreadOf(k) /\ sem[k] \in Nat /\ k \in Nat /\ index \in Nat
      BY <1>1, ThreadIsNumber DEF IInv, Threads, TypeOK
    <2>2. (Begun(k) <=> k < index) /\ (Begun(k)' <=> k <= index)
      BY <1>1 DEF Begun
    <2>3. CASE k = index
      <3>1. ~ Begun(k) /\ Begun(k)'
        BY <2>1, <2>2, <2>3
      <3>2. QED
        BY <1>1, <1>2, <2>1, <2>3, <3>1 DEF ThreadOf, Up
    <2>4. CASE k # index
      <3>1. Begun(k) <=> Begun(k)'
        BY <2>1, <2>2, <2>4
      <3>2. QED
        BY <1>1, <1>2, <2>1, <2>4, <3>1 DEF ThreadOf, Up
    <2>5. QED
      BY <2>3, <2>4
  <1>4. QED
    BY <1>3 DEF Threads

\* SemWait keeps Threads.
LEMMA SemWaitThreads ==
    ASSUME IInv, sem_wait
    PROVE  Threads'
  <1>1. index \in Thread /\ main = "wait" /\ sem[index] > 0
    BY IndexIsThread DEF sem_wait, IInv
  <1>2. /\ UNCHANGED <<thread, ioc>> /\ sem'[index] = sem[index] - 1
        /\ \A k \in Thread : k # index => sem'[k] = sem[k]
    BY <1>1 DEF sem_wait, nextStart, IInv, TypeOK
  <1>3. \/ index + 1 < ThreadNum /\ main' = "start" /\ index' = index + 1
        \/ ~ (index + 1 < ThreadNum) /\ main' = "idle" /\ is_start'
    BY DEF sem_wait, nextStart
  <1>4. ASSUME NEW k \in Thread PROVE ThreadOf(k)'
    <2>1. /\ ThreadOf(k) /\ ThreadOf(index) /\ sem[k] \in Nat
          /\ k \in Nat /\ k < ThreadNum /\ index \in Nat /\ ThreadNum \in Nat
      BY <1>1, ThreadIsNumber DEF IInv, Threads, TypeOK
    <2>2. sem'[k] = 0 /\ thread[k] \notin {"created", "publish"}
      BY <1>1, <1>2, <2>1 DEF ThreadOf
    <2>3. Begun(k) <=> k <= index
      BY <1>1 DEF Begun
    <2>4. Begun(k)' <=> k <= index
      <3>1. CASE index + 1 < ThreadNum /\ main' = "start" /\ index' = index + 1
        <4>1. Begun(k)' <=> k < index + 1
          BY <3>1 DEF Begun
        <4>2. QED
          BY <2>1, <4>1
      <3>2. CASE ~ (index + 1 < ThreadNum) /\ main' = "idle" /\ is_start'
        <4>1. Begun(k)'
          BY <3>2 DEF Begun
        <4>2. QED
          BY <2>1, <3>2, <4>1
      <3>3. QED
        BY <1>3, <3>1, <3>2
    <2>5. QED
      BY <1>2, <2>1, <2>2, <2>3, <2>4 DEF ThreadOf
  <1>5. QED
    BY <1>4 DEF Threads

\* Join keeps Threads.
LEMMA JoinThreads ==
    ASSUME IInv, join
    PROVE  Threads'
  <1>1. index \in Thread /\ main = "join" /\ thread[index] = "done"
    BY IndexIsThread DEF join, IInv
  <1>2. /\ UNCHANGED <<sem, ioc>> /\ thread'[index] = "none"
        /\ \A k \in Thread : k # index => thread'[k] = thread[k]
    BY <1>1 DEF join, IInv, TypeOK
  <1>3. \/ index + 1 < ThreadNum /\ main' = "stop" /\ index' = index + 1
        \/ ~ (index + 1 < ThreadNum) /\ main' \in {"idle", "gone"} /\ ~ is_start'
    BY DEF join
  <1>4. ASSUME NEW k \in Thread PROVE ThreadOf(k)'
    <2>1. /\ ThreadOf(k) /\ ThreadOf(index) /\ sem[k] \in Nat
          /\ k \in Nat /\ k < ThreadNum /\ index \in Nat /\ ThreadNum \in Nat
      BY <1>1, ThreadIsNumber DEF IInv, Threads, TypeOK
    <2>2. Begun(k) <=> index <= k
      BY <1>1 DEF Begun
    <2>3. Begun(k)' <=> index < k
      <3>1. CASE index + 1 < ThreadNum /\ main' = "stop" /\ index' = index + 1
        <4>1. Begun(k)' <=> index + 1 <= k
          BY <3>1 DEF Begun
        <4>2. QED
          BY <2>1, <4>1
      <3>2. CASE ~ (index + 1 < ThreadNum) /\ main' \in {"idle", "gone"} /\ ~ is_start'
        <4>1. ~ Begun(k)'
          BY <3>2 DEF Begun
        <4>2. QED
          BY <2>1, <3>2, <4>1
      <3>3. QED
        BY <1>3, <3>1, <3>2
    <2>4. CASE k = index
      <3>1. ~ Begun(k)'
        BY <2>1, <2>3, <2>4
      <3>2. QED
        BY <1>1, <1>2, <2>1, <2>4, <3>1 DEF ThreadOf, Up
    <2>5. CASE k # index
      <3>1. Begun(k)' <=> Begun(k)
        BY <2>1, <2>2, <2>3, <2>5
      <3>2. QED
        BY <1>1, <1>2, <2>1, <2>5, <3>1 DEF ThreadOf
    <2>6. QED
      BY <2>4, <2>5
  <1>5. QED
    BY <1>4 DEF Threads

\* The owner's index separates the threads that run from those that do not, and
\* sem_ tells the owner of a thread that has published its context.
LEMMA ThreadsStep == IInv /\ [Next]_vars => Threads'
  <1> SUFFICES ASSUME IInv, [Next]_vars PROVE Threads'
    OBVIOUS
  <1> USE ThreadNumAssumption, OwnerAssumption
          DEF IInv, TypeOK, Places, Threads, ThreadOf, Begun, Up, Thread, pool, owner, context,
              posters, history
  <1>1. ASSUME NEW p \in Poster, push(p) PROVE Threads'
    BY <1>1 DEF push
  <1>2. ASSUME NEW k \in Thread, threadMain(k) PROVE Threads'
    BY <1>2 DEF threadMain
  <1>3. ASSUME NEW k \in Thread, sem_post(k) PROVE Threads'
    BY <1>3, SemPostThreads
  <1>4. ASSUME NEW k \in Thread, enterLoop(k) PROVE Threads'
    BY <1>4 DEF enterLoop, use_service_reactor
  <1>5. ASSUME NEW k \in Thread, loop_wait(k) PROVE Threads'
    BY <1>5 DEF loop_wait
  <1>6. ASSUME NEW k \in Thread, execute(k) PROVE Threads'
    BY <1>6 DEF execute
  <1>7. ASSUME NEW k \in Thread, endOfBatch(k) PROVE Threads'
    BY <1>7 DEF endOfBatch
  <1>8. ASSUME NEW k \in Thread, leave(k) PROVE Threads'
    BY <1>8 DEF leave
  <1>9. ASSUME NEW k \in Thread, destroyContext(k) PROVE Threads'
    BY <1>9 DEF destroyContext
  <1>10. CASE construct
    BY <1>10 DEF construct
  <1>11. CASE start
    BY <1>11 DEF start
  <1>12. CASE startThread
    BY <1>12, StartThreads
  <1>13. CASE sem_wait
    BY <1>13, SemWaitThreads
  <1>14. ASSUME NEW delete \in BOOLEAN, stop(delete) PROVE Threads'
    BY <1>14 DEF stop
  <1>15. CASE destroyPool
    BY <1>15 DEF destroyPool
  <1>16. CASE stopThread
    BY <1>16 DEF stopThread
  <1>17. CASE join
    BY <1>17, JoinThreads
  <1>18. CASE UNCHANGED <<main, is_start, index, thread, sem, ioc>>
    BY <1>18
  <1> HIDE DEF IInv, TypeOK, Places, Threads, ThreadOf, Begun, Up, Thread
  <1>19. QED
    BY <1>1, <1>2, <1>3, <1>4, <1>5, <1>6, <1>7, <1>8, <1>9, <1>10, <1>11, <1>12, <1>13, <1>14,
       <1>15, <1>16, <1>17, <1>18
    DEF Next, OwnerStep, Post, ThreadStep, ClientStep, Poster, vars,
        postReactor, findBridge, createBridge, runTask, nextContext, compare_exchange,
        compareFails, returnContext, post, use_service_reactor

\* A context is not destroyed under its users: they dangle then.
LEMMA HoldersStep == IInv /\ [Next]_vars => Holders'
  <1> SUFFICES ASSUME IInv, [Next]_vars PROVE Holders'
    OBVIOUS
  <1> USE ThreadNumAssumption, OwnerAssumption
          DEF IInv, TypeOK, Places, Threads, ThreadOf, Holders, Using, Up, Poster, pool, owner,
              context, posters, history
  <1>1. ASSUME NEW p \in Poster, postReactor(p) PROVE Holders'
    BY <1>1 DEF postReactor, use_service_reactor
  <1>2. ASSUME NEW p \in Poster, findBridge(p) PROVE Holders'
    BY <1>2 DEF findBridge
  <1>3. ASSUME NEW p \in Poster, createBridge(p) PROVE Holders'
    BY <1>3 DEF createBridge
  <1>4. ASSUME NEW p \in Poster, push(p) PROVE Holders'
    BY <1>4 DEF push
  <1>5. ASSUME NEW k \in Thread, threadMain(k) PROVE Holders'
    BY <1>5 DEF threadMain
  <1>6. ASSUME NEW k \in Thread, sem_post(k) PROVE Holders'
    BY <1>6 DEF sem_post
  <1>7. ASSUME NEW k \in Thread, enterLoop(k) PROVE Holders'
    BY <1>7 DEF enterLoop, use_service_reactor
  <1>8. ASSUME NEW k \in Thread, loop_wait(k) PROVE Holders'
    BY <1>8 DEF loop_wait
  <1>9. ASSUME NEW k \in Thread, execute(k) PROVE Holders'
    BY <1>9 DEF execute
  <1>10. ASSUME NEW k \in Thread, endOfBatch(k) PROVE Holders'
    BY <1>10 DEF endOfBatch
  <1>11. ASSUME NEW k \in Thread, leave(k) PROVE Holders'
    BY <1>11 DEF leave
  <1>12. ASSUME NEW k \in Thread, destroyContext(k) PROVE Holders'
    BY <1>12 DEF destroyContext
  <1>13. CASE startThread
    <2>1. index \in Thread /\ thread[index] = "none"
      BY <1>13 DEF startThread, Begun, Thread
    <2>2. at' = at /\ ctx' = ctx /\ \A k \in Thread : k # index => thread'[k] = thread[k]
      BY <1>13 DEF startThread
    <2>3. QED
      BY <2>1, <2>2, UsedIsThread
  <1>14. CASE stopThread
    <2>1. index \in Thread /\ ThreadNum > 0 /\ Owner \in Poster
      BY <1>14 DEF stopThread, Thread
    <2>2. ioc[index] => thread[index] \in Up
      BY <2>1
    <2>3. /\ at'[Owner] = IF ioc[index] THEN "reactor" ELSE "dangling"
          /\ ctx'[Owner] = index /\ thread' = thread
          /\ \A p \in Poster : p # Owner => at'[p] = at[p] /\ ctx'[p] = ctx[p]
      BY <1>14, <2>1 DEF stopThread
    <2>4. ASSUME NEW p \in Poster
          PROVE  /\ at'[p] \in Using \cup {"loaded", "chosen"} => ThreadNum > 0
                 /\ at'[p] \in Using => thread'[ctx'[p]] \in Up \cup {"destroy"}
      BY <2>1, <2>2, <2>3
    <2>5. QED
      BY <2>4
  <1>15. CASE join
    BY <1>15 DEF join
  <1>16. ASSUME NEW c \in Client, nextContext(c) PROVE Holders'
    <2>1. /\ c \in Poster /\ thread' = thread
          /\ at'[c] = IF ThreadNum = 0 THEN "trapped" ELSE "loaded"
          /\ \A p \in Poster : p # c => at'[p] = at[p] /\ ctx'[p] = ctx[p]
      BY <1>16 DEF nextContext
    <2>2. at'[c] \notin Using /\ (at'[c] = "loaded" => ThreadNum > 0)
      BY <2>1
    <2>3. ASSUME NEW p \in Poster
          PROVE  /\ at'[p] \in Using \cup {"loaded", "chosen"} => ThreadNum > 0
                 /\ at'[p] \in Using => thread'[ctx'[p]] \in Up \cup {"destroy"}
      <3>1. CASE p = c
        BY <2>1, <2>2, <3>1
      <3>2. CASE p # c
        BY <2>1, <3>2
      <3>3. QED
        BY <3>1, <3>2
    <2>4. QED
      BY <2>3
  <1>17. ASSUME NEW c \in Client, compare_exchange(c) PROVE Holders'
    BY <1>17 DEF compare_exchange
  <1>18. ASSUME NEW c \in Client, compareFails(c) PROVE Holders'
    BY <1>18 DEF compareFails
  <1>19. ASSUME NEW c \in Client, returnContext(c) PROVE Holders'
    <2>1. c \in Poster /\ ctx[c] \in Thread
      BY <1>19, UsedIsThread DEF returnContext
    <2>2. ioc[ctx[c]] => thread[ctx[c]] \in Up
      BY <2>1
    <2>3. /\ at'[c] = IF ioc[ctx[c]] THEN "holds" ELSE "dangling"
          /\ ctx' = ctx /\ thread' = thread /\ ThreadNum > 0
          /\ \A p \in Poster : p # c => at'[p] = at[p]
      BY <1>19, <2>1 DEF returnContext
    <2>4. QED
      BY <2>1, <2>2, <2>3
  <1>20. ASSUME NEW c \in Client, NEW k \in {"work", "quit"}, post(c, k) PROVE Holders'
    BY <1>20 DEF post
  <1>21. CASE UNCHANGED <<at, ctx, thread>>
    BY <1>21
  <1> HIDE DEF IInv, TypeOK, Places, Threads, ThreadOf, Holders, Using, Up, Poster
  <1>22. QED
    BY <1>1, <1>2, <1>3, <1>4, <1>5, <1>6, <1>7, <1>8, <1>9, <1>10, <1>11, <1>12, <1>13, <1>14,
       <1>15, <1>16, <1>17, <1>18, <1>19, <1>20, <1>21
    DEF Next, OwnerStep, Post, ThreadStep, ClientStep, Poster, vars,
        runTask, construct, start, sem_wait, stop, destroyPool, nextStart
----------------------------------------------------------------------------
(* The services. *)

\* The lists of services that occur.
LEMMA ServiceLists ==
    /\ <<>> # R /\ <<>> # RB /\ R # RB
    /\ Append(<<>>, "reactor") = R
    /\ Append(R, "bridge") = RB
    /\ \A n \in DOMAIN <<>> : FALSE
    /\ DOMAIN R = {1} /\ R[1] = "reactor"
    /\ DOMAIN RB = {1, 2} /\ RB[1] = "reactor" /\ RB[2] = "bridge"
  <1>1. Len(<<>>) = 0 /\ Len(R) = 1 /\ Len(RB) = 2
    BY DEF R, RB
  <1>2. R[1] = "reactor" /\ RB[1] = "reactor" /\ RB[2] = "bridge"
    BY DEF R, RB
  <1>3. Append(<<>>, "reactor") = R /\ Append(R, "bridge") = RB
    <2> DEFINE S == {"reactor", "bridge"}
               t == Append(R, "bridge")
    <2>1. Append(<<>>, "reactor") = R
      BY DEF R
    <2>2. R \in Seq(S) /\ RB \in Seq(S) /\ "bridge" \in S
      BY DEF R, RB
    <2>3. t \in Seq(S) /\ Len(t) = 2 /\ t[1] = R[1] /\ t[2] = "bridge"
      <3> HIDE DEF S
      <3>1. /\ t \in Seq(S) /\ Len(t) = Len(R) + 1 /\ t[Len(R) + 1] = "bridge"
            /\ \A i \in 1..Len(R) : t[i] = R[i]
        BY <2>2, AppendProperties
      <3>2. 1 + 1 = 2 /\ 1 \in 1..1
        OBVIOUS
      <3>3. QED
        BY <1>1, <3>1, <3>2
    <2>4. \A i \in 1..Len(t) : t[i] = RB[i]
      BY <1>2, <2>3
    <2>5. t = RB
      BY <1>1, <2>2, <2>3, <2>4, SeqEqual
    <2>6. QED
      BY <2>1, <2>5
  <1>4. \A n \in DOMAIN <<>> : FALSE
    OBVIOUS
  <1>5. DOMAIN R = {1}
    BY DEF R
  <1>6. DOMAIN RB = {1, 2}
    BY DEF RB
  <1>7. <<>> # R /\ <<>> # RB /\ R # RB
    BY <1>1
  <1>8. QED
    BY <1>2, <1>3, <1>4, <1>5, <1>6, <1>7

\* Which services a context has, by the list of them.
LEMMA WhatExists ==
    ASSUME Services, NEW k \in Thread
    PROVE  /\ Exists(k, "reactor") <=> services[k] # <<>>
           /\ Exists(k, "bridge") <=> services[k] = RB
  <1>1. services[k] \in {<<>>, R, RB}
    BY DEF Services, ServicesOf
  <1>2. QED
    BY <1>1, ServiceLists DEF Exists

\* The reactor is created when it is not there, and then nothing else is.
LEMMA ReactorEffect ==
    ASSUME TypeOK, Services, NEW k \in Thread, use_service_reactor(k)
    PROVE  /\ ~ Locked(k)
           /\ services'[k] = IF services[k] = <<>> THEN R ELSE services[k]
           /\ \A j \in Thread : j # k => services'[j] = services[j] /\ quit'[j] = quit[j]
           /\ services[k] # <<>> => quit' = quit
  <1>1. CASE services[k] = <<>>
    <2>1. /\ services' = [services EXCEPT ![k] = Append(@, "reactor")]
          /\ quit' = [quit EXCEPT ![k] = TRUE] /\ ~ Locked(k)
      BY <1>1, WhatExists DEF use_service_reactor
    <2>2. services'[k] = R /\ \A j \in Thread : j # k => services'[j] = services[j]
      BY <1>1, <2>1, ServiceLists DEF TypeOK
    <2>3. \A j \in Thread : j # k => quit'[j] = quit[j]
      BY <2>1, Zenon DEF TypeOK
    <2>4. QED
      BY <1>1, <2>1, <2>2, <2>3
  <1>2. CASE services[k] # <<>>
    BY <1>2, WhatExists DEF use_service_reactor
  <1>3. QED
    BY <1>1, <1>2

\* A step that touches only the services of context k, and adds to them what is
\* due, keeps what is known of the others.
LEMMA ReactorKeepsServices ==
    ASSUME IInv, NEW k \in Thread, use_service_reactor(k), UNCHANGED <<task_list, batch>>,
           \A j \in Thread : \/ thread'[j] = thread[j]
                             \/ j = k /\ thread[j] = "enter" /\ thread'[j] = "wait"
    PROVE  Services'
  <1>1. /\ services'[k] = IF services[k] = <<>> THEN R ELSE services[k]
        /\ \A j \in Thread : j # k => services'[j] = services[j]
    BY ReactorEffect DEF IInv
  <1>2. ASSUME NEW j \in Thread PROVE ServicesOf(j)'
    <2>1. ServicesOf(j)
      BY DEF IInv, Services
    <2>2. CASE j = k
      BY <1>1, <2>1, <2>2, ServiceLists DEF ServicesOf
    <2>3. CASE j # k
      BY <1>1, <2>1, <2>3 DEF ServicesOf
    <2>4. QED
      BY <2>2, <2>3
  <1>3. QED
    BY <1>2 DEF Services

\* Create keeps Services.
LEMMA CreateServices ==
    ASSUME IInv, NEW p \in Poster, createBridge(p)
    PROVE  Services'
  <1>1. ctx[p] \in Thread /\ services[ctx[p]] = R
    BY UsedIsThread DEF createBridge, IInv, Creators, Using
  <1>2. /\ services'[ctx[p]] = RB /\ UNCHANGED <<task_list, batch, thread>>
        /\ \A j \in Thread : j # ctx[p] => services'[j] = services[j]
    BY <1>1, ServiceLists DEF createBridge, IInv, TypeOK
  <1>3. ASSUME NEW j \in Thread PROVE ServicesOf(j)'
    <2>1. ServicesOf(j)
      BY DEF IInv, Services
    <2>2. QED
      BY <1>2, <2>1, ServiceLists DEF ServicesOf
  <1>4. QED
    BY <1>3 DEF Services

\* Push keeps Services.
LEMMA PushServices ==
    ASSUME IInv, NEW p \in Poster, push(p)
    PROVE  Services'
  <1>1. ctx[p] \in Thread /\ services[ctx[p]] = RB
    BY UsedIsThread DEF push, IInv, Creators, Using
  <1>2. /\ UNCHANGED <<services, batch, thread>>
        /\ \A j \in Thread : j # ctx[p] => task_list'[j] = task_list[j]
    BY <1>1 DEF push, IInv, TypeOK
  <1>3. ASSUME NEW j \in Thread PROVE ServicesOf(j)'
    <2>1. ServicesOf(j)
      BY DEF IInv, Services
    <2>2. QED
      BY <1>1, <1>2, <2>1 DEF ServicesOf
  <1>4. QED
    BY <1>3 DEF Services

\* Start keeps Services.
LEMMA StartServices ==
    ASSUME IInv, startThread
    PROVE  Services'
  <1>1. index \in Thread /\ main = "start"
    BY IndexIsThread DEF startThread, IInv
  <1>2. thread[index] = "none"
    BY <1>1, ThreadIsNumber DEF IInv, Threads, ThreadOf, Begun
  <1>3. /\ UNCHANGED <<services, task_list, batch>> /\ thread'[index] = "created"
        /\ \A j \in Thread : j # index => thread'[j] = thread[j]
    BY <1>1 DEF startThread, IInv, TypeOK, context
  <1>4. ASSUME NEW j \in Thread PROVE ServicesOf(j)'
    <2>1. ServicesOf(j)
      BY DEF IInv, Services
    <2>2. QED
      BY <1>2, <1>3, <2>1 DEF ServicesOf
  <1>5. QED
    BY <1>4 DEF Services

\* The services of a context come in order, and tasks come after them.
LEMMA ServicesStep == IInv /\ [Next]_vars => Services'
  <1> SUFFICES ASSUME IInv, [Next]_vars PROVE Services'
    OBVIOUS
  <1> USE ThreadNumAssumption, OwnerAssumption, ServiceLists, UsedIsThread
          DEF IInv, TypeOK, Services, ServicesOf, Using, pool, owner, context, posters, history
  <1>1. ASSUME NEW p \in Poster, postReactor(p) PROVE Services'
    BY <1>1, ReactorKeepsServices DEF postReactor
  <1>2. ASSUME NEW p \in Poster, createBridge(p) PROVE Services'
    BY <1>2, CreateServices
  <1>3. ASSUME NEW p \in Poster, push(p) PROVE Services'
    BY <1>3, PushServices
  <1>4. ASSUME NEW k \in Thread, threadMain(k) PROVE Services'
    BY <1>4 DEF threadMain
  <1>5. ASSUME NEW k \in Thread, sem_post(k) PROVE Services'
    BY <1>5 DEF sem_post
  <1>6. ASSUME NEW k \in Thread, enterLoop(k) PROVE Services'
    BY <1>6, ReactorKeepsServices DEF enterLoop
  <1>7. ASSUME NEW k \in Thread, loop_wait(k) PROVE Services'
    BY <1>7 DEF loop_wait
  <1>8. ASSUME NEW k \in Thread, execute(k) PROVE Services'
    BY <1>8 DEF execute
  <1>9. ASSUME NEW k \in Thread, runTask(k) PROVE Services'
    BY <1>9 DEF runTask
  <1>10. ASSUME NEW k \in Thread, endOfBatch(k) PROVE Services'
    BY <1>10 DEF endOfBatch
  <1>11. ASSUME NEW k \in Thread, leave(k) PROVE Services'
    BY <1>11 DEF leave
  <1>12. ASSUME NEW k \in Thread, destroyContext(k) PROVE Services'
    BY <1>12 DEF destroyContext
  <1>13. CASE startThread
    BY <1>13, StartServices
  <1>14. CASE join
    BY <1>14 DEF join
  <1>15. CASE UNCHANGED <<services, thread, task_list, batch>>
    BY <1>15
  <1> HIDE DEF IInv, TypeOK, Services, ServicesOf, Using
  <1>16. QED
    BY <1>1, <1>2, <1>3, <1>4, <1>5, <1>6, <1>7, <1>8, <1>9, <1>10, <1>11, <1>12, <1>13, <1>14,
       <1>15
    DEF Next, OwnerStep, Post, ThreadStep, ClientStep, Poster, vars,
        findBridge, construct, start, sem_wait, stop, destroyPool, stopThread, nextContext,
        compare_exchange, compareFails, returnContext, post, nextStart

\* Creating the reactor disturbs nobody who creates or has created the bridge.
LEMMA ReactorKeepsCreators ==
    ASSUME IInv, NEW k \in Thread, use_service_reactor(k), ctx' = ctx,
           \A p \in Poster : \/ at'[p] = at[p]
                             \/ at'[p] = "find" /\ ctx[p] = k
    PROVE  Creators'
  <1>1. /\ services'[k] = IF services[k] = <<>> THEN R ELSE services[k]
        /\ \A j \in Thread : j # k => services'[j] = services[j]
    BY ReactorEffect DEF IInv
  <1>2. ASSUME NEW p \in Poster
        PROVE  /\ at'[p] = "find" => services'[ctx'[p]] # <<>>
               /\ at'[p] = "create" => services'[ctx'[p]] = R
               /\ at'[p] = "push" => services'[ctx'[p]] = RB
    <2>1. CASE at'[p] = at[p] /\ at[p] \in Using
      <3>1. ctx[p] \in Thread
        BY <2>1, UsedIsThread DEF IInv
      <3>2. QED
        BY <1>1, <2>1, <3>1, ServiceLists DEF IInv, Creators
    <2>2. CASE at'[p] = "find" /\ ctx[p] = k
      BY <1>1, <2>2, ServiceLists
    <2>3. CASE at'[p] = at[p] /\ at[p] \notin Using
      BY <2>3 DEF Using
    <2>4. QED
      BY <2>1, <2>2, <2>3
  <1>3. \A p, q \in Poster : at'[p] = "create" /\ at'[q] = "create" /\ ctx'[p] = ctx'[q] => p = q
    BY DEF IInv, Creators
  <1>4. QED
    BY <1>2, <1>3 DEF Creators

\* Find keeps Creators.
LEMMA FindCreators ==
    ASSUME IInv, NEW p \in Poster, findBridge(p)
    PROVE  Creators'
  <1>1. /\ ctx[p] \in Thread /\ services[ctx[p]] # <<>>
        /\ \A q \in Poster : ~ (at[q] = "create" /\ ctx[q] = ctx[p])
    BY UsedIsThread DEF findBridge, IInv, Creators, Using, Locked
  <1>2. services[ctx[p]] \in {R, RB} /\ (Exists(ctx[p], "bridge") <=> services[ctx[p]] = RB)
    BY <1>1, WhatExists DEF IInv, Services, ServicesOf
  <1>3. /\ UNCHANGED <<services, ctx>>
        /\ at'[p] = IF services[ctx[p]] = RB THEN "push" ELSE "create"
        /\ \A q \in Poster : q # p => at'[q] = at[q]
    BY <1>2 DEF findBridge, IInv, TypeOK, context
  <1>4. QED
    BY <1>1, <1>2, <1>3 DEF IInv, Creators

\* Nobody uses a context before its thread has made it.
LEMMA MakeCreators ==
    ASSUME IInv, NEW k \in Thread, threadMain(k)
    PROVE  Creators'
  <1>1. /\ UNCHANGED <<at, ctx>> /\ thread[k] = "created"
        /\ \A j \in Thread : j # k => services'[j] = services[j]
    BY DEF threadMain, IInv, TypeOK, posters
  <1>2. ASSUME NEW p \in Poster, at[p] \in Using PROVE ctx[p] \in Thread /\ ctx[p] # k
    BY <1>1, <1>2, UsedIsThread DEF IInv, Holders, Up
  <1>3. QED
    BY <1>1, <1>2 DEF IInv, Creators, Using

\* One thread at a time creates the bridge of a context.
LEMMA CreatorsStep == IInv /\ [Next]_vars => Creators'
  <1> SUFFICES ASSUME IInv, [Next]_vars PROVE Creators'
    OBVIOUS
  <1> USE ThreadNumAssumption, OwnerAssumption, ServiceLists, UsedIsThread
          DEF IInv, TypeOK, Creators, Using, Poster, pool, owner, context, posters, history
  <1>1. ASSUME NEW p \in Poster, postReactor(p) PROVE Creators'
    <2>1. ctx[p] \in Thread /\ use_service_reactor(ctx[p]) /\ ctx' = ctx
      BY <1>1 DEF postReactor
    <2>2. \A q \in Poster : at'[q] = at[q] \/ (at'[q] = "find" /\ ctx[q] = ctx[p])
      BY <1>1 DEF postReactor
    <2>3. QED
      BY <2>1, <2>2, ReactorKeepsCreators
  <1>2. ASSUME NEW p \in Poster, findBridge(p) PROVE Creators'
    BY <1>2, FindCreators
  <1>3. ASSUME NEW p \in Poster, createBridge(p) PROVE Creators'
    BY <1>3 DEF createBridge
  <1>4. ASSUME NEW p \in Poster, push(p) PROVE Creators'
    BY <1>4 DEF push
  <1>5. ASSUME NEW k \in Thread, threadMain(k) PROVE Creators'
    BY <1>5, MakeCreators
  <1>6. ASSUME NEW k \in Thread, enterLoop(k) PROVE Creators'
    BY <1>6, ReactorKeepsCreators DEF enterLoop
  <1>7. ASSUME NEW k \in Thread, destroyContext(k) PROVE Creators'
    BY <1>7 DEF destroyContext
  <1>8. CASE stopThread
    BY <1>8 DEF stopThread
  <1>9. ASSUME NEW c \in Client, nextContext(c) PROVE Creators'
    BY <1>9 DEF nextContext
  <1>10. ASSUME NEW c \in Client, compare_exchange(c) PROVE Creators'
    BY <1>10 DEF compare_exchange
  <1>11. ASSUME NEW c \in Client, compareFails(c) PROVE Creators'
    BY <1>11 DEF compareFails
  <1>12. ASSUME NEW c \in Client, returnContext(c) PROVE Creators'
    BY <1>12 DEF returnContext
  <1>13. ASSUME NEW c \in Client, NEW k \in {"work", "quit"}, post(c, k) PROVE Creators'
    BY <1>13 DEF post
  <1>14. CASE UNCHANGED <<services, at, ctx>>
    BY <1>14
  <1> HIDE DEF IInv, TypeOK, Creators, Using, Poster
  <1>15. QED
    BY <1>1, <1>2, <1>3, <1>4, <1>5, <1>6, <1>7, <1>8, <1>9, <1>10, <1>11, <1>12, <1>13, <1>14
    DEF Next, OwnerStep, Post, ThreadStep, ClientStep, Poster, vars,
        sem_post, loop_wait, execute, runTask, endOfBatch, leave, construct, start, startThread,
        sem_wait, stop, destroyPool, join, nextStart

----------------------------------------------------------------------------
(* Quitting. *)

\* No tasks: none quits, and all are late.
LEMMA NoTasks == ~ Quits(<<>>) /\ AllLate(<<>>)
  BY DEF Quits, AllLate

\* A task more at the end of a list.
LEMMA OneTaskMore ==
    ASSUME NEW s \in Seq(Task), NEW t \in Task
    PROVE  /\ Quits(Append(s, t)) => Quits(s) \/ t.kind = "quit"
           /\ AllLate(s) /\ t.late => AllLate(Append(s, t))
  <1>1. /\ DOMAIN s = 1..Len(s) /\ DOMAIN Append(s, t) = 1..Len(s) + 1 /\ Len(s) \in Nat
        /\ Append(s, t)[Len(s) + 1] = t
        /\ \A i \in 1..Len(s) : Append(s, t)[i] = s[i]
    OBVIOUS
  <1>2. \A i \in 1..Len(s) + 1 : i \in 1..Len(s) \/ i = Len(s) + 1
    BY <1>1
  <1>3. QED
    BY <1>1, <1>2, Zenon DEF Quits, AllLate

\* A task less at the front of a list.
LEMMA OneTaskLess ==
    ASSUME NEW s \in Seq(Task), s # <<>>
    PROVE  (Head(s).kind = "quit" \/ Quits(Tail(s))) => Quits(s)
  <1>1. /\ DOMAIN s = 1..Len(s) /\ Len(s) \in Nat /\ Len(s) > 0
        /\ DOMAIN Tail(s) = 1..Len(s) - 1 /\ Head(s) = s[1]
        /\ \A i \in 1..Len(s) - 1 : Tail(s)[i] = s[i + 1]
    OBVIOUS
  <1>2. 1 \in 1..Len(s) /\ \A i \in 1..Len(s) - 1 : i + 1 \in 1..Len(s)
    BY <1>1
  <1>3. QED
    BY <1>1, <1>2 DEF Quits

\* Creating the reactor keeps Quitting.
LEMMA ReactorKeepsQuitting ==
    ASSUME IInv, NEW k \in Thread, use_service_reactor(k),
           UNCHANGED <<task_list, batch, quitting, thread>>
    PROVE  Quitting'
  <1>1. /\ \A j \in Thread : j # k => quit'[j] = quit[j]
        /\ services[k] # <<>> => quit' = quit
    BY ReactorEffect DEF IInv
  <1>2. ASSUME NEW j \in Thread PROVE QuittingOf(j)'
    <2>1. QuittingOf(j) /\ ServicesOf(j)
      BY DEF IInv, Quitting, Services
    <2>2. CASE quit'[j] = quit[j]
      BY <2>1, <2>2 DEF QuittingOf
    <2>3. CASE quit'[j] # quit[j]
      <3>1. thread[j] \notin {"poll", "run", "leave", "destroy"}
        BY <1>1, <2>1, <2>3, ServiceLists DEF ServicesOf
      <3>2. QED
        BY <2>1, <3>1 DEF QuittingOf
    <2>4. QED
      BY <2>2, <2>3
  <1>3. QED
    BY <1>2 DEF Quitting

\* Push keeps Quitting.
LEMMA PushQuitting ==
    ASSUME IInv, NEW p \in Poster, push(p)
    PROVE  Quitting'
  <1> DEFINE k == ctx[p]
             t == [kind |-> kind[p], late |-> quitting[k]]
  <1>1. k \in Thread
    BY UsedIsThread DEF push, IInv, Using
  <1>2. /\ t \in Task /\ t.kind = kind[p] /\ t.late = quitting[k]
        /\ task_list[k] \in Seq(Task)
    BY <1>1 DEF IInv, TypeOK, Task
  <1>3. /\ UNCHANGED <<batch, thread, quit>>
        /\ task_list'[k] = Append(task_list[k], t)
        /\ \A j \in Thread : j # k => task_list'[j] = task_list[j]
    BY <1>1 DEF push, IInv, TypeOK
  <1>4. /\ quitting'[k] <=> (quitting[k] \/ kind[p] = "quit")
        /\ \A j \in Thread : j # k => quitting'[j] = quitting[j]
    BY <1>1, Zenon DEF push, IInv, TypeOK
  <1> HIDE DEF t
  <1>5. /\ Quits(task_list'[k]) => Quits(task_list[k]) \/ kind[p] = "quit"
        /\ AllLate(task_list[k]) /\ quitting[k] => AllLate(task_list'[k])
    BY <1>2, <1>3, OneTaskMore
  <1>6. ASSUME NEW j \in Thread PROVE QuittingOf(j)'
    <2>1. QuittingOf(j)
      BY DEF IInv, Quitting
    <2>2. CASE j = k
      BY <1>3, <1>4, <1>5, <2>1, <2>2 DEF QuittingOf, Ending
    <2>3. CASE j # k
      BY <1>3, <1>4, <2>1, <2>3 DEF QuittingOf
    <2>4. QED
      BY <2>2, <2>3
  <1>7. QED
    BY <1>6 DEF Quitting

\* Make keeps Quitting.
LEMMA MakeQuitting ==
    ASSUME IInv, NEW k \in Thread, threadMain(k)
    PROVE  Quitting'
  <1>1. batch[k] = <<>>
    BY DEF threadMain, IInv, Services, ServicesOf
  <1>2. /\ UNCHANGED <<batch, quit>> /\ thread'[k] = "publish" /\ task_list'[k] = <<>>
        /\ \A j \in Thread : j # k => thread'[j] = thread[j] /\ task_list'[j] = task_list[j]
    BY DEF threadMain, IInv, TypeOK
  <1>3. \A j \in Thread : j # k => quitting'[j] = quitting[j]
    BY DEF threadMain, IInv, TypeOK
  <1>4. ASSUME NEW j \in Thread PROVE QuittingOf(j)'
    <2>1. QuittingOf(j)
      BY DEF IInv, Quitting
    <2>2. CASE j = k
      BY <1>1, <1>2, <2>2, NoTasks DEF QuittingOf, Ending
    <2>3. CASE j # k
      BY <1>2, <1>3, <2>1, <2>3 DEF QuittingOf
    <2>4. QED
      BY <2>2, <2>3
  <1>5. QED
    BY <1>4 DEF Quitting

\* Run keeps Quitting.
LEMMA RunQuitting ==
    ASSUME IInv, NEW k \in Thread, runTask(k)
    PROVE  Quitting'
  <1>1. batch[k] \in Seq(Task) /\ batch[k] # <<>> /\ thread[k] = "run"
    BY DEF runTask, IInv, TypeOK
  <1>2. Head(batch[k]).kind = "quit" \/ Quits(Tail(batch[k])) => Quits(batch[k])
    BY <1>1, OneTaskLess
  <1>3. /\ UNCHANGED <<task_list, thread, quitting>> /\ batch'[k] = Tail(batch[k])
        /\ \A j \in Thread : j # k => batch'[j] = batch[j]
    BY DEF runTask, IInv, TypeOK, history
  <1>4. /\ quit'[k] <=> (quit[k] \/ Head(batch[k]).kind = "quit")
        /\ \A j \in Thread : j # k => quit'[j] = quit[j]
    <2>1. CASE Head(batch[k]).kind = "quit"
      BY <2>1, Zenon DEF runTask, IInv, TypeOK
    <2>2. CASE Head(batch[k]).kind # "quit"
      BY <2>2 DEF runTask
    <2>3. QED
      BY <2>1, <2>2
  <1>5. ASSUME NEW j \in Thread PROVE QuittingOf(j)'
    <2>1. QuittingOf(j)
      BY DEF IInv, Quitting
    <2>2. CASE j = k
      BY <1>1, <1>2, <1>3, <1>4, <2>1, <2>2 DEF QuittingOf, Ending
    <2>3. CASE j # k
      BY <1>3, <1>4, <2>1, <2>3 DEF QuittingOf
    <2>4. QED
      BY <2>2, <2>3
  <1>6. QED
    BY <1>5 DEF Quitting

\* A loop ends by a task that quits, after the tasks taken with it.
LEMMA QuittingStep == IInv /\ [Next]_vars => Quitting'
  <1> SUFFICES ASSUME IInv, [Next]_vars PROVE Quitting'
    OBVIOUS
  <1> USE ThreadNumAssumption, OwnerAssumption, NoTasks
          DEF IInv, TypeOK, Quitting, QuittingOf, Ending, pool, owner, context, posters, history
  <1>1. ASSUME NEW p \in Poster, postReactor(p) PROVE Quitting'
    <2>1. ctx[p] \in Thread /\ use_service_reactor(ctx[p])
      BY <1>1, UsedIsThread DEF postReactor, Using
    <2>2. QED
      BY <1>1, <2>1, ReactorKeepsQuitting DEF postReactor
  <1>2. ASSUME NEW p \in Poster, push(p) PROVE Quitting'
    BY <1>2, PushQuitting
  <1>3. ASSUME NEW k \in Thread, threadMain(k) PROVE Quitting'
    BY <1>3, MakeQuitting
  <1>4. ASSUME NEW k \in Thread, sem_post(k) PROVE Quitting'
    BY <1>4 DEF sem_post
  <1>5. ASSUME NEW k \in Thread, enterLoop(k) PROVE Quitting'
    BY <1>5 DEF enterLoop, use_service_reactor
  <1>6. ASSUME NEW k \in Thread, loop_wait(k) PROVE Quitting'
    BY <1>6 DEF loop_wait
  <1>7. ASSUME NEW k \in Thread, execute(k) PROVE Quitting'
    BY <1>7 DEF execute
  <1>8. ASSUME NEW k \in Thread, runTask(k) PROVE Quitting'
    BY <1>8, RunQuitting
  <1>9. ASSUME NEW k \in Thread, endOfBatch(k) PROVE Quitting'
    BY <1>9 DEF endOfBatch
  <1>10. ASSUME NEW k \in Thread, leave(k) PROVE Quitting'
    BY <1>10 DEF leave
  <1>11. ASSUME NEW k \in Thread, destroyContext(k) PROVE Quitting'
    BY <1>11 DEF destroyContext
  <1>12. CASE startThread
    BY <1>12 DEF startThread
  <1>13. CASE join
    BY <1>13 DEF join
  <1>14. CASE UNCHANGED <<task_list, batch, quitting, thread, quit>>
    BY <1>14
  <1> HIDE DEF IInv, TypeOK, Quitting, QuittingOf, Ending
  <1>15. QED
    BY <1>1, <1>2, <1>3, <1>4, <1>5, <1>6, <1>7, <1>8, <1>9, <1>10, <1>11, <1>12, <1>13, <1>14
    DEF Next, OwnerStep, Post, ThreadStep, ClientStep, Poster, vars,
        findBridge, createBridge, construct, start, sem_wait, stop, destroyPool, stopThread,
        nextContext, compare_exchange, compareFails, returnContext, post, nextStart

----------------------------------------------------------------------------
(* Without misuse. *)

\* A thread that has begun, and has neither to publish its context nor been told
\* to quit, has it published.
LEMMA BegunIsUp ==
    ASSUME IInv, ~ misuse, main \notin {"wait", "join"}, NEW k \in Thread, Begun(k)
    PROVE  ioc[k]
  <1>1. ThreadOf(k) /\ QuittingOf(k)
    BY DEF IInv, Threads, Quitting
  <1>2. thread[k] \notin {"none", "created", "publish"}
    BY <1>1 DEF ThreadOf
  <1>3. thread[k] \notin Ending
    BY <1>1, <1>2 DEF QuittingOf, IInv, Gentle
  <1>4. thread[k] \in Up
    BY <1>2, <1>3 DEF IInv, TypeOK, Up, Ending
  <1>5. QED
    BY <1>1, <1>4 DEF ThreadOf

\* Push keeps Gentle.
LEMMA PushGentle ==
    ASSUME IInv, NEW p \in Poster, push(p), ~ misuse
    PROVE  Gentle'
  <1>1. ctx[p] \in Thread
    BY UsedIsThread DEF push, IInv, Using
  <1>2. /\ UNCHANGED <<is_start, index, thread, kind>>
        /\ at'[p] = "idle" /\ \A q \in Poster : q # p => at'[q] = at[q]
    BY DEF push, IInv, TypeOK, pool
  <1>3. CASE p = Owner
    <2>1. main = "post" /\ ctx[p] = index /\ main' = "join"
      BY <1>3 DEF push, IInv, Places
    <2>2. \A c \in Client : at'[c] = "idle"
      BY <1>2, <1>3, <2>1, OwnerAssumption DEF IInv, Gentle, Poster
    <2>3. \A j \in Thread : j # index => quitting'[j] = quitting[j]
      BY <1>1, <2>1 DEF push, IInv, TypeOK
    <2>4. \A j \in Thread : quitting'[j] /\ thread'[j] \notin {"none", "created"} =>
             main' = "join" /\ j = index'
      BY <1>2, <2>1, <2>3 DEF IInv, Gentle
    <2>5. QED
      BY <1>2, <2>2, <2>4 DEF IInv, Gentle
  <1>4. CASE p # Owner
    <2>1. p \in Client /\ kind[p] = "work" /\ main' = main
      BY <1>4 DEF push, IInv, Gentle, Poster
    <2>2. \A j \in Thread : quitting'[j] = quitting[j]
      BY <1>1, <2>1 DEF push, IInv, TypeOK
    <2>3. QED
      BY <1>2, <2>1, <2>2 DEF IInv, Gentle, Poster
  <1>5. QED
    BY <1>3, <1>4

\* Destroy keeps Gentle.
LEMMA DestroyGentle ==
    ASSUME IInv, NEW k \in Thread, destroyContext(k), ~ misuse
    PROVE  Gentle'
  <1>1. thread[k] = "destroy" /\ quitting[k]
    BY DEF destroyContext, IInv, Quitting, QuittingOf, Ending
  <1>2. main = "join"
    BY <1>1 DEF IInv, Gentle
  <1>3. \A p \in Poster : at[p] = "idle"
    BY <1>2 DEF IInv, Gentle, Places, Poster
  <1>4. /\ UNCHANGED <<main, is_start, index, quitting>>
        /\ \A j \in Thread : j # k => thread'[j] = thread[j]
        /\ \A p \in Poster : at'[p] = "idle"
    BY <1>3 DEF destroyContext, IInv, TypeOK, pool, owner, history
  <1>5. QED
    BY <1>1, <1>2, <1>4 DEF IInv, Gentle, Poster

\* Stop keeps Gentle.
LEMMA StopGentle ==
    ASSUME IInv, stopThread, ~ misuse
    PROVE  Gentle'
  <1>1. index \in Thread /\ main = "stop"
    BY IndexIsThread DEF stopThread, IInv
  <1>2. Begun(index)
    BY <1>1, ThreadIsNumber DEF Begun
  <1>3. ioc[index]
    BY <1>1, <1>2, BegunIsUp
  <1>4. /\ UNCHANGED <<is_start, index, quitting, thread>> /\ main' = "post"
        /\ at'[Owner] = "reactor"
        /\ \A p \in Poster : p # Owner => at'[p] = at[p] /\ kind'[p] = kind[p]
    BY <1>3 DEF stopThread, IInv, TypeOK, pool, owner, history, Poster
  <1>5. \A c \in Client : at'[c] = "idle"
    BY <1>1, <1>4, OwnerAssumption DEF IInv, Gentle, Poster
  <1>6. QED
    BY <1>1, <1>4, <1>5 DEF IInv, Gentle

\* Return keeps Gentle.
LEMMA ReturnGentle ==
    ASSUME IInv, NEW c \in Client, returnContext(c), ~ misuse
    PROVE  Gentle'
  <1>1. c \in Poster /\ at[c] = "chosen"
    BY DEF returnContext, Poster
  <1>2. ctx[c] \in Thread /\ main = "idle" /\ is_start
    BY <1>1, UsedIsThread DEF IInv, Gentle
  <1>3. ioc[ctx[c]]
    BY <1>2, BegunIsUp DEF Begun
  <1>4. /\ UNCHANGED <<main, is_start, index, quitting, thread, kind>> /\ at'[c] = "holds"
        /\ \A p \in Poster : p # c => at'[p] = at[p]
    BY <1>1, <1>3 DEF returnContext, IInv, TypeOK, pool, owner, history
  <1>5. QED
    BY <1>2, <1>4 DEF IInv, Gentle, Poster

\* The owner stops the pool after its clients, and is the only one who does.
LEMMA GentleStep == IInv /\ [Next]_vars => Gentle'
  <1> SUFFICES ASSUME IInv, [Next]_vars PROVE Gentle'
    OBVIOUS
  <1> USE ThreadNumAssumption, OwnerAssumption
          DEF IInv, TypeOK, Gentle, Poster, pool, owner, context, posters, history
  <1>1. ASSUME NEW p \in Poster, postReactor(p) PROVE Gentle'
    BY <1>1 DEF postReactor, use_service_reactor
  <1>2. ASSUME NEW p \in Poster, findBridge(p) PROVE Gentle'
    BY <1>2 DEF findBridge
  <1>3. ASSUME NEW p \in Poster, createBridge(p) PROVE Gentle'
    BY <1>3 DEF createBridge
  <1>4. ASSUME NEW p \in Poster, push(p) PROVE Gentle'
    <2>1. misuse' = misuse
      BY <1>4 DEF push
    <2>2. QED
      BY <1>4, <2>1, PushGentle
  <1>5. ASSUME NEW k \in Thread, threadMain(k) PROVE Gentle'
    BY <1>5 DEF threadMain
  <1>6. ASSUME NEW k \in Thread, sem_post(k) PROVE Gentle'
    BY <1>6 DEF sem_post
  <1>7. ASSUME NEW k \in Thread, enterLoop(k) PROVE Gentle'
    BY <1>7 DEF enterLoop, use_service_reactor
  <1>8. ASSUME NEW k \in Thread, loop_wait(k) PROVE Gentle'
    BY <1>8 DEF loop_wait
  <1>9. ASSUME NEW k \in Thread, execute(k) PROVE Gentle'
    BY <1>9 DEF execute
  <1>10. ASSUME NEW k \in Thread, endOfBatch(k) PROVE Gentle'
    BY <1>10 DEF endOfBatch
  <1>11. ASSUME NEW k \in Thread, leave(k) PROVE Gentle'
    BY <1>11 DEF leave
  <1>12. ASSUME NEW k \in Thread, destroyContext(k) PROVE Gentle'
    <2>1. misuse' = misuse
      BY <1>12 DEF destroyContext
    <2>2. QED
      BY <1>12, <2>1, DestroyGentle
  <1>13. CASE construct
    BY <1>13 DEF construct
  <1>14. CASE start
    BY <1>14 DEF start
  <1>15. CASE startThread
    BY <1>15 DEF startThread
  <1>16. CASE sem_wait
    BY <1>16 DEF sem_wait, nextStart
  <1>17. ASSUME NEW delete \in BOOLEAN, stop(delete) PROVE Gentle'
    BY <1>17 DEF stop
  <1>18. CASE destroyPool
    BY <1>18 DEF destroyPool
  <1>19. CASE stopThread
    <2>1. misuse' = misuse
      BY <1>19 DEF stopThread
    <2>2. QED
      BY <1>19, <2>1, StopGentle
  <1>20. CASE join
    BY <1>20 DEF join
  <1>21. ASSUME NEW c \in Client, nextContext(c) PROVE Gentle'
    BY <1>21 DEF nextContext
  <1>22. ASSUME NEW c \in Client, compare_exchange(c) PROVE Gentle'
    BY <1>22 DEF compare_exchange
  <1>23. ASSUME NEW c \in Client, compareFails(c) PROVE Gentle'
    BY <1>23 DEF compareFails
  <1>24. ASSUME NEW c \in Client, returnContext(c) PROVE Gentle'
    <2>1. misuse' = misuse
      BY <1>24 DEF returnContext
    <2>2. QED
      BY <1>24, <2>1, ReturnGentle
  <1>25. ASSUME NEW c \in Client, NEW k \in {"work", "quit"}, post(c, k) PROVE Gentle'
    BY <1>25 DEF post
  <1>26. CASE UNCHANGED <<misuse, at, main, is_start, index, kind, quitting, thread>>
    BY <1>26
  <1> HIDE DEF IInv, TypeOK, Gentle, Poster
  <1>27. QED
    BY <1>1, <1>2, <1>3, <1>4, <1>5, <1>6, <1>7, <1>8, <1>9, <1>10, <1>11, <1>12, <1>13, <1>14,
       <1>15, <1>16, <1>17, <1>18, <1>19, <1>20, <1>21, <1>22, <1>23, <1>24, <1>25, <1>26
    DEF Next, OwnerStep, Post, ThreadStep, ClientStep, Poster, vars,
        runTask

----------------------------------------------------------------------------
(* Turns. *)

\* Exchange keeps Turn.
LEMMA ExchangeTurn ==
    ASSUME IInv, NEW c \in Client, compare_exchange(c)
    PROVE  Turn'
  <1>1. next = ctx[c] /\ next \in Thread /\ ThreadNum > 0
    BY UsedIsThread DEF compare_exchange, IInv, Poster
  <1>2. next' = IF next + 1 < ThreadNum THEN next + 1 ELSE 0
    BY <1>1, Remainder DEF compare_exchange
  <1>3. /\ handed'[next] = handed[next] + 1
        /\ \A j \in Thread : j # next => handed'[j] = handed[j]
    BY <1>1 DEF compare_exchange, IInv, TypeOK
  <1>4. ASSUME NEW j \in Thread, NEW k \in Thread
        PROVE  handed'[j] = handed'[k] + (IF j < next' THEN 1 ELSE 0) - (IF k < next' THEN 1 ELSE 0)
    <2>1. /\ handed[j] \in Nat /\ handed[k] \in Nat /\ handed[next] \in Nat
          /\ j \in Nat /\ k \in Nat /\ next \in Nat /\ ThreadNum \in Nat
          /\ j < ThreadNum /\ k < ThreadNum /\ next < ThreadNum
      BY <1>1, ThreadIsNumber DEF IInv, TypeOK
    <2>2. /\ handed[j] = handed[k] + (IF j < next THEN 1 ELSE 0) - (IF k < next THEN 1 ELSE 0)
          /\ handed[j] = handed[next] + (IF j < next THEN 1 ELSE 0)
          /\ handed[k] = handed[next] + (IF k < next THEN 1 ELSE 0)
      BY <1>1, <2>1 DEF IInv, Turn
    <2>3. /\ handed'[j] = IF j = next THEN handed[next] + 1 ELSE handed[j]
          /\ handed'[k] = IF k = next THEN handed[next] + 1 ELSE handed[k]
      BY <1>3
    <2>4. QED
      BY <1>2, <2>1, <2>2, <2>3
  <1>5. QED
    BY <1>4 DEF Turn

\* next_ separates the contexts that have had their turn from the others.
LEMMA TurnStep == IInv /\ [Next]_vars => Turn'
  <1> SUFFICES ASSUME IInv, [Next]_vars PROVE Turn'
    OBVIOUS
  <1> USE ThreadNumAssumption, OwnerAssumption
          DEF IInv, TypeOK, Turn, pool, owner, context, posters, history
  <1>1. ASSUME NEW c \in Client, compare_exchange(c) PROVE Turn'
    BY <1>1, ExchangeTurn
  <1>2. CASE UNCHANGED <<handed, next>>
    BY <1>2
  <1> HIDE DEF IInv, TypeOK, Turn
  <1>3. QED
    BY <1>1, <1>2
    DEF Next, OwnerStep, Post, ThreadStep, ClientStep, Poster, vars,
        postReactor, findBridge, createBridge, push, threadMain, sem_post, enterLoop, loop_wait,
        execute, runTask, endOfBatch, leave, destroyContext, construct, start, startThread,
        sem_wait, stop, destroyPool, stopThread, join, nextContext, compareFails, returnContext,
        post, nextStart, use_service_reactor

----------------------------------------------------------------------------
(* The theorems. *)

\* Every step keeps the invariant.
LEMMA StepKeeps == IInv /\ [Next]_vars => IInv'
  BY TypeStep, PlacesStep, ThreadsStep, HoldersStep, ServicesStep, CreatorsStep, QuittingStep,
     GentleStep, TurnStep
  DEF IInv

\* The invariant holds in every reachable state.
LEMMA Invariance == Spec => []IInv
  BY InitIInv, StepKeeps, PTL DEF Spec

\* The members of ThreadPool, Thread and IOContext keep their types; in
\* particular next_ stays below thread_num, so nextContext never reads past
\* threads_.
THEOREM PoolTypes == Spec => []TypeOK
  <1>1. IInv => TypeOK
    BY DEF IInv
  <1>2. QED
    BY <1>1, Invariance, PTL

\* nextContext, post and stop follow ioc_ only while the context lives, for as
\* long as no client is busy when stop is called or calls during it, and no
\* client's task quits a loop.
THEOREM LiveContextsUsed == Spec => []UsesLiveContexts
  <1>1. IInv => UsesLiveContexts
    BY DEF IInv, Gentle, UsesLiveContexts
  <1>2. QED
    BY <1>1, Invariance, PTL

\* The compare_exchange loop of nextContext hands the contexts out in turn: their
\* counts never differ by more than one.
THEOREM RoundRobin == Spec => []HandedOutInTurn
  <1>1. IInv => HandedOutInTurn
    <2> SUFFICES ASSUME IInv, NEW j \in Thread, NEW k \in Thread
                 PROVE  handed[j] <= handed[k] + 1
      BY DEF HandedOutInTurn
    <2>1. handed[j] = handed[k] + (IF j < next THEN 1 ELSE 0) - (IF k < next THEN 1 ELSE 0)
      BY DEF IInv, Turn
    <2>2. handed[j] \in Nat /\ handed[k] \in Nat
      BY DEF IInv, TypeOK
    <2>3. QED
      BY <2>1, <2>2
  <1>2. QED
    BY <1>1, Invariance, PTL

\* use_service creates each service once and the reactor first, and the bridge
\* that a foreign thread creates in post is registered with the reactor while the
\* context's own thread runs no callback.
THEOREM ServicesMadeSafely == Spec => []ServicesAreMadeSafely
  <1>1. IInv => ServicesAreMadeSafely
    <2> SUFFICES ASSUME IInv PROVE ServicesAreMadeSafely
      OBVIOUS
    <2>1. \A k \in Thread : services[k] \in {<<>>, <<"reactor">>, <<"reactor", "bridge">>}
      BY DEF IInv, Services, ServicesOf, R, RB
    <2>2. ASSUME NEW p \in Poster, at[p] = "create"
          PROVE  thread[ctx[p]] \in {"publish", "enter", "wait", "poll"}
      <3>1. ctx[p] \in Thread /\ services[ctx[p]] = R /\ thread[ctx[p]] \in Up \cup {"destroy"}
        BY <2>2, UsedIsThread DEF IInv, Using, Creators, Holders
      <3>2. thread[ctx[p]] \notin {"run", "leave", "destroy"}
        BY <3>1, ServiceLists DEF IInv, Services, ServicesOf
      <3>3. QED
        BY <3>1, <3>2 DEF Up
    <2>3. QED
      BY <2>1, <2>2 DEF ServicesAreMadeSafely
  <1>2. QED
    BY <1>1, Invariance, PTL

\* loop_wait looks at quit_ only after the batch, so a loop that ends has run all
\* it took, and what ~IOContext drops was posted after the task that quits.
THEOREM EarlierTasksAreRun == Spec => []EarlierTasksRun
  <1>1. IInv => EarlierTasksRun
    BY DEF IInv, Services, ServicesOf, Quitting, QuittingOf, AllLate, EarlierTasksRun
  <1>2. QED
    BY <1>1, Invariance, PTL
=============================================================================
