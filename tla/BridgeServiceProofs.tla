------------------------ MODULE BridgeServiceProofs ------------------------
(***************************************************************************)
(* Proofs about BridgeService, for any set of producers, any batches and   *)
(* any limit of the eventfd.                                               *)
(*                                                                         *)
(* Mutual exclusion is the base: it makes Committed, the tasks the holder  *)
(* of mutex_ has still to append, well defined.  The order of the tasks    *)
(* then follows from the refinement: TaskQueue keeps submitted equal to    *)
(* ran followed by its queue.                                              *)
(***************************************************************************)
EXTENDS BridgeService, SequenceTheorems, TLAPS

----------------------------------------------------------------------------
(* Facts about sequences. *)

\* Moving the head of one sequence to the end of the one before it changes
\* nothing in their concatenation.
LEMMA MoveHead ==
    ASSUME NEW a \in Seq(Task), NEW b \in Seq(Task), b # <<>>
    PROVE  Append(a, Head(b)) \o Tail(b) = a \o b
  OBVIOUS

\* The first of a nonempty sequence is the first of its concatenations.
LEMMA HeadTailConcat ==
    ASSUME NEW a \in Seq(Task), NEW b \in Seq(Task), a # <<>>
    PROVE  /\ a \o b # <<>>
           /\ Head(a \o b) = Head(a)
           /\ Tail(a \o b) = Tail(a) \o b
  OBVIOUS

\* Concatenation is associative.
LEMMA Associative ==
    ASSUME NEW a \in Seq(Task), NEW b \in Seq(Task), NEW c \in Seq(Task)
    PROVE  (a \o b) \o c = a \o (b \o c)
  BY ConcatAssociative

\* Nothing before or after a sequence leaves it as it is.
LEMMA EmptyConcat ==
    ASSUME NEW a \in Seq(Task)
    PROVE  a \o <<>> = a /\ <<>> \o a = a
  BY ConcatEmptySeq

----------------------------------------------------------------------------
(* The inductive invariant. *)

\* Where the members of the two lists may be: a producer has tasks to append
\* only while it appends, and the owner holds tasks only after the move.
Positions ==
    /\ \A p \in Producer : pc[p] # "append" => todo[p] = <<>>
    /\ loop \notin {"unlock", "run"} => tmp = <<>>

IInv ==
    /\ TypeOK
    /\ OneThreadAtTheList
    /\ Positions
    /\ NoLostWakeup

\* The initial states satisfy the invariant.
LEMMA InitIInv == Init => IInv
  BY EventMaxAssumption, MaxCallsAssumption
  DEF Init, IInv, TypeOK, OneThreadAtTheList, Positions, NoLostWakeup

\* Every step keeps the types.
LEMMA TypeStep == TypeOK /\ [Next]_vars => TypeOK'
  <1> USE BatchAssumption, ThreadAssumption, EventMaxAssumption, MaxCallsAssumption
  <1> SUFFICES ASSUME TypeOK, [Next]_vars PROVE TypeOK'
    OBVIOUS
  <1> USE DEF TypeOK, producerVars
  <1>1. ASSUME NEW p \in Producer, NEW s \in Seq(Task), Submit(p, s) PROVE TypeOK'
    BY <1>1 DEF Submit
  <1>2. ASSUME NEW p \in Producer, emplace_back(p) PROVE TypeOK'
    BY <1>2 DEF emplace_back
  <1>3. ASSUME NEW p \in Producer, write_eventfd(p) PROVE TypeOK'
    BY <1>3 DEF write_eventfd, AfterWrite
  <1>4. ASSUME NEW p \in Producer, unlock(p) PROVE TypeOK'
    BY <1>4 DEF unlock
  <1>5. CASE loop_wait
    BY <1>5 DEF loop_wait
  <1>6. CASE epoll_wait
    BY <1>6 DEF epoll_wait
  <1>7. CASE executeLock
    BY <1>7 DEF executeLock
  <1>8. CASE clear_eventfd
    BY <1>8 DEF clear_eventfd
  <1>9. CASE executeMove
    BY <1>9 DEF executeMove
  <1>10. CASE executeUnlock
    BY <1>10 DEF executeUnlock
  <1>11. CASE runTask
    <2>1. quit' \in BOOLEAN
      BY <1>11, Zenon DEF runTask
    <2>2. ran' \in Seq(Task) /\ tmp' \in Seq(Task)
      BY <1>11, HeadTailProperties, AppendProperties DEF runTask
    <2>3. QED
      BY <1>11, <2>1, <2>2 DEF runTask
  <1>12. CASE executeReturns
    BY <1>12 DEF executeReturns
  <1>13. CASE UNCHANGED vars
    BY <1>13 DEF vars
  <1>14. QED
    BY <1>1, <1>2, <1>3, <1>4, <1>5, <1>6, <1>7, <1>8, <1>9, <1>10, <1>11, <1>12, <1>13
    DEF Next, Call, push, batch, CriticalSection, LoopStep

\* Only the holder of mutex_ is inside, and only the holder leaves.
LEMMA ExclusionStep == IInv /\ [Next]_vars => (OneThreadAtTheList /\ Positions)'
  <1> SUFFICES ASSUME IInv, [Next]_vars PROVE (OneThreadAtTheList /\ Positions)'
    OBVIOUS
  <1> USE ThreadAssumption, BatchAssumption
      DEF IInv, TypeOK, producerVars, OneThreadAtTheList, Positions
  <1>1. ASSUME NEW p \in Producer, NEW s \in Seq(Task), Submit(p, s)
        PROVE (OneThreadAtTheList /\ Positions)'
    BY <1>1 DEF Submit
  <1>2. ASSUME NEW p \in Producer, emplace_back(p) PROVE (OneThreadAtTheList /\ Positions)'
    BY <1>2 DEF emplace_back
  <1>3. ASSUME NEW p \in Producer, write_eventfd(p) PROVE (OneThreadAtTheList /\ Positions)'
    BY <1>3 DEF write_eventfd, AfterWrite
  <1>4. ASSUME NEW p \in Producer, unlock(p) PROVE (OneThreadAtTheList /\ Positions)'
    BY <1>4 DEF unlock
  <1>5. CASE loop_wait
    BY <1>5 DEF loop_wait
  <1>6. CASE epoll_wait
    BY <1>6 DEF epoll_wait
  <1>7. CASE executeLock
    BY <1>7 DEF executeLock
  <1>8. CASE clear_eventfd
    BY <1>8 DEF clear_eventfd
  <1>9. CASE executeMove
    BY <1>9 DEF executeMove
  <1>10. CASE executeUnlock
    BY <1>10 DEF executeUnlock
  <1>11. CASE runTask
    BY <1>11 DEF runTask
  <1>12. CASE executeReturns
    BY <1>12 DEF executeReturns
  <1>13. CASE UNCHANGED vars
    BY <1>13 DEF vars
  <1>14. QED
    BY <1>1, <1>2, <1>3, <1>4, <1>5, <1>6, <1>7, <1>8, <1>9, <1>10, <1>11, <1>12, <1>13
    DEF Next, Call, push, batch, CriticalSection, LoopStep

\* A task enters task_list_ before the write to the eventfd, and execute clears
\* the eventfd before it takes the list, both under mutex_.
LEMMA WakeupStep == IInv /\ [Next]_vars => NoLostWakeup'
  <1> SUFFICES ASSUME IInv, [Next]_vars PROVE NoLostWakeup'
    OBVIOUS
  <1> USE ThreadAssumption, BatchAssumption
      DEF IInv, TypeOK, producerVars, OneThreadAtTheList, NoLostWakeup
  <1>1. ASSUME NEW p \in Producer, NEW s \in Seq(Task), Submit(p, s) PROVE NoLostWakeup'
    <2>1. pc'[p] = "append"
      BY <1>1 DEF Submit
    <2>2. QED
      BY <2>1
  <1>2. ASSUME NEW p \in Producer, emplace_back(p) PROVE NoLostWakeup'
    BY <1>2 DEF emplace_back
  <1>3. ASSUME NEW p \in Producer, write_eventfd(p) PROVE NoLostWakeup'
    BY <1>3, EventMaxAssumption DEF write_eventfd, AfterWrite
  <1>4. ASSUME NEW p \in Producer, unlock(p) PROVE NoLostWakeup'
    BY <1>4 DEF unlock
  <1>5. CASE loop_wait
    BY <1>5 DEF loop_wait
  <1>6. CASE epoll_wait
    BY <1>6 DEF epoll_wait
  <1>7. CASE executeLock
    BY <1>7 DEF executeLock
  <1>8. CASE clear_eventfd
    BY <1>8 DEF clear_eventfd
  <1>9. CASE executeMove
    BY <1>9 DEF executeMove
  <1>10. CASE executeUnlock
    BY <1>10 DEF executeUnlock
  <1>11. CASE runTask
    BY <1>11 DEF runTask
  <1>12. CASE executeReturns
    BY <1>12 DEF executeReturns
  <1>13. CASE UNCHANGED vars
    BY <1>13 DEF vars
  <1>14. QED
    BY <1>1, <1>2, <1>3, <1>4, <1>5, <1>6, <1>7, <1>8, <1>9, <1>10, <1>11, <1>12, <1>13
    DEF Next, Call, push, batch, CriticalSection, LoopStep

\* Every step keeps the invariant.
LEMMA IInvStep == IInv /\ [Next]_vars => IInv'
  BY TypeStep, ExclusionStep, WakeupStep DEF IInv

\* The invariant holds in every reachable state.
LEMMA AlwaysIInv == Spec => []IInv
  BY InitIInv, IInvStep, PTL DEF Spec

\* The members of the bridge and the positions of the threads keep their types.
THEOREM TypeCorrect == Spec => []TypeOK
  BY AlwaysIInv, PTL DEF IInv

\* push, batch and execute touch task_list_ and the eventfd one thread at a time,
\* for any number of producers.
THEOREM MutualExclusion == Spec => []OneThreadAtTheList
  BY AlwaysIInv, PTL DEF IInv

\* epoll_wait never blocks with a task in task_list_ and nobody about to wake
\* it up, for any number of producers and wherever the eventfd saturates.
THEOREM WakeupsAreNotLost == Spec => []NoLostWakeup
  BY AlwaysIInv, PTL DEF IInv

----------------------------------------------------------------------------
(* The refinement. *)

\* A step of the queue, or none.
QueueStep ==
    \/ \E s \in Batch :
          /\ submitted' = submitted \o s
          /\ Outstanding' = Outstanding \o s
          /\ ran' = ran
    \/ /\ Outstanding # <<>>
       /\ ran' = Append(ran, Head(Outstanding))
       /\ Outstanding' = Tail(Outstanding)
       /\ submitted' = submitted
    \/ /\ submitted' = submitted
       /\ Outstanding' = Outstanding
       /\ ran' = ran

\* The committed and the outstanding tasks are sequences of tasks.
LEMMA CommittedType ==
    ASSUME TypeOK
    PROVE  Committed \in Seq(Task) /\ Outstanding \in Seq(Task)
  <1>1. Committed \in Seq(Task)
    BY DEF TypeOK, Committed
  <1>2. tmp \o task_list \in Seq(Task)
    BY ConcatProperties DEF TypeOK
  <1>3. QED
    BY <1>1, <1>2, ConcatProperties DEF Outstanding

\* A call enters the queue when it takes the mutex.
LEMMA SubmitIsSubmit ==
    ASSUME IInv, NEW p \in Producer, NEW s \in Batch, Submit(p, s)
    PROVE  QueueStep
  <1>1. Committed = <<>> /\ Committed' = s
    BY ThreadAssumption DEF Submit, Committed, IInv, TypeOK
  <1>2. s \in Seq(Task) /\ tmp \o task_list \in Seq(Task)
    BY BatchAssumption, ConcatProperties DEF IInv, TypeOK
  <1>3. Outstanding = tmp \o task_list
    BY <1>1, <1>2, EmptyConcat DEF Outstanding
  <1>4. Outstanding' = (tmp \o task_list) \o s
    BY <1>1 DEF Outstanding, Submit
  <1>5. QED
    BY <1>3, <1>4 DEF QueueStep, Submit

\* Appending moves a task inside the queue.
LEMMA AppendIsStutter ==
    ASSUME IInv, NEW p \in Producer, emplace_back(p)
    PROVE  QueueStep
  <1>1. mutex = p /\ mutex' = p
    BY DEF IInv, OneThreadAtTheList, emplace_back, TypeOK
  <1>2. Committed = todo[p] /\ Committed' = Tail(todo[p])
    BY <1>1 DEF Committed, emplace_back, IInv, TypeOK
  <1>3. todo[p] \in Seq(Task) /\ todo[p] # <<>> /\ tmp \in Seq(Task) /\ task_list \in Seq(Task)
    BY DEF IInv, TypeOK, emplace_back
  <1> DEFINE l == Append(task_list, Head(todo[p]))
             r == Tail(todo[p])
  <1>4. l \in Seq(Task) /\ r \in Seq(Task)
    BY <1>3, HeadTailProperties, AppendProperties
  <1>5. l \o r = task_list \o todo[p]
    BY <1>3, MoveHead
  <1>6. Outstanding' = (tmp \o l) \o r
    BY <1>2 DEF Outstanding, emplace_back
  <1> HIDE DEF l, r
  <1>7. (tmp \o l) \o r = tmp \o (l \o r)
    BY <1>3, <1>4, Associative
  <1>8. tmp \o (task_list \o todo[p]) = (tmp \o task_list) \o todo[p]
    BY <1>3, Associative
  <1>9. Outstanding' = Outstanding
    BY <1>2, <1>5, <1>6, <1>7, <1>8 DEF Outstanding
  <1>10. QED
    BY <1>9 DEF QueueStep, emplace_back

\* A producer leaves with nothing left to append.
LEMMA LeaveIsStutter ==
    ASSUME IInv, NEW p \in Producer, write_eventfd(p) \/ unlock(p)
    PROVE  QueueStep
  <1>1. mutex = p /\ todo[p] = <<>>
    BY DEF IInv, OneThreadAtTheList, Positions, write_eventfd, AfterWrite, unlock
  <1>2. Committed = <<>> /\ Committed' = <<>>
    BY <1>1, ThreadAssumption DEF Committed, write_eventfd, AfterWrite, unlock, IInv, TypeOK
  <1>3. Outstanding' = Outstanding
    BY <1>2 DEF Outstanding, write_eventfd, AfterWrite, unlock
  <1>4. QED
    BY <1>3 DEF QueueStep, write_eventfd, AfterWrite, unlock

\* execute takes the mutex only when no producer is inside.
LEMMA LockIsStutter ==
    ASSUME IInv, executeLock
    PROVE  QueueStep
  <1>1. Committed = <<>> /\ Committed' = <<>>
    BY ThreadAssumption DEF Committed, executeLock
  <1>2. Outstanding' = Outstanding
    BY <1>1 DEF Outstanding, executeLock
  <1>3. QED
    BY <1>2 DEF QueueStep, executeLock

\* Moving the list out moves tasks inside the queue.
LEMMA MoveIsStutter ==
    ASSUME IInv, executeMove
    PROVE  QueueStep
  <1>1. Committed = <<>> /\ Committed' = <<>>
    BY ThreadAssumption DEF Committed, executeMove, IInv, OneThreadAtTheList
  <1>2. tmp = <<>> /\ task_list \in Seq(Task)
    BY DEF IInv, Positions, TypeOK, executeMove
  <1>3. tmp \o task_list = task_list /\ task_list \o <<>> = task_list
    BY <1>2, EmptyConcat
  <1>4. (tmp \o task_list)' = tmp \o task_list
    BY <1>3 DEF executeMove
  <1>5. Outstanding' = Outstanding
    BY <1>1, <1>4 DEF Outstanding
  <1>6. QED
    BY <1>5 DEF QueueStep, executeMove

\* The other steps of the owner leave the tasks where they are.
LEMMA OwnerIsStutter ==
    ASSUME IInv,
           loop_wait \/ epoll_wait \/ clear_eventfd \/ executeUnlock \/ executeReturns
             \/ UNCHANGED vars
    PROVE  QueueStep
  <1>1. Committed' = Committed
    <2>1. CASE executeUnlock
      BY <2>1, ThreadAssumption DEF executeUnlock, Committed, IInv, OneThreadAtTheList
    <2>2. CASE loop_wait \/ epoll_wait \/ clear_eventfd \/ executeReturns \/ UNCHANGED vars
      BY <2>2 DEF loop_wait, epoll_wait, clear_eventfd, executeReturns, vars, producerVars, Committed
    <2>3. QED
      BY <2>1, <2>2
  <1>2. UNCHANGED <<tmp, task_list, submitted, ran>>
    BY DEF loop_wait, epoll_wait, clear_eventfd, executeUnlock, executeReturns, vars
  <1>3. QED
    BY <1>1, <1>2 DEF QueueStep, Outstanding

\* Running a task takes the head of the queue.
LEMMA RunIsRun ==
    ASSUME IInv, runTask
    PROVE  QueueStep
  <1> DEFINE rest == task_list \o Committed
  <1>1. tmp \in Seq(Task) /\ task_list \in Seq(Task) /\ Committed \in Seq(Task) /\ tmp # <<>>
    BY CommittedType DEF IInv, TypeOK, runTask
  <1>2. rest \in Seq(Task)
    BY <1>1, ConcatProperties
  <1>3. Outstanding = tmp \o rest
    BY <1>1, Associative DEF Outstanding
  <1>4. Committed' = Committed /\ task_list' = task_list
    BY DEF Committed, runTask, producerVars
  <1>5. Tail(tmp) \in Seq(Task)
    BY <1>1, HeadTailProperties
  <1>6. Outstanding' = Tail(tmp) \o rest
    <2>1. Outstanding' = (Tail(tmp) \o task_list) \o Committed
      BY <1>4 DEF Outstanding, runTask
    <2>2. QED
      BY <2>1, <1>1, <1>5, Associative
  <1> HIDE DEF rest
  <1>7. /\ Outstanding # <<>>
        /\ Head(Outstanding) = Head(tmp)
        /\ Tail(Outstanding) = Tail(tmp) \o rest
    BY <1>1, <1>2, <1>3, HeadTailConcat
  <1>8. QED
    BY <1>6, <1>7 DEF QueueStep, runTask

\* Every step of the bridge is a step of the queue of tasks, or none.
LEMMA EveryStepIsAQueueStep == IInv /\ [Next]_vars => QueueStep
  <1> SUFFICES ASSUME IInv, [Next]_vars PROVE QueueStep
    OBVIOUS
  <1>1. ASSUME NEW p \in Producer, Call(p) PROVE QueueStep
    BY <1>1, SubmitIsSubmit, BatchAssumption DEF Call, push, batch
  <1>2. ASSUME NEW p \in Producer, CriticalSection(p) PROVE QueueStep
    BY <1>2, AppendIsStutter, LeaveIsStutter DEF CriticalSection
  <1>3. QED
    BY <1>1, <1>2, LockIsStutter, MoveIsStutter, OwnerIsStutter, RunIsRun DEF Next, LoopStep

\* push, batch and execute implement the first-in first-out queue, for every set
\* of tasks, batches and producers.
THEOREM Refinement == Spec => ImplementsQueue
  <1>1. Init => Queue!Init
    BY ThreadAssumption DEF Init, Queue!Init, Outstanding, Committed
  <1>2. QueueStep => [Queue!Next]_(Queue!vars)
    BY DEF QueueStep, Queue!Next, Queue!Submit, Queue!Run, Queue!vars
  <1>3. QED
    BY <1>1, <1>2, AlwaysIInv, EveryStepIsAQueueStep, PTL DEF Spec, ImplementsQueue, Queue!Spec

----------------------------------------------------------------------------
(* Order. *)

\* A step of the queue keeps what was submitted equal to what ran and what is
\* still outstanding.
LEMMA OrderStep == TypeOK /\ RunsInOrderOnce /\ QueueStep => RunsInOrderOnce'
  <1> SUFFICES ASSUME TypeOK, RunsInOrderOnce, QueueStep PROVE RunsInOrderOnce'
    OBVIOUS
  <1>1. ran \in Seq(Task) /\ Outstanding \in Seq(Task)
    BY CommittedType DEF TypeOK
  <1>2. ASSUME NEW s \in Batch, submitted' = submitted \o s,
               Outstanding' = Outstanding \o s, ran' = ran
        PROVE  RunsInOrderOnce'
    <2>1. (ran \o Outstanding) \o s = ran \o (Outstanding \o s)
      BY <1>1, BatchAssumption, Associative
    <2>2. QED
      BY <1>2, <2>1 DEF RunsInOrderOnce
  <1>3. ASSUME Outstanding # <<>>, ran' = Append(ran, Head(Outstanding)),
               Outstanding' = Tail(Outstanding), submitted' = submitted
        PROVE  RunsInOrderOnce'
    BY <1>1, <1>3, MoveHead DEF RunsInOrderOnce
  <1>4. QED
    BY <1>2, <1>3 DEF QueueStep, RunsInOrderOnce

\* Tasks run in the order in which their calls took mutex_, each once, for any
\* number of producers and calls.
THEOREM OrderIsKept == Spec => []RunsInOrderOnce
  <1>1. Init => RunsInOrderOnce
    BY ThreadAssumption DEF Init, RunsInOrderOnce, Outstanding, Committed
  <1>2. IInv /\ RunsInOrderOnce /\ [Next]_vars => RunsInOrderOnce'
    BY EveryStepIsAQueueStep, OrderStep DEF IInv
  <1>3. QED
    BY <1>1, <1>2, AlwaysIInv, PTL DEF Spec

=============================================================================
