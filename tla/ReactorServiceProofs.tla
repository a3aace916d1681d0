------------------------ MODULE ReactorServiceProofs ------------------------
(***************************************************************************)
(* Proofs about ReactorService, for any sets of descriptors and operations *)
(* and any nesting depth.                                                  *)
(***************************************************************************)
EXTENDS ReactorService, FiniteSetTheorems, TLAPS

----------------------------------------------------------------------------
(* Facts about frames. *)

\* The steps are records of four kinds, and their constructors build them.
LEMMA StepFacts ==
    /\ \A fd \in Fd, dirs \in SUBSET Dir : Event(fd, dirs) \in Step
    /\ \A fd \in Fd, dir \in Dir : Cancel(fd, dir) \in Step
    /\ \A fd \in Fd : Close(fd) \in Step
    /\ \A n \in Nat : Again(n) \in Step
    /\ \A s \in Step :
          /\ s.kind = "event" => s.fd \in Fd /\ s.dirs \in SUBSET Dir
          /\ s.kind = "cancel" => s.fd \in Fd /\ s.dir \in Dir /\ s = Cancel(s.fd, s.dir)
          /\ s.kind = "close" => s.fd \in Fd
          /\ s.kind = "again" => s.n \in Nat
  BY DEF Step, EventStep, CancelStep, CloseStep, AgainStep, Event, Cancel, Close, Again

\* A nonempty sequence without its first element.
LEMMA TailFacts ==
    ASSUME NEW S, NEW q \in Seq(S), q # <<>>
    PROVE  /\ Len(q) \in Nat \ {0} /\ DOMAIN q = 1..Len(q)
           /\ Len(Tail(q)) = Len(q) - 1 /\ DOMAIN Tail(q) = 1..(Len(q) - 1)
           /\ \A j \in 1..(Len(q) - 1) : Tail(q)[j] = q[j + 1]
  OBVIOUS

\* A nonempty sequence with another first element.
LEMMA ReplaceHeadFacts ==
    ASSUME NEW S, NEW q \in Seq(S), q # <<>>, NEW e \in S,
           NEW r, r = <<e>> \o Tail(q)
    PROVE  /\ Len(q) \in Nat \ {0} /\ DOMAIN q = 1..Len(q)
           /\ Len(r) = Len(q) /\ DOMAIN r = 1..Len(q)
           /\ r[1] = e
           /\ \A j \in 2..Len(q) : r[j] = q[j]
  BY TailFacts

\* The innermost frame has a first step, and that step.
HasStep(s) == s # <<>> /\ s[Len(s)] # <<>>
FirstStep(s) == Head(s[Len(s)])

\* The stack without the first step of the innermost frame.
PopStep(s) == [s EXCEPT ![Len(s)] = Tail(s[Len(s)])]

\* The stack with another first step in the innermost frame.
ReplaceStep(s, e) == [s EXCEPT ![Len(s)] = <<e>> \o Tail(s[Len(s)])]

\* A call adds to the pending cancellations those of its frame.
LEMMA PendingPush ==
    ASSUME NEW s \in Seq(Seq(Step)), NEW f \in Seq(Step), NEW fd \in Fd, NEW dir \in Dir
    PROVE  /\ Append(s, f) \in Seq(Seq(Step))
           /\ PendingIn(Append(s, f), fd, dir) <=>
                 \/ PendingIn(s, fd, dir)
                 \/ \E j \in DOMAIN f : f[j] = Cancel(fd, dir)
  <1> DEFINE t == Append(s, f)
             n == Len(s)
  <1>1. /\ n \in Nat /\ DOMAIN s = 1..n
        /\ t \in Seq(Seq(Step)) /\ DOMAIN t = 1..(n + 1)
        /\ t[n + 1] = f
        /\ \A i \in 1..n : t[i] = s[i]
    OBVIOUS
  <1>2. PendingIn(t, fd, dir) <=>
           \E i \in 1..(n + 1) : \E j \in DOMAIN t[i] : t[i][j] = Cancel(fd, dir)
    BY <1>1 DEF PendingIn
  <1>3. PendingIn(s, fd, dir) <=>
           \E i \in 1..n : \E j \in DOMAIN t[i] : t[i][j] = Cancel(fd, dir)
    BY <1>1 DEF PendingIn
  <1>5. \A i : i \in 1..(n + 1) <=> i \in 1..n \/ i = n + 1
    BY <1>1
  <1> HIDE DEF t, n
  <1>4. PendingIn(t, fd, dir) <=>
           PendingIn(s, fd, dir) \/ \E j \in DOMAIN f : f[j] = Cancel(fd, dir)
    BY <1>1, <1>2, <1>3, <1>5, Zenon
  <1> QED
    BY <1>1, <1>4 DEF t

\* Popping the first step of the innermost frame.
LEMMA PendingPopStep ==
    ASSUME NEW s \in Seq(Seq(Step)), HasStep(s),
           NEW fd \in Fd, NEW dir \in Dir
    PROVE  /\ PendingIn(PopStep(s), fd, dir) => PendingIn(s, fd, dir)
           /\ PendingIn(s, fd, dir) =>
                 \/ PendingIn(PopStep(s), fd, dir)
                 \/ FirstStep(s) = Cancel(fd, dir)
  <1> DEFINE n == Len(s)
             top == s[n]
             t == [s EXCEPT ![n] = Tail(top)]
  <1>1. n \in Nat \ {0} /\ n \in DOMAIN s /\ top \in Seq(Step) /\ Len(top) \in Nat \ {0}
    BY DEF HasStep
  <1>2. Tail(top) \in Seq(Step) /\ Len(Tail(top)) = Len(top) - 1
        /\ \A j \in 1..Len(top) - 1 : Tail(top)[j] = top[j + 1]
    BY <1>1
  <1>3. t \in Seq(Seq(Step)) /\ DOMAIN t = DOMAIN s
    BY <1>1, <1>2
  <1>4. PendingIn(t, fd, dir) => PendingIn(s, fd, dir)
    BY <1>1, <1>2, <1>3 DEF PendingIn
  <1>5. ASSUME PendingIn(s, fd, dir), Head(top) # Cancel(fd, dir)
        PROVE  PendingIn(t, fd, dir)
    <2>1. PICK i \in DOMAIN s : \E j \in DOMAIN s[i] : s[i][j] = Cancel(fd, dir)
      BY <1>5 DEF PendingIn
    <2>2. PICK j \in DOMAIN s[i] : s[i][j] = Cancel(fd, dir)
      BY <2>1
    <2>3. CASE i # n
      BY <2>2, <2>3, <1>3 DEF PendingIn
    <2>4. CASE i = n
      <3>1. j # 1
        BY <2>2, <2>4, <1>5, <1>1
      <3>2. j - 1 \in DOMAIN Tail(top) /\ Tail(top)[j - 1] = Cancel(fd, dir)
        BY <2>2, <2>4, <3>1, <1>1, <1>2
      <3>3. t[n] = Tail(top)
        BY <1>1
      <3> QED
        BY <3>2, <3>3, <1>3, <1>1 DEF PendingIn
    <2> QED
      BY <2>3, <2>4
  <1> QED
    BY <1>4, <1>5 DEF PopStep, FirstStep

\* The first step of the innermost frame is replaced by an event.
LEMMA PendingReplaceStep ==
    ASSUME NEW s \in Seq(Seq(Step)), HasStep(s),
           NEW fd \in Fd, NEW dir \in Dir,
           NEW e \in Step, e.kind = "event"
    PROVE  /\ PendingIn(ReplaceStep(s, e), fd, dir) => PendingIn(s, fd, dir)
           /\ PendingIn(s, fd, dir) =>
                 \/ PendingIn(ReplaceStep(s, e), fd, dir)
                 \/ FirstStep(s) = Cancel(fd, dir)
  <1> DEFINE n == Len(s)
             top == s[n]
             new == <<e>> \o Tail(top)
             t == [s EXCEPT ![n] = new]
  <1>1. n \in Nat \ {0} /\ n \in DOMAIN s /\ top \in Seq(Step) /\ Len(top) \in Nat \ {0}
    BY DEF HasStep
  <1>2. /\ new \in Seq(Step) /\ Len(new) = Len(top) /\ DOMAIN new = DOMAIN top
        /\ new[1] = e
        /\ \A j \in 2..Len(top) : new[j] = top[j]
    BY <1>1
  <1>3. /\ t \in Seq(Seq(Step)) /\ DOMAIN t = DOMAIN s /\ t[n] = new
        /\ \A i \in DOMAIN s : i # n => t[i] = s[i]
    BY <1>1, <1>2
  <1>7. Head(top) = top[1] /\ DOMAIN top = 1..Len(top)
    BY <1>1
  <1>4. e # Cancel(fd, dir)
    BY DEF Cancel
  <1> HIDE DEF new, t
  <1>5. ASSUME PendingIn(t, fd, dir) PROVE PendingIn(s, fd, dir)
    <2>1. PICK i \in DOMAIN t : \E j \in DOMAIN t[i] : t[i][j] = Cancel(fd, dir)
      BY <1>5 DEF PendingIn
    <2>2. PICK j \in DOMAIN t[i] : t[i][j] = Cancel(fd, dir)
      BY <2>1
    <2>3. CASE i # n
      BY <2>2, <2>3, <1>3 DEF PendingIn
    <2>4. CASE i = n
      <3>1. j \in 2..Len(top)
        BY <2>2, <2>4, <1>1, <1>2, <1>3, <1>4, <1>7
      <3>2. j \in DOMAIN s[n] /\ s[n][j] = Cancel(fd, dir)
        BY <2>2, <2>4, <3>1, <1>1, <1>2, <1>3
      <3> QED
        BY <3>2, <1>1, Zenon DEF PendingIn
    <2> QED
      BY <2>3, <2>4
  <1>6. ASSUME PendingIn(s, fd, dir), Head(top) # Cancel(fd, dir)
        PROVE  PendingIn(t, fd, dir)
    <2>1. PICK i \in DOMAIN s : \E j \in DOMAIN s[i] : s[i][j] = Cancel(fd, dir)
      BY <1>6 DEF PendingIn
    <2>2. PICK j \in DOMAIN s[i] : s[i][j] = Cancel(fd, dir)
      BY <2>1
    <2>3. CASE i # n
      BY <2>2, <2>3, <1>3 DEF PendingIn
    <2>4. CASE i = n
      <3>1. j \in 2..Len(top)
        BY <2>2, <2>4, <1>6, <1>1, <1>7
      <3>2. j \in DOMAIN t[n] /\ t[n][j] = Cancel(fd, dir)
        BY <2>2, <2>4, <3>1, <1>1, <1>2, <1>3
      <3> QED
        BY <3>2, <1>1, <1>3, Zenon DEF PendingIn
    <2> QED
      BY <2>3, <2>4
  <1> QED
    BY <1>5, <1>6 DEF new, t, ReplaceStep, FirstStep

\* Returning from a call whose frame is empty.
LEMMA PendingPopFrame ==
    ASSUME NEW s \in Seq(Seq(Step)), s # <<>>, s[Len(s)] = <<>>,
           NEW fd \in Fd, NEW dir \in Dir
    PROVE  /\ SubSeq(s, 1, Len(s) - 1) \in Seq(Seq(Step))
           /\ PendingIn(SubSeq(s, 1, Len(s) - 1), fd, dir) <=> PendingIn(s, fd, dir)
  <1> DEFINE n == Len(s)
             t == SubSeq(s, 1, n - 1)
  <1>1. /\ n \in Nat \ {0} /\ DOMAIN s = 1..n
        /\ t \in Seq(Seq(Step)) /\ DOMAIN t = 1..(n - 1)
        /\ \A i \in 1..(n - 1) : t[i] = s[i]
        /\ DOMAIN s[n] = {}
    OBVIOUS
  <1>5. \A i : i \in 1..n <=> i \in 1..(n - 1) \/ i = n
    BY <1>1
  <1> HIDE DEF t, n
  <1>2. PendingIn(t, fd, dir) => PendingIn(s, fd, dir)
    BY <1>1, <1>5, Zenon DEF PendingIn
  <1>3. PendingIn(s, fd, dir) => PendingIn(t, fd, dir)
    BY <1>1, <1>5, Zenon DEF PendingIn
  <1> QED
    BY <1>1, <1>2, <1>3 DEF t

----------------------------------------------------------------------------
(* Type correctness. *)

\* The frame on top of a nonempty stack, and its first step.
LEMMA TopFacts ==
    ASSUME TypeOK, stack # <<>>
    PROVE  /\ Depth \in Nat \ {0} /\ Depth \in DOMAIN stack
           /\ Top \in Seq(Step)
           /\ Top # <<>> => Head(Top) \in Step /\ Tail(Top) \in Seq(Step)
           /\ \A f \in Seq(Step) : WithTop(f) \in Seq(Seq(Step))
  BY DEF TypeOK, Depth, Top, WithTop

\* What the step on top of the stack refers to.
LEMMA AtStepFacts ==
    ASSUME TypeOK, NEW kind, AtStep(kind)
    PROVE  /\ Head(Top) \in Step
           /\ kind = "event" => Head(Top).fd \in Fd /\ Head(Top).dirs \in SUBSET Dir
           /\ kind = "cancel" => /\ Head(Top).fd \in Fd /\ Head(Top).dir \in Dir
                                 /\ Head(Top) = Cancel(Head(Top).fd, Head(Top).dir)
           /\ kind = "close" => Head(Top).fd \in Fd
           /\ kind = "again" => Head(Top).n \in Nat
           /\ WithTop(Tail(Top)) \in Seq(Seq(Step))
  BY TopFacts, StepFacts DEF AtStep

\* Every step of the reactor keeps the types of its state.
LEMMA TypeStep == TypeOK /\ [Next]_vars => TypeOK'
  <1> SUFFICES ASSUME TypeOK, [Next]_vars PROVE TypeOK'
    OBVIOUS
  <1> USE DEF TypeOK
  <1>1. ASSUME NEW fd \in Fd, NEW dir \in Dir, NEW op \in Op, RegisterOperation(fd, dir, op)
        PROVE  TypeOK'
    <2>1. CASE AcceptOperation(fd, dir, op)
      BY <2>1 DEF AcceptOperation, Dir
    <2>2. CASE Reject
      BY <2>2 DEF Reject, CallBack
    <2> QED
      BY <1>1, <2>1, <2>2 DEF RegisterOperation
  <1>2. ASSUME NEW fd \in Fd, NEW dir \in Dir, Forget(fd, dir)
        PROVE  /\ epoll' \in [Fd -> SUBSET Dir]
               /\ ops' \in [Fd -> [Dir -> Op \cup {NoOp}]]
               /\ status' \in [Op -> {"idle", "waiting", "orphan"}]
    BY <1>2 DEF Forget, TakeOut, Unmonitor, Other, Dir
  <1>3. ASSUME NEW fd \in Fd, NEW dir \in Dir, RemoveOperation(fd, dir)
        PROVE  TypeOK'
    BY <1>2, <1>3 DEF RemoveOperation
  <1>4. ASSUME NEW fd \in Fd, NEW dir \in Dir, CancelOperation(fd, dir)
        PROVE  TypeOK'
    BY <1>2, <1>4 DEF CancelOperation, CallBack
  <1>5. ASSUME NEW fd \in Fd, DropAll(fd)
        PROVE  /\ ops' \in [Fd -> [Dir -> Op \cup {NoOp}]]
               /\ status' \in [Op -> {"idle", "waiting", "orphan"}]
    BY <1>5 DEF DropAll
  <1>6. ASSUME NEW fd \in Fd, removeAllOperations(fd)
        PROVE  TypeOK'
    BY <1>5, <1>6 DEF removeAllOperations
  <1>7. ASSUME NEW fd \in Fd
        PROVE  /\ Append(stack, CancelBoth(fd)) \in Seq(Seq(Step))
               /\ Append(stack, CancelBothThenClose(fd)) \in Seq(Seq(Step))
               /\ Append(stack, <<Close(fd)>>) \in Seq(Seq(Step))
    <2>1. CancelBoth(fd) \in Seq(Step) /\ CancelBothThenClose(fd) \in Seq(Step)
          /\ <<Close(fd)>> \in Seq(Step)
      BY StepFacts DEF CancelBoth, CancelBothThenClose, Dir
    <2>2. \A f \in Seq(Step) : Append(stack, f) \in Seq(Seq(Step))
      OBVIOUS
    <2> QED
      BY <2>1, <2>2
  <1>8. ASSUME NEW fd \in Fd, cancelAllOperations(fd)
        PROVE  TypeOK'
    BY <1>7, <1>8 DEF cancelAllOperations, Call
  <1>9. ASSUME NEW fd \in Fd, shutdown(fd)
        PROVE  TypeOK'
    <2>1. CASE hasOperation(fd)
      BY <1>7, <1>9, <2>1 DEF shutdown, Call
    <2>2. CASE ~hasOperation(fd)
      BY <1>7, <1>9, <2>2 DEF shutdown, Call
    <2> QED
      BY <2>1, <2>2
  <1>10. ASSUME NEW fd \in Fd, destroy(fd)
         PROVE  TypeOK'
    BY <1>5, <1>10 DEF destroy
  <1>11. ASSUME NEW fd \in Fd, create(fd)
         PROVE  TypeOK'
    BY <1>11 DEF create
  <1>12. CASE Quit
    BY <1>12 DEF Quit
  <1>13. CASE loop_wait
    <2>1. << <<>> >> \in Seq(Seq(Step))
      OBVIOUS
    <2> QED
      BY <1>13, <2>1 DEF loop_wait
  <1>14. CASE epoll_wait
    <2>1. ASSUME NEW n \in 1..cap, NEW fds \in [1..n -> Monitored], NEW dirs \in [1..n -> SUBSET Dir]
          PROVE  Append([i \in 1..n |-> Event(fds[i], dirs[i])], Again(n)) \in Seq(Step)
      <3>1. n \in Nat /\ Again(n) \in Step
        BY StepFacts
      <3>2. \A i \in 1..n : Event(fds[i], dirs[i]) \in Step
        BY StepFacts DEF Monitored
      <3>3. [i \in 1..n |-> Event(fds[i], dirs[i])] \in Seq(Step)
        BY <3>1, <3>2
      <3> QED
        BY <3>1, <3>3
    <2>2. stack' \in Seq(Seq(Step))
      <3>1. CASE stack = <<>>
        <4>1. \A f : [stack EXCEPT ![Len(stack)] = f] = stack
          BY <3>1
        <4> QED
          BY <1>14, <4>1 DEF epoll_wait, WithTop, Depth
      <3>2. CASE stack # <<>>
        BY <1>14, <3>2, <2>1, TopFacts DEF epoll_wait
      <3> QED
        BY <3>1, <3>2
    <2> QED
      BY <1>14, <2>2 DEF epoll_wait
  <1>15. CASE doOperation
    <2> DEFINE e == Head(Top)
               rest == e.dirs \ {FirstDir(e.dirs)}
    <2>1. /\ e.fd \in Fd /\ rest \in SUBSET Dir /\ stack # <<>> /\ Top # <<>>
          /\ WithTop(Tail(Top)) \in Seq(Seq(Step))
      BY <1>15, AtStepFacts DEF doOperation, AtStep
    <2>2. <<Event(e.fd, rest)>> \o Tail(Top) \in Seq(Step)
      BY <2>1, TopFacts, StepFacts
    <2>3. WithTop(<<Event(e.fd, rest)>> \o Tail(Top)) \in Seq(Seq(Step))
      BY <2>1, <2>2, TopFacts
    <2> QED
      BY <1>15, <2>1, <2>3 DEF doOperation
  <1>16. CASE nextIteration
    BY <1>16, AtStepFacts DEF nextIteration
  <1>17. CASE doCancel
    <2>1. Head(Top).fd \in Fd /\ Head(Top).dir \in Dir /\ stack' \in Seq(Seq(Step))
      BY <1>17, AtStepFacts DEF doCancel
    <2>2. CASE TakeOut(Head(Top).fd, Head(Top).dir) /\ ctl' = "user"
      BY <1>17, <2>1, <2>2 DEF doCancel, TakeOut
    <2>3. CASE UNCHANGED <<ops, status, ctl>>
      BY <1>17, <2>1, <2>3 DEF doCancel
    <2> QED
      BY <1>17, <2>2, <2>3 DEF doCancel
  <1>18. CASE doClose
    BY <1>18, AtStepFacts DEF doClose, CloseDescriptor, Orphan
  <1>19. CASE callReturns
    <2>1. SubSeq(stack, 1, Len(stack) - 1) \in Seq(Seq(Step))
      BY <1>19 DEF callReturns
    <2> QED
      BY <1>19, <2>1 DEF callReturns, Depth
  <1>20. CASE callbackReturns
    BY <1>20 DEF callbackReturns
  <1>21. CASE UNCHANGED vars
    BY <1>21 DEF vars
  <1>22. "read" \in Dir /\ "write" \in Dir
    BY DEF Dir
  <1> QED
    BY <1>1, <1>3, <1>4, <1>6, <1>8, <1>9, <1>10, <1>11, <1>12, <1>13, <1>14, <1>15, <1>16,
       <1>17, <1>18, <1>19, <1>20, <1>21, <1>22
    DEF Next, UserCall, LibraryStep, registerReadOperation, registerWriteOperation,
        removeReadOperation, removeWriteOperation, cancelReadOperation, cancelWriteOperation

\* The reactor's members, the interest set and the call stack keep their types,
\* for every number of descriptors, operations and nested calls.
THEOREM TypeCorrect == Spec => []TypeOK
  <1>1. Init => TypeOK
    BY InitCapAssumption DEF Init, TypeOK, Dir
  <1> QED
    BY <1>1, TypeStep, PTL DEF Spec

----------------------------------------------------------------------------
(* The shape of the stack: what loop_wait has left is at the bottom. *)

\* Only the last step of the bottom frame ends an iteration of loop_wait.
AgainLast(frames) ==
    \A i \in DOMAIN frames : \A j \in DOMAIN frames[i] :
       frames[i][j].kind = "again" => i = 1 /\ j = Len(frames[1])

\* epoll_wait is entered with no library work outstanding.
LoopFrame ==
    /\ ctl = "poll" => Len(stack) = 1 /\ Len(stack[1]) = 0
    /\ AgainLast(stack)

\* A call that is not loop_wait leaves no end of an iteration behind.
LEMMA AgainPush ==
    ASSUME NEW s \in Seq(Seq(Step)), AgainLast(s), NEW f \in Seq(Step),
           \A j \in DOMAIN f : f[j].kind # "again"
    PROVE  AgainLast(Append(s, f))
  <1> DEFINE t == Append(s, f)
             n == Len(s)
  <1>1. /\ n \in Nat /\ DOMAIN s = 1..n
        /\ DOMAIN t = 1..(n + 1)
        /\ t[n + 1] = f
        /\ \A i \in 1..n : t[i] = s[i]
    OBVIOUS
  <1> SUFFICES ASSUME NEW i \in DOMAIN t, NEW j \in DOMAIN t[i], t[i][j].kind = "again"
               PROVE  i = 1 /\ j = Len(t[1])
    BY DEF AgainLast
  <1>2. i \in 1..n
    BY <1>1
  <1>3. i = 1 /\ j = Len(s[1])
    BY <1>1, <1>2 DEF AgainLast
  <1> QED
    BY <1>1, <1>2, <1>3

\* Popping a step keeps the end of the iteration last.
LEMMA AgainPopStep ==
    ASSUME NEW s \in Seq(Seq(Step)), HasStep(s), AgainLast(s)
    PROVE  AgainLast(PopStep(s))
  <1> DEFINE n == Len(s)
             top == s[n]
             t == [s EXCEPT ![n] = Tail(top)]
  <1>1. /\ n \in Nat \ {0} /\ DOMAIN s = 1..n /\ DOMAIN t = 1..n
        /\ s[n] = top /\ top \in Seq(Step) /\ top # <<>>
        /\ t[n] = Tail(top) /\ \A i \in 1..n : i # n => t[i] = s[i]
    BY DEF HasStep
  <1> SUFFICES ASSUME NEW i \in DOMAIN t, NEW j \in DOMAIN t[i], t[i][j].kind = "again"
               PROVE  i = 1 /\ j = Len(t[1])
    BY DEF AgainLast, PopStep
  <1> HIDE DEF n, top, t
  <1>2. /\ Len(top) \in Nat \ {0} /\ DOMAIN top = 1..Len(top)
        /\ Len(Tail(top)) = Len(top) - 1 /\ DOMAIN Tail(top) = 1..(Len(top) - 1)
        /\ \A k \in 1..(Len(top) - 1) : Tail(top)[k] = top[k + 1]
    BY <1>1, TailFacts
  <1>3. CASE i # n
    <2>1. i \in DOMAIN s /\ j \in DOMAIN s[i] /\ s[i][j].kind = "again"
      BY <1>1, <1>3
    <2>2. i = 1 /\ j = Len(s[1])
      BY <2>1, Zenon DEF AgainLast
    <2> QED
      BY <1>1, <1>3, <2>2
  <1>4. CASE i = n
    <2>1. j \in 1..(Len(top) - 1) /\ Tail(top)[j].kind = "again"
      BY <1>1, <1>2, <1>4, Zenon
    <2>2. j + 1 \in 1..Len(top) /\ top[j + 1].kind = "again" /\ n \in 1..n
      BY <1>1, <1>2, <2>1
    <2>3. n \in DOMAIN s /\ j + 1 \in DOMAIN s[n] /\ s[n][j + 1].kind = "again"
      BY <1>1, <1>2, <2>2, Zenon
    <2>4. n = 1 /\ j + 1 = Len(s[1])
      BY <2>3, Zenon DEF AgainLast
    <2>5. j + 1 = Len(top) /\ t[1] = Tail(top)
      BY <1>1, <2>4, Zenon
    <2> QED
      BY <1>2, <1>4, <2>1, <2>4, <2>5
  <1> QED
    BY <1>3, <1>4

\* Replacing the first step by an event keeps the end of the iteration last.
LEMMA AgainReplaceStep ==
    ASSUME NEW s \in Seq(Seq(Step)), HasStep(s), AgainLast(s),
           NEW e \in Step, e.kind = "event"
    PROVE  AgainLast(ReplaceStep(s, e))
  <1> DEFINE n == Len(s)
             top == s[n]
             new == <<e>> \o Tail(top)
             t == [s EXCEPT ![n] = new]
  <1>1. /\ n \in Nat \ {0} /\ DOMAIN s = 1..n /\ DOMAIN t = 1..n
        /\ s[n] = top /\ top \in Seq(Step) /\ top # <<>>
        /\ t[n] = new /\ \A i \in 1..n : i # n => t[i] = s[i]
    BY DEF HasStep
  <1> SUFFICES ASSUME NEW i \in DOMAIN t, NEW j \in DOMAIN t[i], t[i][j].kind = "again"
               PROVE  i = 1 /\ j = Len(t[1])
    BY DEF AgainLast, ReplaceStep
  <1>5. new = <<e>> \o Tail(top)
    OBVIOUS
  <1> HIDE DEF n, top, t, new
  <1>2. /\ Len(top) \in Nat \ {0} /\ DOMAIN top = 1..Len(top)
        /\ Len(new) = Len(top) /\ DOMAIN new = 1..Len(top)
        /\ new[1] = e
        /\ \A k \in 2..Len(top) : new[k] = top[k]
    BY <1>1, <1>5, ReplaceHeadFacts
  <1>3. CASE i # n
    <2>1. i \in DOMAIN s /\ j \in DOMAIN s[i] /\ s[i][j].kind = "again"
      BY <1>1, <1>3
    <2>2. i = 1 /\ j = Len(s[1])
      BY <2>1, Zenon DEF AgainLast
    <2> QED
      BY <1>1, <1>3, <2>2
  <1>4. CASE i = n
    <2>1. j \in 1..Len(top) /\ new[j].kind = "again"
      BY <1>1, <1>2, <1>4, Zenon
    <2>2. j \in 2..Len(top) /\ n \in 1..n
      BY <1>1, <1>2, <2>1
    <2>3. n \in DOMAIN s /\ j \in DOMAIN s[n] /\ s[n][j].kind = "again"
      BY <1>1, <1>2, <2>1, <2>2, Zenon
    <2>4. n = 1 /\ j = Len(s[1])
      BY <2>3, Zenon DEF AgainLast
    <2>5. j = Len(top) /\ t[1] = new
      BY <1>1, <2>4, Zenon
    <2> QED
      BY <1>2, <1>4, <2>4, <2>5
  <1> QED
    BY <1>3, <1>4

\* The pending cancellations are the same before and after a step.
PendingSame ==
    \A fd \in Fd, dir \in Dir : PendingCancel(fd, dir)' <=> PendingCancel(fd, dir)

\* A function that ends by running a callback leaves no work behind.
LEMMA CallBackEffect ==
    ASSUME TypeOK, LoopFrame, ctl = "user", CallBack
    PROVE  LoopFrame' /\ PendingSame
  <1>1. stack \in Seq(Seq(Step)) /\ <<>> \in Seq(Step) /\ stack' = Append(stack, <<>>)
    BY DEF TypeOK, CallBack
  <1>2. \A j : j \notin DOMAIN <<>>
    OBVIOUS
  <1>3. \A fd \in Fd, dir \in Dir :
           PendingIn(stack', fd, dir) <=>
              PendingIn(stack, fd, dir) \/ \E j \in DOMAIN <<>> : <<>>[j] = Cancel(fd, dir)
    BY <1>1, PendingPush
  <1>4. PendingSame
    BY <1>2, <1>3, Zenon DEF PendingSame, PendingCancel
  <1>5. AgainLast(stack)'
    BY <1>1, <1>2, AgainPush DEF LoopFrame
  <1> QED
    BY <1>4, <1>5 DEF LoopFrame, CallBack

\* A function that calls several callbacks leaves them as its frame.
LEMMA CallEffect ==
    ASSUME TypeOK, LoopFrame, NEW f \in Seq(Step), Call(f),
           \A j \in DOMAIN f : f[j].kind # "again"
    PROVE  /\ LoopFrame'
           /\ \A fd \in Fd, dir \in Dir :
                 PendingCancel(fd, dir)' <=>
                    PendingCancel(fd, dir) \/ \E j \in DOMAIN f : f[j] = Cancel(fd, dir)
  <1>1. stack \in Seq(Seq(Step)) /\ stack' = Append(stack, f) /\ ctl' = "code"
    BY DEF TypeOK, Call
  <1>2. \A fd \in Fd, dir \in Dir :
           PendingCancel(fd, dir)' <=>
              PendingCancel(fd, dir) \/ \E j \in DOMAIN f : f[j] = Cancel(fd, dir)
    BY <1>1, PendingPush DEF PendingCancel
  <1>3. AgainLast(stack)'
    BY <1>1, AgainPush DEF LoopFrame
  <1> QED
    BY <1>1, <1>2, <1>3 DEF LoopFrame

\* A library step takes itself off the stack.
LEMMA PopStepEffect ==
    ASSUME TypeOK, LoopFrame, NEW kind, AtStep(kind), stack' = WithTop(Tail(Top))
    PROVE  /\ AgainLast(stack)'
           /\ \A fd \in Fd, dir \in Dir :
                 /\ PendingCancel(fd, dir)' => PendingCancel(fd, dir)
                 /\ PendingCancel(fd, dir) =>
                       PendingCancel(fd, dir)' \/ Head(Top) = Cancel(fd, dir)
  <1>1. /\ stack \in Seq(Seq(Step)) /\ HasStep(stack)
        /\ stack' = PopStep(stack) /\ Head(Top) = FirstStep(stack)
    BY DEF TypeOK, AtStep, Top, Depth, WithTop, PopStep, HasStep, FirstStep
  <1>2. AgainLast(stack)'
    BY <1>1, AgainPopStep DEF LoopFrame
  <1>3. ASSUME NEW fd \in Fd, NEW dir \in Dir
        PROVE  /\ PendingIn(stack', fd, dir) => PendingIn(stack, fd, dir)
               /\ PendingIn(stack, fd, dir) =>
                     PendingIn(stack', fd, dir) \/ FirstStep(stack) = Cancel(fd, dir)
    BY <1>1, PendingPopStep
  <1> QED
    BY <1>1, <1>2, <1>3 DEF PendingCancel

\* Steps of another kind than "cancel" take no cancellation off the stack.
LEMMA OtherKind ==
    ASSUME NEW kind, AtStep(kind), kind # "cancel"
    PROVE  \A fd \in Fd, dir \in Dir : Head(Top) # Cancel(fd, dir)
  BY DEF AtStep, Cancel

\* Delivering an event disturbs no cancellation.
LEMMA DoOperationEffect ==
    ASSUME TypeOK, LoopFrame, doOperation
    PROVE  LoopFrame' /\ PendingSame
  <1> DEFINE e == Head(Top)
             rest == e.dirs \ {FirstDir(e.dirs)}
  <1>1. AtStep("event") /\ ctl' # "poll"
    BY DEF doOperation, AtStep
  <1>2. CASE rest = {}
    <2>1. stack' = WithTop(Tail(Top))
      BY <1>2 DEF doOperation
    <2> QED
      BY <1>1, <2>1, PopStepEffect, OtherKind DEF LoopFrame, PendingSame
  <1>3. CASE rest # {}
    <2>1. Event(e.fd, rest) \in Step /\ Event(e.fd, rest).kind = "event"
      BY <1>1, AtStepFacts, StepFacts DEF Event
    <2>2. /\ stack \in Seq(Seq(Step)) /\ HasStep(stack)
          /\ stack' = ReplaceStep(stack, Event(e.fd, rest)) /\ Head(Top) = FirstStep(stack)
      BY <1>1, <1>3 DEF TypeOK, AtStep, Top, Depth, WithTop, doOperation, ReplaceStep,
                             HasStep, FirstStep
    <2>3. AgainLast(stack)'
      BY <2>1, <2>2, AgainReplaceStep DEF LoopFrame
    <2>4. ASSUME NEW fd \in Fd, NEW dir \in Dir
          PROVE  /\ PendingIn(stack', fd, dir) => PendingIn(stack, fd, dir)
                 /\ PendingIn(stack, fd, dir) =>
                       PendingIn(stack', fd, dir) \/ FirstStep(stack) = Cancel(fd, dir)
      BY <2>1, <2>2, PendingReplaceStep
    <2>5. PendingSame
      BY <1>1, <2>2, <2>4, OtherKind DEF PendingSame, PendingCancel
    <2> QED
      BY <1>1, <2>3, <2>5 DEF LoopFrame
  <1> QED
    BY <1>2, <1>3

\* The end of an iteration is the only work left, so epoll_wait starts from none.
LEMMA NextIterationEffect ==
    ASSUME TypeOK, LoopFrame, nextIteration
    PROVE  LoopFrame' /\ PendingSame
  <1>1. AtStep("again") /\ stack' = WithTop(Tail(Top))
    BY DEF nextIteration
  <1>2. AgainLast(stack)' /\ PendingSame
    BY <1>1, PopStepEffect, OtherKind DEF PendingSame
  <1>3. /\ stack \in Seq(Seq(Step)) /\ stack # <<>> /\ Top \in Seq(Step) /\ Top # <<>>
        /\ Depth = Len(stack) /\ Depth \in DOMAIN stack /\ Top = stack[Depth]
        /\ Top[1].kind = "again" /\ 1 \in DOMAIN Top
    BY <1>1, TopFacts DEF TypeOK, AtStep, Top, Depth
  <1>4. Depth = 1 /\ Len(Top) = 1
    BY <1>3, Zenon DEF LoopFrame, AgainLast
  <1>5. Len(Tail(Top)) = 0
    BY <1>3, <1>4, TailFacts
  <1>6. stack' = [stack EXCEPT ![1] = Tail(Top)] /\ Len(stack) = 1
    BY <1>1, <1>3, <1>4 DEF WithTop
  <1>7. Len(stack') = 1 /\ stack'[1] = Tail(Top)
    BY <1>3, <1>6
  <1> QED
    BY <1>2, <1>5, <1>7 DEF LoopFrame

\* A batch replaces the empty frame of loop_wait.
LEMMA EpollWaitEffect ==
    ASSUME TypeOK, LoopFrame, epoll_wait
    PROVE  LoopFrame' /\ PendingSame
  <1>10. PICK n \in 1..cap :
            \E fds \in [1..n -> Monitored], dirs \in [1..n -> SUBSET Dir] :
               stack' = WithTop(Append([i \in 1..n |-> Event(fds[i], dirs[i])], Again(n)))
    BY DEF epoll_wait
  <1>1. PICK fds \in [1..n -> Monitored], dirs \in [1..n -> SUBSET Dir] :
           stack' = WithTop(Append([i \in 1..n |-> Event(fds[i], dirs[i])], Again(n)))
    BY <1>10
  <1> DEFINE b == [i \in 1..n |-> Event(fds[i], dirs[i])]
             f == Append(b, Again(n))
  <1>2. n \in Nat /\ Len(stack) = 1 /\ Len(stack[1]) = 0 /\ stack \in Seq(Seq(Step))
    BY DEF TypeOK, LoopFrame, epoll_wait
  <1>3. b \in Seq(Step)
    <2>1. \A i \in 1..n : Event(fds[i], dirs[i]) \in Step
      BY StepFacts DEF Monitored
    <2> QED
      BY <1>2, <2>1
  <1>4. /\ DOMAIN f = 1..(n + 1) /\ Len(f) = n + 1
        /\ f[n + 1] = Again(n) /\ \A i \in 1..n : f[i] = Event(fds[i], dirs[i])
    BY <1>2, <1>3
  <1>5. \A j \in DOMAIN f : f[j].kind # "cancel" /\ (f[j].kind = "again" => j = n + 1)
    BY <1>2, <1>4 DEF Event, Again
  <1>6. DOMAIN stack' = {1} /\ stack'[1] = f
    BY <1>1, <1>2 DEF WithTop, Depth
  <1> HIDE DEF f
  <1>7. AgainLast(stack)'
    BY <1>4, <1>5, <1>6 DEF AgainLast
  <1>8. \A fd \in Fd, dir \in Dir : ~PendingIn(stack, fd, dir)
    BY <1>2 DEF PendingIn
  <1>9. \A fd \in Fd, dir \in Dir : ~PendingIn(stack', fd, dir)
    BY <1>5, <1>6 DEF PendingIn, Cancel
  <1> QED
    BY <1>7, <1>8, <1>9 DEF LoopFrame, PendingSame, PendingCancel, epoll_wait

\* loop_wait starts with an empty frame.
LEMMA LoopWaitEffect ==
    ASSUME TypeOK, LoopFrame, loop_wait
    PROVE  LoopFrame' /\ PendingSame
  BY DEF loop_wait, LoopFrame, AgainLast, PendingSame, PendingCancel, PendingIn

\* Returning from a call takes an empty frame off the stack.
LEMMA CallReturnsEffect ==
    ASSUME TypeOK, LoopFrame, callReturns
    PROVE  LoopFrame' /\ PendingSame
  <1>1. /\ stack \in Seq(Seq(Step)) /\ stack # <<>> /\ stack[Len(stack)] = <<>>
        /\ stack' = SubSeq(stack, 1, Len(stack) - 1) /\ ctl' = "user"
    BY DEF TypeOK, callReturns, Top, Depth
  <1>2. PendingSame
    BY <1>1, PendingPopFrame DEF PendingSame, PendingCancel
  <1>3. /\ DOMAIN stack' = 1..(Len(stack) - 1) /\ Len(stack) \in Nat \ {0}
        /\ \A i \in DOMAIN stack' : i \in DOMAIN stack /\ stack'[i] = stack[i]
        /\ \A i \in DOMAIN stack' : 1 \in DOMAIN stack'
    BY <1>1
  <1>4. AgainLast(stack)'
    BY <1>3, Zenon DEF LoopFrame, AgainLast
  <1> QED
    BY <1>1, <1>2, <1>4 DEF LoopFrame

----------------------------------------------------------------------------
(* The inductive invariant. *)

Safe ==
    /\ StoredExactlyWhileAccepted
    /\ NoSilentOperation
    /\ MonitorsExactlyItsOperations
    /\ CancelledIsUnmonitored

IInv == TypeOK /\ LoopFrame /\ Safe

\* Steps that leave the operations, their status and what is monitored alone.
LEMMA QuietStep ==
    ASSUME Safe, PendingSame, UNCHANGED <<epoll, ops, status, reentered>>, open \subseteq open'
    PROVE  Safe'
  BY DEF Safe, PendingSame, StoredExactlyWhileAccepted, NoSilentOperation,
         MonitorsExactlyItsOperations, CancelledIsUnmonitored

\* An accepted registration: EPOLL_CTL_ADD finds nothing monitored and nothing
\* stored, EPOLL_CTL_MOD finds exactly the other direction monitored.
LEMMA AcceptStep ==
    ASSUME TypeOK, LoopFrame, Safe, NEW fd \in Fd, NEW dir \in Dir, NEW op \in Op,
           status[op] = "idle", Accepts(fd, dir), AcceptOperation(fd, dir, op)
    PROVE  LoopFrame' /\ Safe'
  <1>1. LoopFrame' /\ PendingSame
    BY DEF AcceptOperation, LoopFrame, PendingSame, PendingCancel
  <1> USE NoOpAssumption DEF TypeOK, AcceptOperation, Accepts
  <1>2. \A g \in Fd, d \in Dir :
           ops'[g][d] = IF g = fd /\ d = dir THEN op ELSE ops[g][d]
    OBVIOUS
  <1>3. \A o \in Op : status'[o] = IF o = op THEN "waiting" ELSE status[o]
    OBVIOUS
  <1>4. ops[fd][dir] = NoOp /\ \A g \in Fd, d \in Dir : ops[g][d] # op
    BY DEF Safe, StoredExactlyWhileAccepted
  <1>5. StoredExactlyWhileAccepted'
    BY <1>2, <1>3, <1>4 DEF Safe, StoredExactlyWhileAccepted
  <1>6. \A g \in Fd : g # fd => epoll'[g] = epoll[g]
    OBVIOUS
  <1>7. Dir = {dir, Other(dir)} /\ Other(dir) # dir /\ Other(dir) \in Dir
    BY DEF Dir, Other
  <1>8. epoll'[fd] = IF ops[fd][Other(dir)] # NoOp THEN Dir ELSE {dir}
    OBVIOUS
  <1>9. \A d \in Dir : ops'[fd][d] # NoOp => d \in epoll'[fd]
    BY <1>2, <1>7, <1>8
  <1>10. NoSilentOperation'
    <2> SUFFICES ASSUME NEW g \in Fd, NEW d \in Dir, ops'[g][d] # NoOp,
                        status'[ops'[g][d]] = "waiting"
                 PROVE  d \in epoll'[g] \/ PendingCancel(g, d)'
      BY DEF NoSilentOperation
    <2>1. CASE g = fd
      BY <1>9, <2>1
    <2>2. CASE g # fd
      <3>1. ops'[g][d] = ops[g][d] /\ ops[g][d] \in Op /\ ops[g][d] # op
        BY <1>2, <1>4, <2>2
      <3>2. status[ops[g][d]] = "waiting"
        BY <1>3, <3>1
      <3>3. d \in epoll[g] \/ PendingCancel(g, d)
        BY <3>1, <3>2 DEF Safe, NoSilentOperation
      <3> QED
        BY <1>1, <1>6, <2>2, <3>3 DEF PendingSame
    <2> QED
      BY <2>1, <2>2
  <1>11. MonitorsExactlyItsOperations'
    <2>1. fd \in open
      BY DEF CanModify, CanAdd, Safe, MonitorsExactlyItsOperations
    <2>2. epoll'[fd] = {d \in Dir : ops'[fd][d] # NoOp}
      BY <1>2, <1>7, <1>8
    <2> QED
      BY <1>2, <1>6, <2>1, <2>2 DEF Safe, MonitorsExactlyItsOperations
  <1>12. CancelledIsUnmonitored'
    <2> SUFFICES ASSUME NEW g \in Fd \ reentered', NEW d \in Dir, PendingCancel(g, d)
                 PROVE  d \notin epoll'[g]
      BY <1>1 DEF CancelledIsUnmonitored, PendingSame
    <2>1. g \notin reentered
      OBVIOUS
    <2>2. d \notin epoll[g]
      BY <2>1 DEF Safe, CancelledIsUnmonitored
    <2>3. CASE g # fd
      BY <1>6, <2>2, <2>3
    <2>4. CASE g = fd
      <3>1. d # dir
        BY <2>4
      <3>2. ops[fd][Other(dir)] # NoOp => epoll[fd] # {} /\ epoll[fd] = {x \in Dir : ops[fd][x] # NoOp}
        BY <2>1, <2>4 DEF CanModify, Safe, MonitorsExactlyItsOperations
      <3>3. ops[fd][Other(dir)] = NoOp
        BY <1>7, <2>2, <2>4, <3>1, <3>2
      <3> QED
        BY <1>8, <2>4, <3>1, <3>3
    <2> QED
      BY <2>3, <2>4
  <1> QED
    BY <1>1, <1>5, <1>10, <1>11, <1>12 DEF Safe

\* Taking one operation out of its slot concerns no other operation.
LEMMA TakeOutFacts ==
    ASSUME TypeOK, StoredExactlyWhileAccepted, NEW fd \in Fd, NEW dir \in Dir,
           ops[fd][dir] # NoOp, TakeOut(fd, dir)
    PROVE  /\ StoredExactlyWhileAccepted'
           /\ \A g \in Fd, d \in Dir :
                 /\ g = fd /\ d = dir => ops'[g][d] = NoOp
                 /\ ~(g = fd /\ d = dir) => ops'[g][d] = ops[g][d]
                 /\ ops'[g][d] # NoOp => /\ ops'[g][d] = ops[g][d]
                                         /\ status'[ops'[g][d]] = status[ops[g][d]]
  <1> USE NoOpAssumption DEF TypeOK, TakeOut
  <1>1. \A g \in Fd, d \in Dir :
           ops'[g][d] = IF g = fd /\ d = dir THEN NoOp ELSE ops[g][d]
    OBVIOUS
  <1>2. \A o \in Op : status'[o] = IF o = ops[fd][dir] THEN "idle" ELSE status[o]
    OBVIOUS
  <1>3. \A g \in Fd, d \in Dir : ~(g = fd /\ d = dir) => ops[g][d] # ops[fd][dir]
    BY DEF StoredExactlyWhileAccepted
  <1>4. \A g \in Fd, d \in Dir : ops'[g][d] # NoOp =>
           ops'[g][d] = ops[g][d] /\ status'[ops'[g][d]] = status[ops[g][d]]
    BY <1>1, <1>2, <1>3
  <1>5. StoredExactlyWhileAccepted'
    BY <1>1, <1>2, <1>3, <1>4 DEF StoredExactlyWhileAccepted
  <1> QED
    BY <1>1, <1>4, <1>5

\* Removing or cancelling one operation leaves the other direction monitored,
\* whether or not epoll_modify succeeds.
LEMMA ForgetStep ==
    ASSUME TypeOK, Safe, PendingSame, NEW fd \in Fd, NEW dir \in Dir, ops[fd][dir] # NoOp,
           Forget(fd, dir), UNCHANGED <<open, reentered>>
    PROVE  Safe'
  <1> USE DEF Forget
  <1>1. TakeOut(fd, dir) /\ StoredExactlyWhileAccepted
    BY DEF Safe
  <1>2. StoredExactlyWhileAccepted'
    BY <1>1, TakeOutFacts
  <1>3. \A g \in Fd, d \in Dir :
           /\ g = fd /\ d = dir => ops'[g][d] = NoOp
           /\ ~(g = fd /\ d = dir) => ops'[g][d] = ops[g][d]
           /\ ops'[g][d] # NoOp => /\ ops'[g][d] = ops[g][d]
                                   /\ status'[ops'[g][d]] = status[ops[g][d]]
    BY <1>1, TakeOutFacts
  <1>4. Dir = {dir, Other(dir)} /\ Other(dir) # dir /\ Other(dir) \in Dir
    BY DEF Dir, Other
  <1>5. /\ \A g \in Fd : g # fd => epoll'[g] = epoll[g]
        /\ epoll'[fd] = Unmonitor(fd, dir)
    BY DEF TypeOK
  <1>6. NoSilentOperation'
    <2> SUFFICES ASSUME NEW g \in Fd, NEW d \in Dir, ops'[g][d] # NoOp,
                        status'[ops'[g][d]] = "waiting"
                 PROVE  d \in epoll'[g] \/ PendingCancel(g, d)'
      BY DEF NoSilentOperation
    <2>1. ops[g][d] # NoOp /\ (d \in epoll[g] \/ PendingCancel(g, d))
      BY <1>3 DEF Safe, NoSilentOperation
    <2>2. CASE g # fd
      BY <1>5, <2>1, <2>2 DEF PendingSame
    <2>3. CASE g = fd
      <3>1. d = Other(dir)
        BY <1>3, <1>4, <2>3
      <3>2. d \in epoll'[g] \/ epoll'[g] = epoll[g]
        BY <1>5, <2>1, <2>3, <3>1 DEF Unmonitor
      <3> QED
        BY <2>1, <3>2 DEF PendingSame
    <2> QED
      BY <2>2, <2>3
  <1>7. MonitorsExactlyItsOperations'
    <2> SUFFICES ASSUME NEW g \in Fd, epoll'[g] # {}
                 PROVE  /\ g \notin reentered => epoll'[g] = {d \in Dir : ops'[g][d] # NoOp}
                        /\ g \in open
      BY DEF MonitorsExactlyItsOperations
    <2>1. CASE g # fd
      BY <1>3, <1>5, <2>1 DEF Safe, MonitorsExactlyItsOperations
    <2>2. CASE g = fd
      <3>1. /\ ops[fd][Other(dir)] # NoOp /\ epoll[fd] # {}
            /\ epoll'[fd] = {Other(dir)}
        BY <1>5, <2>2 DEF Unmonitor, CanModify
      <3> QED
        BY <1>3, <1>4, <2>2, <3>1 DEF Safe, MonitorsExactlyItsOperations
    <2> QED
      BY <2>1, <2>2
  <1>8. CancelledIsUnmonitored'
    <2> SUFFICES ASSUME NEW g \in Fd \ reentered, NEW d \in Dir, PendingCancel(g, d)
                 PROVE  d \notin epoll'[g]
      BY DEF CancelledIsUnmonitored, PendingSame
    <2>1. d \notin epoll[g]
      BY DEF Safe, CancelledIsUnmonitored
    <2>2. CASE g # fd
      BY <1>5, <2>1, <2>2
    <2>3. CASE g = fd /\ epoll[fd] # {} /\ ops[fd][Other(dir)] # NoOp
      BY <1>4, <1>5, <2>1, <2>3 DEF Unmonitor, CanModify, Safe, MonitorsExactlyItsOperations
    <2>4. CASE g = fd /\ ~(epoll[fd] # {} /\ ops[fd][Other(dir)] # NoOp)
      BY <1>5, <2>1, <2>4 DEF Unmonitor, CanModify
    <2> QED
      BY <2>2, <2>3, <2>4
  <1> QED
    BY <1>2, <1>6, <1>7, <1>8 DEF Safe

\* Dropping both operations of a descriptor that leaves epoll.
LEMMA DropAllStep ==
    ASSUME TypeOK, Safe, PendingSame, NEW fd \in Fd, DropAll(fd),
           epoll' = [epoll EXCEPT ![fd] = {}],
           open \subseteq open' \cup {fd},
           reentered \subseteq reentered' \cup {fd}
    PROVE  Safe'
  <1> USE NoOpAssumption DEF TypeOK, DropAll
  <1>1. \A g \in Fd, d \in Dir : ops'[g][d] = IF g = fd THEN NoOp ELSE ops[g][d]
    OBVIOUS
  <1>2. \A o \in Op : status'[o] = IF \E d \in Dir : o = ops[fd][d] THEN "idle" ELSE status[o]
    OBVIOUS
  <1>3. \A g \in Fd, d \in Dir : epoll'[g] = IF g = fd THEN {} ELSE epoll[g]
    OBVIOUS
  <1>4. \A g \in Fd, d, e \in Dir : g # fd /\ ops[g][d] # NoOp => ops[g][d] # ops[fd][e]
    BY DEF Safe, StoredExactlyWhileAccepted
  <1>5. \A g \in Fd, d \in Dir : ops'[g][d] # NoOp =>
           g # fd /\ ops'[g][d] = ops[g][d] /\ status'[ops'[g][d]] = status[ops[g][d]]
    BY <1>1, <1>2, <1>4
  <1>6. StoredExactlyWhileAccepted'
    BY <1>1, <1>2, <1>4, <1>5 DEF Safe, StoredExactlyWhileAccepted
  <1>7. NoSilentOperation'
    BY <1>3, <1>5 DEF Safe, NoSilentOperation, PendingSame
  <1>8. MonitorsExactlyItsOperations'
    BY <1>1, <1>3 DEF Safe, MonitorsExactlyItsOperations
  <1>9. CancelledIsUnmonitored'
    BY <1>3 DEF Safe, CancelledIsUnmonitored, PendingSame
  <1> QED
    BY <1>6, <1>7, <1>8, <1>9 DEF Safe

\* cancelAllOperations leaves epoll before anything else runs: from then on its
\* operations wait for a pending cancellation instead of an event.
LEMMA CancelAllStep ==
    ASSUME TypeOK, Safe, NEW fd \in Fd,
           epoll' = [epoll EXCEPT ![fd] = {}],
           UNCHANGED <<ops, status, open, reentered>>,
           \A g \in Fd, d \in Dir : PendingCancel(g, d)' <=> PendingCancel(g, d) \/ g = fd
    PROVE  Safe'
  <1> USE DEF TypeOK
  <1>1. \A g \in Fd : epoll'[g] = IF g = fd THEN {} ELSE epoll[g]
    OBVIOUS
  <1>2. StoredExactlyWhileAccepted'
    BY DEF Safe, StoredExactlyWhileAccepted
  <1>3. NoSilentOperation'
    BY <1>1 DEF Safe, NoSilentOperation
  <1>4. MonitorsExactlyItsOperations'
    BY <1>1 DEF Safe, MonitorsExactlyItsOperations
  <1>5. CancelledIsUnmonitored'
    BY <1>1 DEF Safe, CancelledIsUnmonitored
  <1> QED
    BY <1>2, <1>3, <1>4, <1>5 DEF Safe

\* The two cancellations and the close that follow cancelAllOperations.
LEMMA CancelBothFacts ==
    ASSUME NEW fd \in Fd, NEW f \in {CancelBoth(fd), CancelBothThenClose(fd)}
    PROVE  /\ f \in Seq(Step)
           /\ \A j \in DOMAIN f : f[j].kind # "again"
           /\ \A g \in Fd, d \in Dir : (\E j \in DOMAIN f : f[j] = Cancel(g, d)) <=> g = fd
  <1>1. /\ f \in Seq(Step) /\ 1 \in DOMAIN f /\ 2 \in DOMAIN f
        /\ f[1] = Cancel(fd, "read") /\ f[2] = Cancel(fd, "write")
        /\ \A j \in DOMAIN f : j = 1 \/ j = 2 \/ f[j] = Close(fd)
    <2>1. /\ Cancel(fd, "read") \in Step /\ Cancel(fd, "write") \in Step /\ Close(fd) \in Step
      BY StepFacts DEF Dir
    <2>2. CASE f = <<Cancel(fd, "read"), Cancel(fd, "write")>>
      BY <2>1, <2>2
    <2>3. CASE f = <<Cancel(fd, "read"), Cancel(fd, "write"), Close(fd)>>
      BY <2>1, <2>3
    <2> QED
      BY <2>2, <2>3 DEF CancelBoth, CancelBothThenClose
  <1>2. \A j \in DOMAIN f : f[j].kind # "again"
    BY <1>1 DEF Cancel, Close
  <1>3. \A g \in Fd, d \in Dir : Close(fd) # Cancel(g, d)
    BY DEF Cancel, Close
  <1>4. \A g \in Fd, d, e \in Dir : Cancel(g, d) = Cancel(fd, e) => g = fd
    BY DEF Cancel
  <1>5. \A d \in Dir : d = "read" \/ d = "write"
    BY DEF Dir
  <1>6. "read" \in Dir /\ "write" \in Dir
    BY DEF Dir
  <1> QED
    BY <1>1, <1>2, <1>3, <1>4, <1>5, <1>6

\* A cancellation step: the operation it calls was not monitored any more.
LEMMA DoCancelStep ==
    ASSUME TypeOK, LoopFrame, Safe, doCancel
    PROVE  LoopFrame' /\ Safe'
  <1> DEFINE c == Head(Top)
  <1>1. AtStep("cancel") /\ stack' = WithTop(Tail(Top))
        /\ UNCHANGED <<open, epoll, reentered>> /\ ctl' # "poll"
    BY DEF doCancel, AtStep
  <1>2. c.fd \in Fd /\ c.dir \in Dir /\ c = Cancel(c.fd, c.dir)
    BY <1>1, AtStepFacts
  <1>3. LoopFrame'
    BY <1>1, PopStepEffect DEF LoopFrame
  <1>4. \A g \in Fd, d \in Dir :
           /\ PendingCancel(g, d)' => PendingCancel(g, d)
           /\ PendingCancel(g, d) => PendingCancel(g, d)' \/ (g = c.fd /\ d = c.dir)
    BY <1>1, <1>2, PopStepEffect DEF Cancel
  <1>5. PendingCancel(c.fd, c.dir)
    <2>1. Depth \in DOMAIN stack /\ 1 \in DOMAIN stack[Depth] /\ stack[Depth][1] = c
      BY <1>1, TopFacts DEF AtStep, Top
    <2> QED
      BY <1>2, <2>1 DEF PendingCancel, PendingIn
  <1> HIDE DEF c
  <1>6. CancelledIsUnmonitored'
    BY <1>1, <1>4 DEF Safe, CancelledIsUnmonitored
  <1>7. CASE ops[c.fd][c.dir] = NoOp
    <2>1. UNCHANGED <<ops, status>>
      BY <1>7 DEF doCancel, c
    <2>2. StoredExactlyWhileAccepted'
      BY <2>1 DEF Safe, StoredExactlyWhileAccepted
    <2>3. NoSilentOperation'
      BY <1>1, <1>4, <1>7, <2>1 DEF Safe, NoSilentOperation
    <2>4. MonitorsExactlyItsOperations'
      BY <1>1, <2>1 DEF Safe, MonitorsExactlyItsOperations
    <2> QED
      BY <1>3, <1>6, <2>2, <2>3, <2>4 DEF Safe
  <1>8. CASE ops[c.fd][c.dir] # NoOp
    <2>1. TakeOut(c.fd, c.dir)
      BY <1>8 DEF doCancel, c
    <2>2. StoredExactlyWhileAccepted'
      BY <1>2, <1>8, <2>1, TakeOutFacts DEF Safe
    <2>3. \A g \in Fd, d \in Dir :
             /\ g = c.fd /\ d = c.dir => ops'[g][d] = NoOp
             /\ ~(g = c.fd /\ d = c.dir) => ops'[g][d] = ops[g][d]
             /\ ops'[g][d] # NoOp => /\ ops'[g][d] = ops[g][d]
                                     /\ status'[ops'[g][d]] = status[ops[g][d]]
      BY <1>2, <1>8, <2>1, TakeOutFacts DEF Safe
    <2>4. NoSilentOperation'
      BY <1>1, <1>4, <2>3 DEF Safe, NoSilentOperation
    <2>5. c.fd \in reentered \/ epoll[c.fd] = {}
      BY <1>2, <1>5, <1>8 DEF Safe, CancelledIsUnmonitored, MonitorsExactlyItsOperations
    <2>6. MonitorsExactlyItsOperations'
      BY <1>1, <2>3, <2>5 DEF Safe, MonitorsExactlyItsOperations
    <2> QED
      BY <1>3, <1>6, <2>2, <2>4, <2>6 DEF Safe
  <1> QED
    BY <1>7, <1>8

\* Closing a descriptor: what is still stored for the number is orphaned.
LEMMA DoCloseStep ==
    ASSUME TypeOK, LoopFrame, Safe, doClose
    PROVE  LoopFrame' /\ Safe'
  <1>1. AtStep("close") /\ stack' = WithTop(Tail(Top)) /\ UNCHANGED <<ops, ctl>>
    BY DEF doClose
  <1>2. LoopFrame' /\ PendingSame
    BY <1>1, PopStepEffect, OtherKind DEF LoopFrame, PendingSame, AtStep
  <1>3. PICK fd \in Fd : \/ CloseDescriptor(fd)
                         \/ UNCHANGED <<open, epoll, status, reentered>>
    BY <1>1, AtStepFacts DEF doClose
  <1>4. CASE UNCHANGED <<open, epoll, status, reentered>>
    BY <1>1, <1>2, <1>4, QuietStep
  <1>5. CASE CloseDescriptor(fd)
    <2> USE NoOpAssumption DEF TypeOK, CloseDescriptor, Orphan
    <2>1. /\ \A g \in Fd : epoll'[g] = IF g = fd THEN {} ELSE epoll[g]
          /\ \A o \in Op : status'[o] = IF \E d \in Dir : o = ops[fd][d]
                                        THEN "orphan" ELSE status[o]
          /\ ops' = ops /\ open' = open \ {fd} /\ reentered' = reentered \ {fd}
      BY <1>1, <1>5
    <2>2. StoredExactlyWhileAccepted'
      BY <2>1 DEF Safe, StoredExactlyWhileAccepted
    <2>3. \A g \in Fd, d \in Dir : ops[g][d] # NoOp /\ status'[ops[g][d]] = "waiting" =>
             g # fd /\ status[ops[g][d]] = "waiting"
      BY <2>1
    <2>4. NoSilentOperation'
      BY <1>2, <2>1, <2>3 DEF Safe, NoSilentOperation, PendingSame
    <2>5. MonitorsExactlyItsOperations'
      BY <2>1 DEF Safe, MonitorsExactlyItsOperations
    <2>6. CancelledIsUnmonitored'
      BY <1>2, <2>1 DEF Safe, CancelledIsUnmonitored, PendingSame
    <2> QED
      BY <1>2, <2>2, <2>4, <2>5, <2>6 DEF Safe
  <1> QED
    BY <1>3, <1>4, <1>5

\* Every step of the reactor and of the code that uses it keeps the invariant.
LEMMA InvariantStep == IInv /\ [Next]_vars => IInv'
  <1> SUFFICES ASSUME IInv, [Next]_vars PROVE LoopFrame' /\ Safe'
    BY TypeStep DEF IInv
  <1> USE DEF IInv
  <1>1. UNCHANGED <<stack, ctl>> => LoopFrame' /\ PendingSame
    BY DEF LoopFrame, PendingSame, PendingCancel
  <1>2. ASSUME NEW fd \in Fd, NEW dir \in Dir, NEW op \in Op, RegisterOperation(fd, dir, op)
        PROVE  LoopFrame' /\ Safe'
    <2>1. CASE Accepts(fd, dir)
      BY <1>2, <2>1, AcceptStep DEF RegisterOperation
    <2>2. CASE Reject
      <3>1. LoopFrame' /\ PendingSame
        BY <1>2, <2>2, CallBackEffect DEF RegisterOperation, Reject, MayCall
      <3> QED
        BY <2>2, <3>1, QuietStep DEF Reject
    <2> QED
      BY <1>2, <2>1, <2>2 DEF RegisterOperation
  <1>3. ASSUME NEW fd \in Fd, NEW dir \in Dir, RemoveOperation(fd, dir)
        PROVE  LoopFrame' /\ Safe'
    BY <1>1, <1>3, ForgetStep DEF RemoveOperation
  <1>4. ASSUME NEW fd \in Fd, NEW dir \in Dir, CancelOperation(fd, dir)
        PROVE  LoopFrame' /\ Safe'
    <2>1. LoopFrame' /\ PendingSame
      BY <1>4, CallBackEffect DEF CancelOperation, MayCall
    <2> QED
      BY <1>4, <2>1, ForgetStep DEF CancelOperation
  <1>5. ASSUME NEW fd \in Fd, removeAllOperations(fd)
        PROVE  LoopFrame' /\ Safe'
    BY <1>1, <1>5, DropAllStep DEF removeAllOperations
  <1>6. ASSUME NEW fd \in Fd, NEW f \in {CancelBoth(fd), CancelBothThenClose(fd)},
               Call(f), epoll' = [epoll EXCEPT ![fd] = {}],
               UNCHANGED <<ops, status, open, reentered>>
        PROVE  LoopFrame' /\ Safe'
    <2>1. /\ f \in Seq(Step)
          /\ \A j \in DOMAIN f : f[j].kind # "again"
          /\ \A g \in Fd, d \in Dir : (\E j \in DOMAIN f : f[j] = Cancel(g, d)) <=> g = fd
      BY CancelBothFacts, Zenon
    <2>2. /\ LoopFrame'
          /\ \A g \in Fd, d \in Dir :
                PendingCancel(g, d)' <=>
                   PendingCancel(g, d) \/ \E j \in DOMAIN f : f[j] = Cancel(g, d)
      BY <1>6, <2>1, CallEffect, Zenon
    <2>3. \A g \in Fd, d \in Dir : PendingCancel(g, d)' <=> PendingCancel(g, d) \/ g = fd
      BY <2>1, <2>2, Zenon
    <2> QED
      BY <1>6, <2>2, <2>3, CancelAllStep
  <1>7. ASSUME NEW fd \in Fd, cancelAllOperations(fd)
        PROVE  LoopFrame' /\ Safe'
    BY <1>6, <1>7 DEF cancelAllOperations
  <1>8. ASSUME NEW fd \in Fd, shutdown(fd)
        PROVE  LoopFrame' /\ Safe'
    <2>1. CASE hasOperation(fd)
      BY <1>6, <1>8, <2>1 DEF shutdown
    <2>2. CASE ~hasOperation(fd)
      <3>1. <<Close(fd)>> \in Seq(Step) /\ \A j \in DOMAIN <<Close(fd)>> : <<Close(fd)>>[j] = Close(fd)
        BY StepFacts
      <3>2. Close(fd).kind # "again" /\ \A g \in Fd, d \in Dir : Close(fd) # Cancel(g, d)
        BY DEF Close, Cancel
      <3>3. Call(<<Close(fd)>>) /\ UNCHANGED <<epoll, ops, status, open, reentered>>
        BY <1>8, <2>2 DEF shutdown
      <3>4. LoopFrame' /\ PendingSame
        BY <3>1, <3>2, <3>3, CallEffect DEF PendingSame
      <3> QED
        BY <3>3, <3>4, QuietStep
    <2> QED
      BY <2>1, <2>2
  <1>9. ASSUME NEW fd \in Fd, destroy(fd)
        PROVE  LoopFrame' /\ Safe'
    BY <1>1, <1>9, DropAllStep DEF destroy
  <1>10. ASSUME NEW fd \in Fd, create(fd)
         PROVE  LoopFrame' /\ Safe'
    BY <1>1, <1>10, QuietStep DEF create
  <1>11. CASE Quit
    BY <1>1, <1>11, QuietStep DEF Quit
  <1>12. CASE loop_wait
    BY <1>12, LoopWaitEffect, QuietStep DEF loop_wait
  <1>13. CASE epoll_wait
    BY <1>13, EpollWaitEffect, QuietStep DEF epoll_wait
  <1>14. CASE doOperation
    BY <1>14, DoOperationEffect, QuietStep DEF doOperation
  <1>15. CASE nextIteration
    BY <1>15, NextIterationEffect, QuietStep DEF nextIteration
  <1>16. CASE doCancel
    BY <1>16, DoCancelStep
  <1>17. CASE doClose
    BY <1>17, DoCloseStep
  <1>18. CASE callReturns
    BY <1>18, CallReturnsEffect, QuietStep DEF callReturns
  <1>19. CASE callbackReturns
    <2>1. LoopFrame' /\ PendingSame
      BY <1>19 DEF callbackReturns, LoopFrame, PendingSame, PendingCancel
    <2> QED
      BY <1>19, <2>1, QuietStep DEF callbackReturns
  <1>20. CASE UNCHANGED vars
    BY <1>1, <1>20, QuietStep DEF vars
  <1>21. "read" \in Dir /\ "write" \in Dir
    BY DEF Dir
  <1> QED
    BY <1>2, <1>3, <1>4, <1>5, <1>7, <1>8, <1>9, <1>10, <1>11, <1>12, <1>13, <1>14, <1>15,
       <1>16, <1>17, <1>18, <1>19, <1>20, <1>21
    DEF Next, UserCall, LibraryStep, registerReadOperation, registerWriteOperation,
        removeReadOperation, removeWriteOperation, cancelReadOperation, cancelWriteOperation

\* The reactor starts without operations and without work.
LEMMA InvariantInit == Init => IInv
  <1> SUFFICES ASSUME Init PROVE IInv
    OBVIOUS
  <1>1. TypeOK
    BY InitCapAssumption DEF Init, TypeOK, Dir
  <1>2. LoopFrame
    BY DEF Init, LoopFrame, AgainLast
  <1>3. Safe
    BY DEF Init, Safe, StoredExactlyWhileAccepted, NoSilentOperation,
           MonitorsExactlyItsOperations, CancelledIsUnmonitored, PendingCancel, PendingIn
  <1> QED
    BY <1>1, <1>2, <1>3 DEF IInv

\* The invariant holds in every state the reactor reaches.
LEMMA InvariantHolds == Spec => []IInv
  BY InvariantInit, InvariantStep, PTL DEF Spec

\* Whatever callbacks register, cancel, remove or close, and however deeply they
\* nest, an accepted operation sits in exactly one slot until it is removed or
\* told of its cancellation.
THEOREM OperationsAreAccounted == Spec => []StoredExactlyWhileAccepted
  <1>1. IInv => StoredExactlyWhileAccepted
    BY DEF IInv, Safe
  <1> QED
    BY <1>1, InvariantHolds, PTL

\* No accepted operation on an open descriptor is ever left without either epoll
\* watching for it or a cancellation about to call it, although the reactor
\* ignores the results of epoll_modify and epoll_remove.
THEOREM OperationsAreNeverSilent == Spec => []NoSilentOperation
  <1>1. IInv => NoSilentOperation
    BY DEF IInv, Safe
  <1> QED
    BY <1>1, InvariantHolds, PTL

\* What epoll monitors and what OperationInfo stores agree, unless a callback
\* registered what an enclosing cancelAllOperations had still to cancel.
THEOREM MonitoringAgrees == Spec => []MonitorsExactlyItsOperations
  <1>1. IInv => MonitorsExactlyItsOperations
    BY DEF IInv, Safe
  <1> QED
    BY <1>1, InvariantHolds, PTL

\* No event can reach an operation that is being cancelled, under the same proviso.
THEOREM CancellationIsUnmonitored == Spec => []CancelledIsUnmonitored
  <1>1. IInv => CancelledIsUnmonitored
    BY DEF IInv, Safe
  <1> QED
    BY <1>1, InvariantHolds, PTL

----------------------------------------------------------------------------
(* The size of event_array_.  Its growth is decided long after epoll_wait    *)
(* returned, from the n that the frame of loop_wait kept meanwhile.           *)

\* No batch on the stack holds more events than there are descriptors.
BatchesFit(frames) ==
    \A i \in DOMAIN frames : \A j \in DOMAIN frames[i] :
       frames[i][j].kind = "again" => frames[i][j].n <= Cardinality(Fd)

\* Two stacks of which the second has no batch that the first has not.
NoNewBatch(s, t) ==
    \A i \in DOMAIN t : \A j \in DOMAIN t[i] :
       \/ t[i][j].kind # "again"
       \/ \E k \in DOMAIN s : \E l \in DOMAIN s[k] : t[i][j] = s[k][l]

\* Steps that bring no new batch keep the bound.
LEMMA FitKept ==
    ASSUME NEW s, NEW t, BatchesFit(s), NoNewBatch(s, t)
    PROVE  BatchesFit(t)
  <1> SUFFICES ASSUME NEW i \in DOMAIN t, NEW j \in DOMAIN t[i], t[i][j].kind = "again"
               PROVE  t[i][j].n <= Cardinality(Fd)
    BY DEF BatchesFit
  <1>1. PICK k \in DOMAIN s : \E l \in DOMAIN s[k] : t[i][j] = s[k][l]
    BY DEF NoNewBatch
  <1>2. PICK l \in DOMAIN s[k] : t[i][j] = s[k][l]
    BY <1>1
  <1> QED
    BY <1>2 DEF BatchesFit

\* A call that is not loop_wait brings no batch.
LEMMA NoBatchPushed ==
    ASSUME NEW s \in Seq(Seq(Step)), NEW f \in Seq(Step),
           \A j \in DOMAIN f : f[j].kind # "again"
    PROVE  NoNewBatch(s, Append(s, f))
  <1> DEFINE t == Append(s, f)
  <1>1. /\ DOMAIN s = 1..Len(s) /\ DOMAIN t = 1..(Len(s) + 1) /\ Len(s) \in Nat
        /\ t[Len(s) + 1] = f /\ \A i \in 1..Len(s) : t[i] = s[i]
    OBVIOUS
  <1>2. \A i \in DOMAIN t : (i \in DOMAIN s /\ t[i] = s[i]) \/ t[i] = f
    BY <1>1
  <1> HIDE DEF t
  <1>3. NoNewBatch(s, t)
    BY <1>2, Zenon DEF NoNewBatch
  <1> QED
    BY <1>3 DEF t

\* A library step takes itself off the stack and leaves the others.
LEMMA NoBatchPopped ==
    ASSUME NEW s \in Seq(Seq(Step)), HasStep(s)
    PROVE  NoNewBatch(s, PopStep(s))
  <1> DEFINE n == Len(s)
             top == s[n]
             t == [s EXCEPT ![n] = Tail(top)]
  <1>1. /\ n \in Nat \ {0} /\ n \in DOMAIN s /\ DOMAIN t = DOMAIN s
        /\ s[n] = top /\ top \in Seq(Step) /\ top # <<>>
        /\ t[n] = Tail(top) /\ \A i \in DOMAIN s : i # n => t[i] = s[i]
    BY DEF HasStep
  <1> HIDE DEF n, top, t
  <1>2. \A j \in DOMAIN Tail(top) : \E l \in DOMAIN top : Tail(top)[j] = top[l]
    <2>1. /\ Len(top) \in Nat \ {0} /\ DOMAIN top = 1..Len(top)
          /\ DOMAIN Tail(top) = 1..(Len(top) - 1)
          /\ \A k \in 1..(Len(top) - 1) : Tail(top)[k] = top[k + 1]
      BY <1>1, TailFacts
    <2> QED
      BY <2>1
  <1>3. NoNewBatch(s, t)
    <2> SUFFICES ASSUME NEW i \in DOMAIN t, NEW j \in DOMAIN t[i]
                 PROVE  \E k \in DOMAIN s : \E l \in DOMAIN s[k] : t[i][j] = s[k][l]
      BY Zenon DEF NoNewBatch
    <2>1. CASE i = n
      <3>1. j \in DOMAIN Tail(top) /\ t[i][j] = Tail(top)[j]
        BY <1>1, <2>1, Zenon
      <3>2. PICK l \in DOMAIN top : Tail(top)[j] = top[l]
        BY <1>2, <3>1
      <3> QED
        BY <1>1, <3>1, <3>2, Zenon
    <2>2. CASE i # n
      BY <1>1, <2>2, Zenon
    <2> QED
      BY <2>1, <2>2
  <1> QED
    BY <1>3 DEF PopStep, t, n, top

\* An event whose first direction is delivered is replaced by the rest of it.
LEMMA NoBatchReplaced ==
    ASSUME NEW s \in Seq(Seq(Step)), HasStep(s), NEW e \in Step, e.kind = "event"
    PROVE  NoNewBatch(s, ReplaceStep(s, e))
  <1> DEFINE n == Len(s)
             top == s[n]
             new == <<e>> \o Tail(top)
             t == [s EXCEPT ![n] = new]
  <1>1. /\ n \in Nat \ {0} /\ n \in DOMAIN s /\ DOMAIN t = DOMAIN s
        /\ s[n] = top /\ top \in Seq(Step) /\ top # <<>>
        /\ t[n] = new /\ \A i \in DOMAIN s : i # n => t[i] = s[i]
    BY DEF HasStep
  <1>2. new = <<e>> \o Tail(top)
    OBVIOUS
  <1> HIDE DEF n, top, t, new
  <1>3. \A j \in DOMAIN new : new[j] = e \/ \E l \in DOMAIN top : new[j] = top[l]
    <2>1. /\ Len(top) \in Nat \ {0} /\ DOMAIN top = 1..Len(top)
          /\ DOMAIN new = 1..Len(top)
          /\ new[1] = e /\ \A k \in 2..Len(top) : new[k] = top[k]
      BY <1>1, <1>2, ReplaceHeadFacts
    <2> QED
      BY <2>1
  <1>4. NoNewBatch(s, t)
    <2> SUFFICES ASSUME NEW i \in DOMAIN t, NEW j \in DOMAIN t[i], t[i][j] # e
                 PROVE  \E k \in DOMAIN s : \E l \in DOMAIN s[k] : t[i][j] = s[k][l]
      BY Zenon DEF NoNewBatch
    <2>1. CASE i = n
      BY <1>1, <1>3, <2>1, Zenon
    <2>2. CASE i # n
      BY <1>1, <2>2, Zenon
    <2> QED
      BY <2>1, <2>2
  <1> QED
    BY <1>4 DEF ReplaceStep, t, new, n, top

\* epoll_wait reports each descriptor once, so a batch is no larger than Fd.
LEMMA BatchSize ==
    ASSUME TypeOK, LoopFrame, epoll_wait
    PROVE  BatchesFit(stack')
  <1>1. PICK n \in 1..cap : \E fds \in [1..n -> Monitored] :
           /\ \A i, j \in 1..n : i # j => fds[i] # fds[j]
           /\ \E dirs \in [1..n -> SUBSET Dir] :
                 stack' = WithTop(Append([i \in 1..n |-> Event(fds[i], dirs[i])], Again(n)))
    BY DEF epoll_wait
  <1>2. PICK fds \in [1..n -> Monitored] :
           /\ \A i, j \in 1..n : i # j => fds[i] # fds[j]
           /\ \E dirs \in [1..n -> SUBSET Dir] :
                 stack' = WithTop(Append([i \in 1..n |-> Event(fds[i], dirs[i])], Again(n)))
    BY <1>1
  <1>3. PICK dirs \in [1..n -> SUBSET Dir] :
           stack' = WithTop(Append([i \in 1..n |-> Event(fds[i], dirs[i])], Again(n)))
    BY <1>2
  <1>4. n \in Nat \ {0} /\ Len(stack) = 1 /\ stack \in Seq(Seq(Step))
    BY DEF TypeOK, LoopFrame, epoll_wait
  <1>5. n <= Cardinality(Fd)
    <2>1. fds \in Injection(1..n, Fd)
      BY <1>2 DEF Monitored, Injection, IsInjective
    <2>2. Cardinality(1..n) <= Cardinality(Fd)
      BY <2>1, FdAssumption, FS_Injection
    <2>3. Cardinality(1..n) = n
      BY <1>4, FS_Interval
    <2> QED
      BY <2>2, <2>3
  <1> DEFINE b == [i \in 1..n |-> Event(fds[i], dirs[i])]
             f == Append(b, Again(n))
  <1>6. b \in Seq(Step)
    <2>1. \A i \in 1..n : Event(fds[i], dirs[i]) \in Step
      BY StepFacts DEF Monitored
    <2> QED
      BY <1>4, <2>1
  <1>7. /\ DOMAIN f = 1..(n + 1)
        /\ f[n + 1] = Again(n) /\ \A i \in 1..n : f[i] = Event(fds[i], dirs[i])
    BY <1>4, <1>6
  <1>8. \A j \in DOMAIN f : f[j].kind = "again" => f[j].n = n
    BY <1>4, <1>7 DEF Event, Again
  <1>9. DOMAIN stack' = {1} /\ stack'[1] = f
    BY <1>3, <1>4 DEF WithTop, Depth
  <1> HIDE DEF f
  <1> QED
    BY <1>5, <1>8, <1>9 DEF BatchesFit

\* What bounds the array: its size, and the batches that may still enlarge it.
Bounded == EventArrayBounded /\ BatchesFit(stack)

\* Every step keeps the array within its bound: it may only double a batch.
LEMMA BoundedStep == IInv /\ Bounded /\ [Next]_vars => Bounded'
  <1> SUFFICES ASSUME IInv, Bounded, [Next]_vars PROVE Bounded'
    OBVIOUS
  <1>1. UNCHANGED cap => EventArrayBounded'
    BY DEF Bounded, EventArrayBounded
  <1>2. stack \in Seq(Seq(Step)) /\ <<>> \in Seq(Step) /\ \A j : j \notin DOMAIN <<>>
    BY DEF IInv, TypeOK
  <1>3. ASSUME NoNewBatch(stack, stack') PROVE BatchesFit(stack')
    BY <1>3, FitKept DEF Bounded
  <1>4. UNCHANGED stack => BatchesFit(stack')
    BY DEF Bounded
  <1>5. CallBack => BatchesFit(stack')
    BY <1>2, <1>3, NoBatchPushed DEF CallBack
  <1>6. ASSUME NEW fd \in Fd, NEW f \in {CancelBoth(fd), CancelBothThenClose(fd), <<Close(fd)>>},
               Call(f)
        PROVE  BatchesFit(stack')
    <2>1. f \in Seq(Step) /\ \A j \in DOMAIN f : f[j].kind # "again"
      <3>1. CASE f \in {CancelBoth(fd), CancelBothThenClose(fd)}
        BY <3>1, CancelBothFacts, Zenon
      <3>2. CASE f = <<Close(fd)>>
        BY <3>2, StepFacts DEF Close
      <3> QED
        BY <3>1, <3>2
    <2> QED
      BY <1>2, <1>3, <1>6, <2>1, NoBatchPushed DEF Call
  <1>7. ASSUME NEW kind, AtStep(kind), stack' = WithTop(Tail(Top)) PROVE BatchesFit(stack')
    <2>1. HasStep(stack) /\ stack' = PopStep(stack)
      BY <1>7 DEF AtStep, Top, Depth, WithTop, PopStep, HasStep
    <2> QED
      BY <1>2, <1>3, <2>1, NoBatchPopped
  <1>8. ASSUME NEW fd \in Fd, NEW dir \in Dir, NEW op \in Op, RegisterOperation(fd, dir, op)
        PROVE  Bounded'
    BY <1>1, <1>4, <1>5, <1>8 DEF RegisterOperation, AcceptOperation, Reject, Bounded
  <1>9. ASSUME NEW fd \in Fd, NEW dir \in Dir, RemoveOperation(fd, dir) \/ CancelOperation(fd, dir)
        PROVE  Bounded'
    BY <1>1, <1>4, <1>5, <1>9 DEF RemoveOperation, CancelOperation, Bounded
  <1>10. ASSUME NEW fd \in Fd, removeAllOperations(fd) \/ destroy(fd) \/ create(fd)
         PROVE  Bounded'
    BY <1>1, <1>4, <1>10 DEF removeAllOperations, destroy, create, Bounded
  <1>11. ASSUME NEW fd \in Fd, cancelAllOperations(fd) \/ shutdown(fd)
         PROVE  Bounded'
    <2>1. \E f \in {CancelBoth(fd), CancelBothThenClose(fd), <<Close(fd)>>} : Call(f)
      BY <1>11 DEF cancelAllOperations, shutdown
    <2>2. UNCHANGED cap
      BY <1>11 DEF cancelAllOperations, shutdown
    <2> QED
      BY <1>1, <1>6, <2>1, <2>2 DEF Bounded
  <1>12. ASSUME Quit \/ callbackReturns \/ UNCHANGED vars PROVE Bounded'
    BY <1>1, <1>4, <1>12 DEF Quit, callbackReturns, vars, Bounded
  <1>13. CASE loop_wait
    <2>1. BatchesFit(stack')
      BY <1>13 DEF loop_wait, BatchesFit
    <2> QED
      BY <1>1, <1>13, <2>1 DEF loop_wait, Bounded
  <1>14. CASE epoll_wait
    BY <1>1, <1>14, BatchSize DEF epoll_wait, IInv, Bounded
  <1>15. CASE doOperation
    <2> DEFINE e == Head(Top)
               rest == e.dirs \ {FirstDir(e.dirs)}
    <2>1. AtStep("event") /\ UNCHANGED cap
      BY <1>15 DEF doOperation
    <2>2. CASE stack' = WithTop(Tail(Top))
      BY <1>1, <1>7, <2>1, <2>2 DEF Bounded
    <2>3. CASE stack' = WithTop(<<Event(e.fd, rest)>> \o Tail(Top))
      <3>1. Event(e.fd, rest) \in Step /\ Event(e.fd, rest).kind = "event"
        BY <2>1, AtStepFacts, StepFacts DEF Event, IInv
      <3>2. HasStep(stack) /\ stack' = ReplaceStep(stack, Event(e.fd, rest))
        BY <2>1, <2>3 DEF AtStep, Top, Depth, WithTop, ReplaceStep, HasStep
      <3> QED
        BY <1>1, <1>2, <1>3, <2>1, <3>1, <3>2, NoBatchReplaced DEF Bounded
    <2> QED
      BY <1>15, <2>2, <2>3 DEF doOperation
  <1>16. CASE nextIteration
    <2> DEFINE n == Head(Top).n
    <2>1. /\ AtStep("again") /\ stack' = WithTop(Tail(Top))
          /\ cap' = IF n >= cap THEN n * 2 ELSE cap
      BY <1>16 DEF nextIteration
    <2>2. n \in Nat /\ cap \in Nat
      BY <2>1, AtStepFacts DEF IInv, TypeOK
    <2>3. n <= Cardinality(Fd)
      <3>1. /\ Depth \in DOMAIN stack /\ 1 \in DOMAIN stack[Depth]
            /\ stack[Depth][1] = Head(Top) /\ Head(Top).kind = "again"
        BY <2>1, TopFacts DEF AtStep, Top, IInv
      <3> QED
        BY <3>1 DEF Bounded, BatchesFit
    <2>4. Cardinality(Fd) \in Nat
      BY FdAssumption, FS_CardinalityType
    <2> HIDE DEF n
    <2>5. cap' <= InitCap \/ cap' <= 2 * Cardinality(Fd)
      BY <2>1, <2>2, <2>3, <2>4 DEF Bounded, EventArrayBounded
    <2> QED
      BY <1>7, <2>1, <2>5 DEF Bounded, EventArrayBounded
  <1>17. CASE doCancel \/ doClose
    BY <1>1, <1>7, <1>17 DEF doCancel, doClose, Bounded
  <1>18. CASE callReturns
    <2>1. stack # <<>> /\ stack' = SubSeq(stack, 1, Len(stack) - 1) /\ UNCHANGED cap
      BY <1>18 DEF callReturns, Depth
    <2>2. \A i \in DOMAIN stack' : i \in DOMAIN stack /\ stack'[i] = stack[i]
      BY <1>2, <2>1
    <2>3. NoNewBatch(stack, stack')
      BY <2>2, Zenon DEF NoNewBatch
    <2> QED
      BY <1>1, <1>3, <2>1, <2>3 DEF Bounded
  <1>19. "read" \in Dir /\ "write" \in Dir
    BY DEF Dir
  <1> QED
    BY <1>8, <1>9, <1>10, <1>11, <1>12, <1>13, <1>14, <1>15, <1>16, <1>17, <1>18, <1>19
    DEF Next, UserCall, LibraryStep, registerReadOperation, registerWriteOperation,
        removeReadOperation, removeWriteOperation, cancelReadOperation, cancelWriteOperation

\* event_array_ never grows past twice the number of descriptors, however often
\* its batches fill it: loop_wait doubles what it received, and epoll_wait
\* reports a descriptor once.
THEOREM ArrayIsBounded == Spec => []EventArrayBounded
  <1>1. Init => Bounded
    BY InitCapAssumption DEF Init, Bounded, EventArrayBounded, BatchesFit
  <1>2. Spec => []Bounded
    BY <1>1, InvariantHolds, BoundedStep, PTL DEF Spec
  <1>3. Bounded => EventArrayBounded
    BY DEF Bounded
  <1> QED
    BY <1>2, <1>3, PTL
=============================================================================
