--------------------------- MODULE SocketsProofs ---------------------------
(***************************************************************************)
(* Proofs about Sockets, for any sockets, descriptors, calls and buffers.  *)
(*                                                                         *)
(* The base is Bound: an operation of the reactor belongs to the call that *)
(* was bound to that descriptor and direction, and the descriptor is open. *)
(* A call is then pending in one place at most, so what removes the        *)
(* operation can answer it, and answer it once.                            *)
(***************************************************************************)
EXTENDS Sockets, FiniteSetTheorems, SequenceTheorems, TLAPS

----------------------------------------------------------------------------
(* The inductive invariant. *)

Kind == {"read", "write", "accept", "connect"}
Binding == [kind : Kind, fd : Fd \cup {Closed}, length : Nat, sent : Nat, target : Socket]
Code == {"SUCCESS", "ERRNO", "EBADF", "EOPEXISTS", "EOPCANCELED", "EFDHUP"}

Typed ==
    /\ TypeOK
    /\ op \in [Call -> {Unbound} \cup Binding]
    /\ answers \in [Call -> Seq([ec : Code, n : Nat])]
    /\ wire \in [Fd -> Seq(Call \X Nat)]

\* Call c waits in the reactor.
Pending(c) ==
    /\ op[c] \in Binding
    /\ op[c].fd \in Fd
    /\ ops[op[c].fd][DirOf(op[c].kind)] = c

\* What is registered for a descriptor was bound to it, and it is open.
Bound ==
    \A fd \in Fd, d \in Dir : ops[fd][d] # None =>
        /\ fd \in open
        /\ op[ops[fd][d]] \in Binding
        /\ op[ops[fd][d]].fd = fd
        /\ DirOf(op[ops[fd][d]].kind) = d

\* A call is pending until its first answer, and after that only while its
\* descriptor is hung up.
AnswersOf(c) ==
    /\ op[c] = Unbound => answers[c] = <<>>
    /\ op[c] # Unbound /\ answers[c] = <<>> => Pending(c)
    /\ Pending(c) => \A i \in DOMAIN answers[c] : answers[c][i].ec = "EFDHUP"
    /\ Pending(c) /\ answers[c] # <<>> => op[c].fd \in hung
    /\ \A i \in 1..Len(answers[c]) - 1 : answers[c][i].ec = "EFDHUP"

Answering == \A c \in Call : AnswersOf(c)

\* The last number a write reported is the number it has sent.
ReportOf(c) ==
    op[c].kind = "write" => \A i \in DOMAIN answers[c] :
        /\ i = Len(answers[c]) => answers[c][i].n = op[c].sent
        /\ answers[c][i].ec = "SUCCESS" => answers[c][i].n = op[c].length

Reporting == \A c \in Call : ReportOf(c)

\* A datagram is sent at once.
Datagrams ==
    \A c \in Call : Pending(c) /\ op[c].kind = "write" /\ op[c].target \in Udp => op[c].sent = 0

\* The bytes on a descriptor are in order, and a write that goes on comes last.
Contiguous(fd) ==
    \A i \in DOMAIN wire[fd] :
        wire[fd][i][2] = 1 \/ (i > 1 /\ wire[fd][i - 1] = <<wire[fd][i][1], wire[fd][i][2] - 1>>)

GoesOn(c) ==
    Pending(c) /\ op[c].kind = "write" /\ op[c].sent > 0 =>
        /\ wire[op[c].fd] # <<>>
        /\ wire[op[c].fd][Len(wire[op[c].fd])] = <<c, op[c].sent>>

Wires == (\A fd \in Fd : Contiguous(fd)) /\ (\A c \in Call : GoesOn(c))

\* What an object holds is open or lost, two objects share only what is lost,
\* and an open descriptor that is not lost has an owner.
Owners ==
    /\ \A s \in Socket : sockfd[s] \in open \cup lost \cup {Closed}
    /\ \A s, t \in Socket : s # t /\ sockfd[s] = sockfd[t] => sockfd[s] \in lost \cup {Closed}
    /\ \A fd \in open \ lost : \E s \in Socket : sockfd[s] = fd

IInv == Typed /\ Bound /\ Answering /\ Reporting /\ Datagrams /\ Wires /\ Owners

\* The initial states satisfy the invariant.
LEMMA InitIInv == Init => IInv
  <1> SUFFICES ASSUME Init PROVE IInv
    OBVIOUS
  <1> USE FdAssumption, CallsAssumption DEF Init
  <1>1. Typed
    BY DEF Typed, TypeOK
  <1>2. Bound /\ Owners
    BY DEF Bound, Owners
  <1>3. \A c \in Call : op[c] = Unbound /\ answers[c] = <<>> /\ ~ Pending(c)
    BY DEF Pending, Unbound, Binding, Kind, None, Call, Dir, DirOf
  <1>4. Answering /\ Reporting /\ Datagrams
    BY <1>3 DEF Answering, AnswersOf, Reporting, ReportOf, Datagrams, Unbound
  <1>5. Wires
    BY <1>3 DEF Wires, Contiguous, GoesOn
  <1>6. QED
    BY <1>1, <1>2, <1>4, <1>5 DEF IInv

----------------------------------------------------------------------------
(* What a step may do to a call. *)

\* It leaves the call as it is, and the bytes of a write on its descriptor too.
Untouched(c) ==
    /\ op'[c] = op[c]
    /\ answers'[c] = answers[c]
    /\ Pending(c)' = Pending(c)
    /\ Pending(c) => /\ op[c].fd \in hung => op[c].fd \in hung'
                     /\ op[c].kind = "write" => wire'[op[c].fd] = wire[op[c].fd]

\* It binds the call, which waits or is rejected.
Begins(c) ==
    /\ op[c] = Unbound
    /\ op'[c] \in Binding
    /\ op'[c].sent = 0
    /\ \/ Pending(c)' /\ answers'[c] = answers[c]
       \/ /\ ~ Pending(c)'
          /\ \E ec \in Code : /\ answers'[c] = Append(answers[c], Answer(ec, 0))
                              /\ op'[c].kind = "write" => ec # "SUCCESS"

\* It sends some bytes of a TCP write, and not the last.
Proceeds(c) ==
    /\ Pending(c) /\ Pending(c)'
    /\ op[c].fd \notin hung
    /\ op[c].target \in Tcp
    /\ op'[c].target = op[c].target
    /\ answers'[c] = answers[c]
    /\ GoesOn(c)'

\* It tells the call that the descriptor is hung up.
HearsHup(c) ==
    /\ Pending(c) /\ Pending(c)'
    /\ op'[c] = op[c]
    /\ op[c].fd \in hung'
    /\ wire' = wire
    /\ answers'[c] = Append(answers[c], Answer("EFDHUP", op[c].sent))

\* It removes the operation and answers.
Ends(c) ==
    /\ Pending(c) /\ ~ Pending(c)'
    /\ op'[c] \in Binding
    /\ \E ec \in Code, n \in Nat :
          /\ answers'[c] = Append(answers[c], Answer(ec, n))
          /\ op'[c].kind = "write" => n = op'[c].sent /\ (ec = "SUCCESS" => n = op'[c].length)

Fate(c) == Untouched(c) \/ Begins(c) \/ Proceeds(c) \/ HearsHup(c) \/ Ends(c)

\* The call's part of the invariant.
DatagramOf(c) == Pending(c) /\ op[c].kind = "write" /\ op[c].target \in Udp => op[c].sent = 0
CallOK(c) == AnswersOf(c) /\ ReportOf(c) /\ DatagramOf(c) /\ GoesOn(c)

\* t is s with one more answer.
Extends(t, s, ec, n) ==
    /\ t # <<>>
    /\ Len(s) \in Nat /\ Len(t) = Len(s) + 1
    /\ DOMAIN s = 1..Len(s) /\ DOMAIN t = 1..Len(s) + 1
    /\ t[Len(s) + 1].ec = ec /\ t[Len(s) + 1].n = n
    /\ \A i \in 1..Len(s) : t[i] = s[i]

\* One more answer at the end of the answers of a call.
LEMMA Appended ==
    ASSUME NEW s \in Seq([ec : Code, n : Nat]), NEW ec \in Code, NEW n \in Nat
    PROVE  /\ Append(s, Answer(ec, n)) \in Seq([ec : Code, n : Nat])
           /\ Extends(Append(s, Answer(ec, n)), s, ec, n)
  <1> DEFINE a == Answer(ec, n)
             t == Append(s, a)
  <1>0. a \in [ec : Code, n : Nat] /\ a.ec = ec /\ a.n = n
    BY DEF Answer
  <1> HIDE DEF a
  <1>1. t \in Seq([ec : Code, n : Nat]) /\ Len(t) = Len(s) + 1 /\ Len(s) \in Nat
    BY <1>0
  <1>2. t[Len(s) + 1] = a /\ \A i \in 1..Len(s) : t[i] = s[i]
    BY <1>0
  <1>3. DOMAIN s = 1..Len(s) /\ DOMAIN t = 1..Len(s) + 1 /\ t # <<>>
    BY <1>1
  <1>4. QED
    BY <1>0, <1>1, <1>2, <1>3 DEF Extends, a

\* Whichever it is, the call's part of the invariant is kept.
LEMMA FateKeeps ==
    ASSUME Typed, Typed', NEW c \in Call, CallOK(c), Fate(c)
    PROVE  CallOK(c)'
  <1> USE DEF CallOK
  <1>0. /\ answers[c] \in Seq([ec : Code, n : Nat])
        /\ op[c] \in {Unbound} \cup Binding /\ op'[c] \in {Unbound} \cup Binding
        /\ Unbound \notin Binding /\ Unbound.kind = "none"
        /\ \A b \in Binding : b.sent \in Nat /\ b.kind # "none"
    BY DEF Typed, Unbound, Binding, Kind
  <1>t. Tcp \cap Udp = {}
    BY SocketAssumption
  <1>1. CASE Untouched(c)
    <2>1. AnswersOf(c)'
      BY <1>1 DEF Untouched, AnswersOf
    <2>2. ReportOf(c)'
      BY <1>1 DEF Untouched, ReportOf
    <2>3. DatagramOf(c)'
      BY <1>1 DEF Untouched, DatagramOf
    <2>4. GoesOn(c)'
      BY <1>1 DEF Untouched, GoesOn
    <2>5. QED
      BY <2>1, <2>2, <2>3, <2>4
  <1>2. CASE Begins(c)
    <2>1. answers[c] = <<>>
      BY <1>2 DEF Begins, AnswersOf
    <2>2. CASE Pending(c)' /\ answers'[c] = answers[c]
      BY <1>2, <1>0, <2>1, <2>2 DEF Begins, AnswersOf, ReportOf, DatagramOf, GoesOn
    <2>3. CASE ~ Pending(c)' /\ answers'[c] # answers[c]
      <3>1. PICK ec \in Code : /\ answers'[c] = Append(answers[c], Answer(ec, 0))
                               /\ op'[c].kind = "write" => ec # "SUCCESS"
        BY <1>2, <2>3 DEF Begins
      <3>2. Len(answers[c]) = 0
        BY <2>1
      <3>3. /\ answers'[c] # <<>> /\ Len(answers'[c]) = 1 /\ DOMAIN answers'[c] = {1}
            /\ answers'[c][1].ec = ec /\ answers'[c][1].n = 0
        <4>1. Extends(answers'[c], answers[c], ec, 0)
          BY <1>0, <3>1, Appended, 0 \in Nat
        <4>2. 0 + 1 = 1 /\ 1..1 = {1}
          OBVIOUS
        <4>3. QED
          BY <3>2, <4>1, <4>2 DEF Extends
      <3>4. AnswersOf(c)'
        <4>1. op'[c] # Unbound
          BY <1>0, <1>2 DEF Begins
        <4>2. \A i \in 1..Len(answers'[c]) - 1 : FALSE
          BY <3>3
        <4>3. QED
          BY <2>3, <3>3, <4>1, <4>2 DEF AnswersOf
      <3>5. ReportOf(c)'
        BY <1>2, <3>1, <3>3 DEF Begins, ReportOf
      <3>6. QED
        BY <2>3, <3>4, <3>5 DEF DatagramOf, GoesOn
    <2>4. ASSUME NEW ec \in Code PROVE Append(answers[c], Answer(ec, 0)) # answers[c]
      BY <1>0, <2>1, Appended, 0 \in Nat DEF Extends
    <2>5. QED
      BY <1>2, <2>2, <2>3, <2>4 DEF Begins
  <1>3. CASE Proceeds(c)
    <2>1. answers[c] = <<>>
      BY <1>3 DEF Proceeds, AnswersOf
    <2>2. op'[c] \in Binding
      BY <1>3 DEF Proceeds, Pending
    <2>3. QED
      BY <1>0, <1>3, <1>t, <2>1, <2>2 DEF Proceeds, AnswersOf, ReportOf, DatagramOf
  <1>4. CASE HearsHup(c)
    <2>1. op[c] \in Binding /\ op[c].sent \in Nat /\ "EFDHUP" \in Code
      BY <1>4, <1>0 DEF HearsHup, Pending, Code
    <2>e. Extends(answers'[c], answers[c], "EFDHUP", op[c].sent)
      BY <1>4, <1>0, <2>1, Appended DEF HearsHup
    <2>2. AnswersOf(c)'
      <3>1. \A i \in DOMAIN answers'[c] : answers'[c][i].ec = "EFDHUP"
        BY <1>4, <2>e DEF HearsHup, AnswersOf, Extends
      <3>2. QED
        BY <1>4, <1>0, <2>1, <2>e, <3>1 DEF HearsHup, AnswersOf, Extends
    <2>3. ReportOf(c)'
      BY <1>4, <2>e DEF HearsHup, AnswersOf, ReportOf, Extends
    <2>4. QED
      BY <1>4, <2>2, <2>3 DEF HearsHup, DatagramOf, GoesOn
  <1>5. CASE Ends(c)
    <2>1. PICK ec \in Code, n \in Nat :
             /\ answers'[c] = Append(answers[c], Answer(ec, n))
             /\ op'[c].kind = "write" => n = op'[c].sent /\ (ec = "SUCCESS" => n = op'[c].length)
      BY <1>5 DEF Ends
    <2>e. Extends(answers'[c], answers[c], ec, n)
      BY <1>0, <2>1, Appended
    <2>2. AnswersOf(c)'
      <3>1. op'[c] # Unbound
        BY <1>5, <1>0 DEF Ends
      <3>2. \A i \in 1..Len(answers'[c]) - 1 : answers'[c][i].ec = "EFDHUP"
        BY <1>5, <2>e DEF Ends, AnswersOf, Extends
      <3>3. QED
        BY <1>5, <2>e, <3>1, <3>2 DEF Ends, AnswersOf, Extends
    <2>3. ReportOf(c)'
      BY <1>5, <2>1, <2>e DEF Ends, AnswersOf, ReportOf, Extends
    <2>4. QED
      BY <1>5, <2>2, <2>3 DEF Ends, DatagramOf, GoesOn
  <1>6. QED
    BY <1>1, <1>2, <1>3, <1>4, <1>5 DEF Fate

----------------------------------------------------------------------------
(* What cancelling and removing do. *)

OpsType == [Fd -> [Dir -> Call \cup {None}]]
AnswersType == [Call -> Seq([ec : Code, n : Nat])]

\* Call c waits for descriptor fd in one of the directions dirs.
WaitsAt(c, fd, dirs) == Pending(c) /\ op[c].fd = fd /\ DirOf(op[c].kind) \in dirs

\* Every kind of operation has a direction.
LEMMA KindHasDir == \A k : DirOf(k) \in Dir
  BY DEF DirOf, Dir

\* Removing operations of a descriptor leaves the other ones.
LEMMA WithoutEffect ==
    ASSUME Typed, NEW fd \in Fd, NEW dirs \in SUBSET Dir
    PROVE  /\ Without(fd, dirs) \in OpsType
           /\ \A g \in Fd, d \in Dir :
                 Without(fd, dirs)[g][d] = IF g = fd /\ d \in dirs THEN None ELSE ops[g][d]
  BY DEF Typed, TypeOK, Without, OpsType, None

\* What is registered in dirs are the calls that wait there.
LEMMA RegisteredWait ==
    ASSUME Typed, Bound, NEW fd \in Fd, NEW dirs \in SUBSET Dir, NEW c \in Call
    PROVE  c \in Registered(fd, dirs) <=> WaitsAt(c, fd, dirs)
  <1>1. c # None
    BY DEF Call, None
  <1>2. ASSUME c \in Registered(fd, dirs) PROVE WaitsAt(c, fd, dirs)
    <2>1. PICK d \in dirs : ops[fd][d] = c
      BY <1>2 DEF Registered
    <2>2. QED
      BY <1>1, <2>1 DEF Bound, WaitsAt, Pending
  <1>3. ASSUME WaitsAt(c, fd, dirs) PROVE c \in Registered(fd, dirs)
    BY <1>1, <1>3, KindHasDir DEF WaitsAt, Pending, Registered
  <1>4. QED
    BY <1>2, <1>3

\* Telling a set of calls: those that wait there get one more answer.
LEMMA NotifyEffect ==
    ASSUME Typed, Bound, NEW fd \in Fd, NEW dirs \in SUBSET Dir, NEW ec \in Code
    PROVE  /\ Notify(Registered(fd, dirs), ec) \in AnswersType
           /\ \A c \in Call : Notify(Registered(fd, dirs), ec)[c] =
                 IF WaitsAt(c, fd, dirs) THEN Append(answers[c], Answer(ec, op[c].sent))
                 ELSE answers[c]
  <1> DEFINE N == Notify(Registered(fd, dirs), ec)
  <1>1. ASSUME NEW c \in Call
        PROVE  N[c] = IF WaitsAt(c, fd, dirs) THEN Append(answers[c], Answer(ec, op[c].sent))
                      ELSE answers[c]
    BY RegisteredWait DEF Notify
  <1>2. ASSUME NEW c \in Call PROVE N[c] \in Seq([ec : Code, n : Nat])
    <2>1. answers[c] \in Seq([ec : Code, n : Nat])
      BY DEF Typed
    <2>2. CASE WaitsAt(c, fd, dirs)
      <3>1. op[c].sent \in Nat
        BY <2>2 DEF WaitsAt, Pending, Binding
      <3>2. QED
        BY <1>1, <2>1, <2>2, <3>1, Appended
    <2>3. CASE ~ WaitsAt(c, fd, dirs)
      BY <1>1, <2>1, <2>3
    <2>4. QED
      BY <2>2, <2>3
  <1>3. N \in AnswersType
    BY <1>2 DEF Notify, AnswersType
  <1>4. QED
    BY <1>1, <1>3

\* CancelOperations removes what waits there and answers it.
LEMMA CancelEffect ==
    ASSUME Typed, Bound, NEW fd \in Fd \cup {Closed}, NEW dirs \in SUBSET Dir,
           CancelOperations(fd, dirs)
    PROVE  /\ ops' \in OpsType
           /\ \A g \in Fd, d \in Dir :
                 ops'[g][d] = IF g = fd /\ d \in dirs THEN None ELSE ops[g][d]
           /\ answers' \in AnswersType
           /\ \A c \in Call : answers'[c] =
                 IF WaitsAt(c, fd, dirs) THEN Append(answers[c], Answer("EOPCANCELED", op[c].sent))
                 ELSE answers[c]
  <1>1. CASE fd = Closed
    BY <1>1, FdAssumption DEF CancelOperations, Typed, TypeOK, OpsType, AnswersType, WaitsAt,
                              Pending
  <1>2. CASE fd \in Fd
    <2>1. fd # Closed /\ "EOPCANCELED" \in Code
      BY <1>2, FdAssumption DEF Code
    <2>2. ops' = Without(fd, dirs) /\ answers' = Notify(Registered(fd, dirs), "EOPCANCELED")
      BY <2>1 DEF CancelOperations
    <2>3. QED
      BY <1>2, <2>1, <2>2, WithoutEffect, NotifyEffect
  <1>3. QED
    BY <1>1, <1>2

\* Cancelling ends the calls that wait and leaves the others alone, provided
\* that the rest of the step closes and empties only a descriptor it cancels in
\* both directions.
LEMMA CancelFate ==
    ASSUME IInv, NEW fd \in Fd \cup {Closed}, NEW dirs \in SUBSET Dir,
           CancelOperations(fd, dirs), op' = op,
           \A g \in Fd : g # fd \/ dirs # Dir =>
              /\ g \in hung => g \in hung'
              /\ g \in open => g \in open'
              /\ wire'[g] = wire[g]
    PROVE  Bound' /\ \A c \in Call : Fate(c)
  <1>1. /\ \A g \in Fd, d \in Dir :
              ops'[g][d] = IF g = fd /\ d \in dirs THEN None ELSE ops[g][d]
        /\ \A c \in Call : answers'[c] =
              IF WaitsAt(c, fd, dirs) THEN Append(answers[c], Answer("EOPCANCELED", op[c].sent))
              ELSE answers[c]
    BY CancelEffect DEF IInv
  <1>2. Bound'
    <2> SUFFICES ASSUME NEW g \in Fd, NEW d \in Dir, ops'[g][d] # None
                 PROVE  /\ g \in open' /\ op'[ops'[g][d]] \in Binding
                        /\ op'[ops'[g][d]].fd = g /\ DirOf(op'[ops'[g][d]].kind) = d
      BY DEF Bound
    <2>1. ops'[g][d] = ops[g][d] /\ (g # fd \/ dirs # Dir)
      BY <1>1
    <2>2. QED
      BY <2>1 DEF IInv, Bound
  <1>3. ASSUME NEW c \in Call PROVE Fate(c)
    <2>0. c # None /\ "EOPCANCELED" \in Code
      BY DEF Call, None, Code
    <2>1. CASE WaitsAt(c, fd, dirs)
      <3>1. Pending(c) /\ op'[c] \in Binding /\ op[c].sent \in Nat /\ op[c].fd \in Fd
        BY <2>1 DEF WaitsAt, Pending, Binding
      <3>2. ~ Pending(c)'
        BY <1>1, <2>0, <2>1, <3>1, KindHasDir DEF WaitsAt, Pending
      <3>3. Ends(c)
        BY <1>1, <2>0, <2>1, <3>1, <3>2 DEF Ends
      <3>4. QED
        BY <3>3 DEF Fate
    <2>2. CASE ~ WaitsAt(c, fd, dirs)
      <3>1. Pending(c)' = Pending(c)
        <4>1. op[c] \in Binding /\ op[c].fd \in Fd => DirOf(op[c].kind) \in Dir
          BY KindHasDir
        <4>2. Pending(c) => Pending(c)'
          BY <1>1, <2>2, <4>1 DEF WaitsAt, Pending
        <4>3. Pending(c)' => Pending(c)
          BY <1>1, <2>0, <4>1 DEF Pending
        <4>4. QED
          BY <4>2, <4>3 DEF Pending
      <3>2. ASSUME Pending(c) PROVE op[c].fd # fd \/ dirs # Dir
        BY <2>2, <3>2, KindHasDir DEF WaitsAt
      <3>3. Untouched(c)
        BY <1>1, <2>2, <3>1, <3>2 DEF Untouched, Pending
      <3>4. QED
        BY <3>3 DEF Fate
    <2>3. QED
      BY <2>1, <2>2
  <1>4. QED
    BY <1>2, <1>3

\* A wrapper that removes its operation and answers ends its call and leaves
\* the others alone.
LEMMA RemoveFate ==
    ASSUME IInv, NEW c \in Call, Pending(c), ops' = Removed(c),
           op' \in [Call -> {Unbound} \cup Binding],
           \A b \in Call : b # c => op'[b] = op[b] /\ answers'[b] = answers[b],
           op'[c] \in Binding, op'[c].fd = op[c].fd, op'[c].kind = op[c].kind,
           NEW ec \in Code, NEW n \in Nat, answers'[c] = Append(answers[c], Answer(ec, n)),
           op[c].kind = "write" => n = op'[c].sent /\ (ec = "SUCCESS" => n = op'[c].length),
           open \subseteq open', hung' = hung,
           \A g \in Fd : g # op[c].fd \/ op[c].kind # "write" => wire'[g] = wire[g]
    PROVE  Bound' /\ \A b \in Call : Fate(b)
  <1> DEFINE fd == op[c].fd
             dir == DirOf(op[c].kind)
  <1>0. /\ fd \in Fd /\ dir \in Dir /\ ops[fd][dir] = c /\ Typed /\ Bound
        /\ \A b \in Call : b # None
    BY KindHasDir DEF Pending, IInv, Call, None
  <1>1. \A g \in Fd, d \in Dir : ops'[g][d] = IF g = fd /\ d = dir THEN None ELSE ops[g][d]
    BY <1>0, WithoutEffect, {dir} \in SUBSET Dir DEF Removed
  <1>2. Bound'
    <2> SUFFICES ASSUME NEW g \in Fd, NEW d \in Dir, ops'[g][d] # None
                 PROVE  /\ g \in open' /\ op'[ops'[g][d]] \in Binding
                        /\ op'[ops'[g][d]].fd = g /\ DirOf(op'[ops'[g][d]].kind) = d
      BY DEF Bound
    <2>1. ops'[g][d] = ops[g][d] /\ ~ (g = fd /\ d = dir)
      BY <1>1
    <2>2. ops[g][d] # c /\ ops[g][d] \in Call
      BY <1>0, <2>1 DEF Bound, Typed, TypeOK
    <2>3. QED
      BY <1>0, <2>1, <2>2 DEF Bound
  <1>3. Ends(c)
    <2>1. ~ Pending(c)'
      BY <1>0, <1>1 DEF Pending
    <2>2. QED
      BY <2>1 DEF Ends
  <1>4. ASSUME NEW b \in Call, b # c PROVE Untouched(b)
    <2>1. DirOf(op[b].kind) \in Dir /\ op'[b] = op[b] /\ answers'[b] = answers[b]
      BY <1>4, KindHasDir
    <2>2. Pending(b) => ~ (op[b].fd = fd /\ DirOf(op[b].kind) = dir)
      BY <1>0, <1>4 DEF Pending
    <2>3. Pending(b)' = Pending(b)
      <3>1. Pending(b) => Pending(b)'
        BY <1>1, <2>1, <2>2 DEF Pending
      <3>2. Pending(b)' => Pending(b)
        BY <1>0, <1>1, <2>1 DEF Pending
      <3>3. QED
        BY <3>1, <3>2 DEF Pending
    <2>4. ASSUME Pending(b), op[b].kind = "write" PROVE wire'[op[b].fd] = wire[op[b].fd]
      <3>1. op[b].fd \in Fd /\ (op[b].fd # fd \/ op[c].kind # "write")
        BY <2>2, <2>4 DEF Pending
      <3>2. QED
        BY <3>1
    <2>5. QED
      BY <2>1, <2>3, <2>4 DEF Untouched
  <1>5. QED
    BY <1>2, <1>3, <1>4 DEF Fate

\* A call that is made waits or is rejected, and the others do not notice.
LEMMA RegisterFate ==
    ASSUME IInv, NEW s \in Socket, NEW kind \in Kind, NEW length \in Nat, NEW target \in Socket,
           Async(s, kind, length, target)
    PROVE  /\ Bound' /\ \A b \in Call : Fate(b)
           /\ ops' \in OpsType /\ answers' \in AnswersType
           /\ op' \in [Call -> {Unbound} \cup Binding]
  <1>1. PICK c \in NextCall, ec \in {"EBADF", "EOPEXISTS", "SUCCESS"} :
           /\ op' = [op EXCEPT ![c] = [kind |-> kind, fd |-> sockfd[s], length |-> length,
                                       sent |-> 0, target |-> target]]
           /\ Register(c, s, DirOf(kind), ec)
           /\ UNCHANGED <<sockfd, open, listening, hung, wire, lost>>
    BY DEF Async
  <1> DEFINE b0 == [kind |-> kind, fd |-> sockfd[s], length |-> length, sent |-> 0,
                    target |-> target]
             fd == sockfd[s]
             dir == DirOf(kind)
  <1>2. /\ c \in Call /\ op[c].kind = "none" /\ Typed /\ Bound /\ fd \in Fd \cup {Closed}
        /\ dir \in Dir /\ \A b \in Call : b # None
    <2>1. c \in Call /\ op[c].kind = "none"
      BY DEF NextCall
    <2>2. \A b \in Call : b # None
      BY DEF Call, None
    <2>3. QED
      BY <2>1, <2>2, KindHasDir DEF IInv, Typed, TypeOK
  <1>3. op[c] = Unbound
    BY <1>2 DEF Typed, Binding, Kind
  <1>4. /\ b0 \in Binding /\ b0.kind = kind /\ b0.fd = fd /\ b0.sent = 0
    BY <1>2 DEF Binding
  <1>5. /\ op' \in [Call -> {Unbound} \cup Binding]
        /\ op'[c] = b0 /\ \A b \in Call : b # c => op'[b] = op[b]
    BY <1>1, <1>2, <1>4 DEF Typed
  <1> HIDE DEF b0
  <1>6. \A g \in Fd, d \in Dir : ops[g][d] # c
    BY <1>2, <1>3 DEF Bound, Unbound, Binding, Kind
  <1>7. ~ Pending(c)
    BY <1>3 DEF Pending, Unbound, Binding
  <1>8. CASE ec = "SUCCESS"
    <2>1. /\ fd \in open /\ ops[fd][dir] = None
          /\ ops' = [ops EXCEPT ![fd][dir] = c] /\ answers' = answers
      BY <1>1, <1>8 DEF Register
    <2>2. fd \in Fd
      BY <1>2, <2>1 DEF Typed, TypeOK
    <2>3. /\ ops' \in OpsType
          /\ \A g \in Fd, d \in Dir : ops'[g][d] = IF g = fd /\ d = dir THEN c ELSE ops[g][d]
      BY <1>2, <2>1, <2>2 DEF Typed, TypeOK, OpsType
    <2>4. Bound'
      <3> SUFFICES ASSUME NEW g \in Fd, NEW d \in Dir, ops'[g][d] # None
                   PROVE  /\ g \in open' /\ op'[ops'[g][d]] \in Binding
                          /\ op'[ops'[g][d]].fd = g /\ DirOf(op'[ops'[g][d]].kind) = d
        BY DEF Bound
      <3>1. CASE g = fd /\ d = dir
        BY <1>1, <1>4, <1>5, <2>1, <2>3, <3>1
      <3>2. CASE ~ (g = fd /\ d = dir)
        <4>1. ops'[g][d] = ops[g][d] /\ ops[g][d] # c /\ ops[g][d] \in Call
          BY <1>2, <1>6, <2>3, <3>2 DEF Typed, TypeOK
        <4>2. QED
          BY <1>1, <1>2, <1>5, <4>1 DEF Bound
      <3>3. QED
        BY <3>1, <3>2
    <2>5. Begins(c)
      <3>1. Pending(c)'
        BY <1>2, <1>4, <1>5, <2>2, <2>3 DEF Pending
      <3>2. QED
        BY <1>3, <1>4, <1>5, <2>1, <3>1 DEF Begins
    <2>6. ASSUME NEW b \in Call, b # c PROVE Untouched(b)
      <3>1. DirOf(op[b].kind) \in Dir /\ op'[b] = op[b] /\ answers'[b] = answers[b]
        BY <1>5, <2>1, <2>6, KindHasDir
      <3>2. Pending(b) => Pending(b)'
        BY <1>2, <2>1, <2>3, <3>1 DEF Pending
      <3>3. Pending(b)' => Pending(b)
        BY <1>2, <2>3, <2>6, <3>1 DEF Pending
      <3>4. Pending(b)' = Pending(b)
        BY <3>2, <3>3 DEF Pending
      <3>5. QED
        BY <1>1, <3>1, <3>4 DEF Untouched
    <2>7. answers' \in AnswersType
      BY <1>2, <2>1 DEF Typed, AnswersType
    <2>8. QED
      BY <1>5, <2>3, <2>4, <2>5, <2>6, <2>7 DEF Fate
  <1>9. CASE ec # "SUCCESS"
    <2>1. ops' = ops /\ answers' = [answers EXCEPT ![c] = Append(@, Answer(ec, 0))]
      BY <1>1, <1>9 DEF Register
    <2>2. ec \in Code /\ answers[c] \in Seq([ec : Code, n : Nat])
      BY <1>1, <1>2 DEF Code, Typed
    <2>3. answers' \in AnswersType
      BY <1>2, <2>1, <2>2, Appended, 0 \in Nat DEF Typed, AnswersType
    <2>4. /\ answers'[c] = Append(answers[c], Answer(ec, 0))
          /\ \A b \in Call : b # c => answers'[b] = answers[b]
      BY <1>2, <2>1 DEF Typed
    <2>5. Bound'
      <3> SUFFICES ASSUME NEW g \in Fd, NEW d \in Dir, ops'[g][d] # None
                   PROVE  /\ g \in open' /\ op'[ops'[g][d]] \in Binding
                          /\ op'[ops'[g][d]].fd = g /\ DirOf(op'[ops'[g][d]].kind) = d
        BY DEF Bound
      <3>1. ops'[g][d] = ops[g][d] /\ ops[g][d] # c /\ ops[g][d] \in Call
        BY <1>2, <1>6, <2>1 DEF Typed, TypeOK
      <3>2. QED
        BY <1>1, <1>2, <1>5, <3>1 DEF Bound
    <2>6. Begins(c)
      <3>1. ~ Pending(c)'
        BY <1>2, <1>6, <2>1, KindHasDir DEF Pending
      <3>2. QED
        BY <1>3, <1>4, <1>5, <1>9, <2>2, <2>4, <3>1 DEF Begins
    <2>7. ASSUME NEW b \in Call, b # c PROVE Untouched(b)
      <3>1. Pending(b)' = Pending(b)
        BY <1>5, <2>1, <2>7 DEF Pending
      <3>2. QED
        BY <1>1, <1>5, <2>4, <2>7, <3>1 DEF Untouched
    <2>8. ops' \in OpsType
      BY <1>2, <2>1 DEF Typed, TypeOK, OpsType
    <2>9. QED
      BY <1>5, <2>3, <2>5, <2>6, <2>7, <2>8 DEF Fate
  <1>10. QED
    BY <1>8, <1>9

\* The parts of the invariant that are about one call each.
LEMMA CallsTogether == IInv => \A c \in Call : CallOK(c)
  BY DEF IInv, CallOK, Answering, Reporting, Datagrams, DatagramOf, Wires

\* With types, bindings, wires and owners kept, the fates of the calls are
\* enough.
LEMMA FatesKeep ==
    ASSUME IInv, Typed', Bound', Owners', \A fd \in Fd : Contiguous(fd)',
           \A c \in Call : Fate(c)
    PROVE  IInv'
  <1>1. \A c \in Call : CallOK(c)'
    BY CallsTogether, FateKeeps DEF IInv
  <1>2. QED
    BY <1>1 DEF IInv, CallOK, Answering, Reporting, Datagrams, DatagramOf, Wires

----------------------------------------------------------------------------
(* Every step keeps the invariant. *)

\* A stream emptied is contiguous.
LEMMA EmptiedContiguous ==
    ASSUME IInv, NEW fds, wire' = Unsent(fds)
    PROVE  \A fd \in Fd : Contiguous(fd)'
  BY DEF IInv, Wires, Contiguous, Unsent

\* A stream that does not change stays contiguous.
LEMMA SameContiguous ==
    ASSUME IInv, wire' = wire
    PROVE  \A fd \in Fd : Contiguous(fd)'
  BY DEF IInv, Wires, Contiguous

\* Owners stay while descriptors do.
LEMMA SameOwners ==
    ASSUME IInv, UNCHANGED <<sockfd, open, lost>>
    PROVE  Owners'
  BY DEF IInv, Owners

\* Async keeps the invariant.
LEMMA AsyncKeeps ==
    ASSUME IInv, NEW s \in Socket, NEW kind \in Kind, NEW length \in Nat, NEW target \in Socket,
           Async(s, kind, length, target)
    PROVE  IInv'
  <1>1. UNCHANGED <<sockfd, open, listening, hung, wire, lost>>
    BY DEF Async
  <1>2. /\ Bound' /\ \A b \in Call : Fate(b)
        /\ ops' \in OpsType /\ answers' \in AnswersType
        /\ op' \in [Call -> {Unbound} \cup Binding]
    BY RegisterFate
  <1>3. Typed'
    BY <1>1, <1>2 DEF IInv, Typed, TypeOK, OpsType, AnswersType, Binding, Kind
  <1>4. QED
    BY <1>1, <1>2, <1>3, SameContiguous, SameOwners, FatesKeep

\* Cancel keeps the invariant.
LEMMA CancelKeeps ==
    ASSUME IInv, NEW s \in Socket, NEW dirs \in SUBSET Dir, Cancel(s, dirs)
    PROVE  IInv'
  <1>1. /\ CancelOperations(sockfd[s], dirs) /\ sockfd[s] \in Fd \cup {Closed}
        /\ UNCHANGED <<sockfd, open, listening, hung, op, wire, lost>>
    BY DEF Cancel, IInv, Typed, TypeOK
  <1>2. ops' \in OpsType /\ answers' \in AnswersType
    BY <1>1, CancelEffect DEF IInv
  <1>3. Typed'
    BY <1>1, <1>2 DEF IInv, Typed, TypeOK, OpsType, AnswersType
  <1>4. Bound' /\ \A c \in Call : Fate(c)
    BY <1>1, CancelFate
  <1>5. QED
    BY <1>1, <1>3, <1>4, SameContiguous, SameOwners, FatesKeep

\* Shut keeps the invariant.
LEMMA ShutKeeps ==
    ASSUME IInv, NEW s \in Socket, Shut(s)
    PROVE  IInv'
  <1> DEFINE old == sockfd[s]
  <1>1. /\ CancelOperations(old, Dir) /\ old \in Fd \cup {Closed}
        /\ open' = open \ {old} /\ listening' = listening \ {old} /\ hung' = hung \ {old}
        /\ wire' = Unsent({old}) /\ op' = op
    BY DEF Shut, CloseFd, IInv, Typed, TypeOK
  <1>2. ops' \in OpsType /\ answers' \in AnswersType
    BY <1>1, CancelEffect DEF IInv
  <1>3. wire' \in [Fd -> Seq(Call \X Nat)]
    BY <1>1 DEF Unsent, IInv, Typed
  <1>4. /\ sockfd' \in [Socket -> Fd \cup {Closed}] /\ lost' \subseteq Fd
        /\ Owners'
    <2>1. CASE /\ old \in open \cup {Closed}
               /\ sockfd' = [sockfd EXCEPT ![s] = Closed]
               /\ lost' = lost
      BY <1>1, <2>1, FdAssumption DEF IInv, Typed, TypeOK, Owners
    <2>2. CASE old # Closed /\ lost' = lost \cup {old} /\ sockfd' = sockfd
      BY <1>1, <2>2, FdAssumption DEF IInv, Typed, TypeOK, Owners
    <2>3. QED
      BY <2>1, <2>2 DEF Shut
  <1>5. Typed'
    BY <1>1, <1>2, <1>3, <1>4 DEF IInv, Typed, TypeOK, OpsType, AnswersType
  <1>6. Bound' /\ \A c \in Call : Fate(c)
    <2>1. \A g \in Fd : g # old => /\ g \in hung => g \in hung'
                                   /\ g \in open => g \in open'
                                   /\ wire'[g] = wire[g]
      BY <1>1 DEF Unsent
    <2>2. QED
      BY <1>1, <2>1, CancelFate, Dir \in SUBSET Dir
  <1>7. QED
    BY <1>1, <1>4, <1>5, <1>6, EmptiedContiguous, FatesKeep

\* Reopen keeps the invariant.
LEMMA ReopenKeeps ==
    ASSUME IInv, NEW s \in Socket, NEW listens \in BOOLEAN, Reopen(s, listens)
    PROVE  IInv'
  <1> DEFINE old == sockfd[s]
  <1>1. /\ CancelOperations(old, Dir) /\ old \in Fd \cup {Closed}
        /\ hung' = hung \ {old} /\ wire' = Unsent({old}) /\ op' = op /\ lost' = lost
    BY DEF Reopen, IInv, Typed, TypeOK
  <1>2. ops' \in OpsType /\ answers' \in AnswersType
    BY <1>1, CancelEffect DEF IInv
  <1>3. wire' \in [Fd -> Seq(Call \X Nat)]
    BY <1>1 DEF Unsent, IInv, Typed
  <1> DEFINE Kept == /\ sockfd' \in [Socket -> Fd \cup {Closed}]
                     /\ open' \subseteq Fd /\ listening' \subseteq open'
                     /\ open \ {old} \subseteq open'
                     /\ Owners'
  <1>4. Kept
    <2>1. CASE /\ sockfd' = [sockfd EXCEPT ![s] = Closed]
               /\ open' = open \ {old}
               /\ listening' = listening \ {old}
      BY <1>1, <2>1, FdAssumption DEF IInv, Typed, TypeOK, Owners
    <2>2. ASSUME NEW fd \in Fd \ (open \ {old}),
                 sockfd' = [sockfd EXCEPT ![s] = fd],
                 open' = (open \ {old}) \cup {fd},
                 listening' = (listening \ {old}) \cup IF listens THEN {fd} ELSE {}
          PROVE  Kept
      BY <1>1, <2>2, FdAssumption DEF IInv, Typed, TypeOK, Owners
    <2>3. QED
      BY <2>1, <2>2 DEF Reopen, CloseFd
  <1>5. Typed'
    BY <1>1, <1>2, <1>3, <1>4 DEF IInv, Typed, TypeOK, OpsType, AnswersType
  <1>6. Bound' /\ \A c \in Call : Fate(c)
    <2>1. \A g \in Fd : g # old => /\ g \in hung => g \in hung'
                                   /\ g \in open => g \in open'
                                   /\ wire'[g] = wire[g]
      BY <1>1, <1>4 DEF Unsent
    <2>2. QED
      BY <1>1, <2>1, CancelFate, Dir \in SUBSET Dir
  <1>7. QED
    BY <1>1, <1>4, <1>5, <1>6, EmptiedContiguous, FatesKeep

\* connect that succeeds or fails at once.
LEMMA ConnectsAtOnceKeeps ==
    ASSUME IInv, NEW s \in Socket, NEW c \in NextCall, NEW ec \in {"SUCCESS", "ERRNO"},
           op' = [op EXCEPT ![c] = [kind |-> "connect", fd |-> sockfd[s], length |-> 0,
                                    sent |-> 0, target |-> s]],
           answers' = [answers EXCEPT ![c] = Append(@, Answer(ec, 0))],
           UNCHANGED <<sockfd, open, listening, hung, ops, wire, lost>>
    PROVE  IInv'
  <1> DEFINE b0 == [kind |-> "connect", fd |-> sockfd[s], length |-> 0, sent |-> 0, target |-> s]
  <1>1. /\ c \in Call /\ op[c].kind = "none" /\ Typed /\ Bound /\ ec \in Code
        /\ sockfd[s] \in Fd \cup {Closed}
    BY DEF NextCall, IInv, Typed, TypeOK, Code
  <1>2. \A b \in Call : b # None
    BY DEF Call, None
  <1>3. op[c] = Unbound
    BY <1>1 DEF Typed, Binding, Kind
  <1>4. b0 \in Binding /\ b0.kind = "connect" /\ b0.sent = 0
    BY <1>1 DEF Binding, Kind
  <1>5. /\ op' \in [Call -> {Unbound} \cup Binding]
        /\ op'[c] = b0 /\ \A b \in Call : b # c => op'[b] = op[b]
    BY <1>1, <1>4 DEF Typed
  <1> HIDE DEF b0
  <1>6. \A g \in Fd, d \in Dir : ops[g][d] # c
    BY <1>1, <1>2, <1>3 DEF Bound, Unbound, Binding, Kind
  <1>7. answers[c] \in Seq([ec : Code, n : Nat])
    BY <1>1 DEF Typed
  <1>8. answers' \in AnswersType
    BY <1>1, <1>7, Appended, 0 \in Nat DEF Typed, AnswersType
  <1>9. /\ answers'[c] = Append(answers[c], Answer(ec, 0))
        /\ \A b \in Call : b # c => answers'[b] = answers[b]
    BY <1>1 DEF Typed
  <1>10. Typed'
    BY <1>1, <1>5, <1>8 DEF Typed, TypeOK, AnswersType, Binding, Kind
  <1>11. Bound'
    <2> SUFFICES ASSUME NEW g \in Fd, NEW d \in Dir, ops[g][d] # None
                 PROVE  /\ g \in open /\ op'[ops[g][d]] \in Binding
                        /\ op'[ops[g][d]].fd = g /\ DirOf(op'[ops[g][d]].kind) = d
      BY DEF Bound
    <2>1. ops[g][d] # c /\ ops[g][d] \in Call
      BY <1>1, <1>6 DEF Typed, TypeOK
    <2>2. QED
      BY <1>1, <1>5, <2>1 DEF Bound
  <1>12. Begins(c)
    <2>1. ~ Pending(c)'
      BY <1>6, KindHasDir DEF Pending
    <2>2. QED
      BY <1>1, <1>3, <1>4, <1>5, <1>9, <2>1 DEF Begins
  <1>13. ASSUME NEW b \in Call, b # c PROVE Untouched(b)
    <2>1. Pending(b)' = Pending(b)
      BY <1>5, <1>13 DEF Pending
    <2>2. QED
      BY <1>5, <1>9, <1>13, <2>1 DEF Untouched
  <1>14. \A b \in Call : Fate(b)
    BY <1>12, <1>13 DEF Fate
  <1>15. QED
    BY <1>10, <1>11, <1>14, SameContiguous, SameOwners, FatesKeep

\* A wrapper that is ready is pending, and its descriptor is not hung up.
LEMMA ReadyPends ==
    ASSUME IInv, NEW c \in Call, NEW kind \in Kind, Ready(c, kind)
    PROVE  /\ Pending(c) /\ op[c].kind = kind /\ op[c] \in Binding
           /\ op[c].fd \in Fd /\ op[c].fd \in open /\ op[c].fd \notin hung
           /\ op[c].sent \in Nat /\ op[c].length \in Nat
           /\ DirOf(kind) \in Dir
           /\ Removed(c) \in OpsType
           /\ answers[c] = <<>>
  <1>1. op[c].kind = kind /\ op[c].fd \in open /\ op[c].fd \in Fd /\ op[c].fd \notin hung
    BY DEF Ready, IInv, Typed, TypeOK
  <1>2. op[c] \in Binding
    BY <1>1 DEF IInv, Typed, Unbound, Kind
  <1>3. Pending(c)
    BY <1>1, <1>2 DEF Ready, Pending
  <1>4. op[c].sent \in Nat /\ op[c].length \in Nat
    BY <1>2 DEF Binding
  <1>5. Removed(c) \in OpsType
    BY <1>1, WithoutEffect, KindHasDir, {DirOf(op[c].kind)} \in SUBSET Dir DEF Removed, IInv
  <1>6. answers[c] = <<>>
    BY <1>1, <1>3 DEF IInv, Answering, AnswersOf
  <1>7. QED
    BY <1>1, <1>2, <1>3, <1>4, <1>5, <1>6, KindHasDir

\* The answer of a wrapper, as a function of the calls.
LEMMA AnsweredEffect ==
    ASSUME Typed, NEW c \in Call, NEW ec \in Code, NEW n \in Nat, Answered(c, ec, n)
    PROVE  /\ answers' \in AnswersType
           /\ answers'[c] = Append(answers[c], Answer(ec, n))
           /\ \A b \in Call : b # c => answers'[b] = answers[b]
  <1>1. answers[c] \in Seq([ec : Code, n : Nat])
    BY DEF Typed
  <1>2. Append(answers[c], Answer(ec, n)) \in Seq([ec : Code, n : Nat])
    BY <1>1, Appended
  <1>3. QED
    BY <1>2 DEF Answered, Typed, AnswersType

\* A wrapper that is not a write, and leaves sockets and descriptors alone.
LEMMA WrapperKeeps ==
    ASSUME IInv, NEW c \in Call, NEW kind \in Kind \ {"write"}, Ready(c, kind),
           ops' = Removed(c), NEW ec \in Code, NEW n \in Nat, Answered(c, ec, n),
           UNCHANGED <<sockfd, kernel, op, wire, lost>>
    PROVE  IInv'
  <1>1. /\ Pending(c) /\ op[c].kind = kind /\ op[c] \in Binding /\ ops' \in OpsType
    BY ReadyPends
  <1>2. /\ answers' \in AnswersType
        /\ answers'[c] = Append(answers[c], Answer(ec, n))
        /\ \A b \in Call : b # c => answers'[b] = answers[b]
    BY AnsweredEffect DEF IInv
  <1>3. Typed'
    BY <1>1, <1>2 DEF IInv, Typed, TypeOK, OpsType, AnswersType, kernel
  <1>4. Bound' /\ \A b \in Call : Fate(b)
    <2>1. op' \in [Call -> {Unbound} \cup Binding] /\ op' = op /\ hung' = hung /\ open' = open
      BY <1>3 DEF Typed, kernel
    <2>2. QED
      BY <1>1, <1>2, <2>1, RemoveFate
  <1>5. QED
    BY <1>3, <1>4, SameContiguous, SameOwners, FatesKeep DEF kernel

\* Receive keeps the invariant.
LEMMA ReceiveKeeps ==
    ASSUME IInv, NEW c \in Call, Receive(c, Removed(c))
    PROVE  IInv'
  <1>1. "read" \in Kind \ {"write"} /\ "SUCCESS" \in Code /\ "ERRNO" \in Code /\ 0 \in Nat
    BY DEF Kind, Code
  <1>2. op[c].length \in Nat /\ Ready(c, "read")
    BY <1>1, ReadyPends DEF Receive
  <1>3. QED
    BY <1>1, <1>2, WrapperKeeps DEF Receive

\* ConnectWrap keeps the invariant.
LEMMA ConnectWrapKeeps ==
    ASSUME IInv, NEW c \in Call, connect_op_wrap(c)
    PROVE  IInv'
  <1>1. "connect" \in Kind \ {"write"} /\ {"SUCCESS", "ERRNO"} \subseteq Code /\ 0 \in Nat
    BY DEF Kind, Code
  <1>2. QED
    BY <1>1, WrapperKeeps DEF connect_op_wrap

\* Accept keeps the invariant.
LEMMA AcceptKeeps ==
    ASSUME IInv, NEW c \in Call, accept_op_wrap(c)
    PROVE  IInv'
  <1> DEFINE target == op[c].target
  <1>0. "accept" \in Kind /\ "SUCCESS" \in Code /\ "ERRNO" \in Code /\ 0 \in Nat
    BY DEF Kind, Code
  <1>1. /\ Pending(c) /\ op[c].kind = "accept" /\ op[c] \in Binding /\ ops' \in OpsType
        /\ ops' = Removed(c) /\ UNCHANGED <<listening, hung, op, wire>>
        /\ target \in Socket
    BY <1>0, ReadyPends DEF accept_op_wrap, Binding
  <1>2. PICK ec \in Code : Answered(c, ec, 0)
    BY <1>0 DEF accept_op_wrap
  <1>3. /\ answers' \in AnswersType
        /\ answers'[c] = Append(answers[c], Answer(ec, 0))
        /\ \A b \in Call : b # c => answers'[b] = answers[b]
    BY <1>0, <1>2, AnsweredEffect DEF IInv
  <1>4. /\ sockfd' \in [Socket -> Fd \cup {Closed}] /\ lost' \subseteq Fd
        /\ open' \subseteq Fd /\ open \subseteq open' /\ Owners'
    <2>1. lost' = IF sockfd[target] \in open THEN lost \cup {sockfd[target]} ELSE lost
      BY DEF accept_op_wrap
    <2>2. CASE sockfd' = [sockfd EXCEPT ![target] = Closed] /\ open' = open
      BY <1>1, <2>1, <2>2, FdAssumption DEF IInv, Typed, TypeOK, Owners
    <2>3. ASSUME NEW fd \in Fd \ open, sockfd' = [sockfd EXCEPT ![target] = fd],
                 open' = open \cup {fd}
          PROVE  /\ sockfd' \in [Socket -> Fd \cup {Closed}] /\ lost' \subseteq Fd
                 /\ open' \subseteq Fd /\ open \subseteq open' /\ Owners'
      BY <1>1, <2>1, <2>3, FdAssumption DEF IInv, Typed, TypeOK, Owners
    <2>4. QED
      BY <2>2, <2>3 DEF accept_op_wrap
  <1>5. Typed'
    BY <1>1, <1>3, <1>4 DEF IInv, Typed, TypeOK, OpsType, AnswersType
  <1>6. Bound' /\ \A b \in Call : Fate(b)
    <2>1. op' \in [Call -> {Unbound} \cup Binding]
      BY <1>5 DEF Typed
    <2>2. QED
      BY <1>0, <1>1, <1>3, <1>4, <2>1, RemoveFate
  <1>7. QED
    BY <1>1, <1>4, <1>5, <1>6, SameContiguous, FatesKeep

\* PeerHangsUp keeps the invariant.
LEMMA PeerHangsUpKeeps ==
    ASSUME IInv, NEW fd \in Fd, PeerHangsUp(fd)
    PROVE  IInv'
  <1>1. /\ UNCHANGED <<sockfd, open, listening, ops, op, answers, wire, lost>>
        /\ hung \subseteq hung' /\ hung' \subseteq open
    BY DEF PeerHangsUp, IInv, Typed, TypeOK
  <1>2. Typed' /\ Bound'
    BY <1>1 DEF IInv, Typed, TypeOK, Bound
  <1>3. \A c \in Call : Fate(c)
    BY <1>1 DEF Fate, Untouched, Pending
  <1>4. QED
    BY <1>1, <1>2, <1>3, SameContiguous, SameOwners, FatesKeep

\* HupEvent keeps the invariant.
LEMMA HupEventKeeps ==
    ASSUME IInv, NEW fd \in Fd, HupEvent(fd)
    PROVE  IInv'
  <1>1. /\ UNCHANGED <<sockfd, open, listening, hung, ops, op, wire, lost>>
        /\ fd \in hung /\ answers' = Notify(Registered(fd, Dir), "EFDHUP")
    BY DEF HupEvent, kernel
  <1>2. /\ answers' \in AnswersType
        /\ \A c \in Call : answers'[c] =
              IF WaitsAt(c, fd, Dir) THEN Append(answers[c], Answer("EFDHUP", op[c].sent))
              ELSE answers[c]
    <2>1. "EFDHUP" \in Code /\ Dir \in SUBSET Dir
      BY DEF Code
    <2>2. QED
      BY <1>1, <2>1, NotifyEffect DEF IInv
  <1>3. Typed' /\ Bound'
    BY <1>1, <1>2 DEF IInv, Typed, TypeOK, Bound, AnswersType
  <1>4. ASSUME NEW c \in Call PROVE Fate(c)
    <2>1. Pending(c)' = Pending(c)
      BY <1>1 DEF Pending
    <2>2. CASE WaitsAt(c, fd, Dir)
      BY <1>1, <1>2, <2>1, <2>2 DEF Fate, HearsHup, WaitsAt
    <2>3. CASE ~ WaitsAt(c, fd, Dir)
      BY <1>1, <1>2, <2>1, <2>3 DEF Fate, Untouched
    <2>4. QED
      BY <2>2, <2>3
  <1>5. QED
    BY <1>1, <1>3, <1>4, SameContiguous, SameOwners, FatesKeep

----------------------------------------------------------------------------
(* The bytes of a write. *)

\* v is w followed by n bytes of call c, after the sent ones.
Follows(v, w, c, sent, n) ==
    /\ v \in Seq(Call \X Nat)
    /\ Len(v) = Len(w) + n
    /\ \A i \in 1..Len(w) : v[i] = w[i]
    /\ \A j \in 1..n : v[Len(w) + j] = <<c, sent + j>>

\* Bytes handed to the kernel follow those that are there.
LEMMA SentFollows ==
    ASSUME NEW c \in Call, NEW w \in Seq(Call \X Nat), NEW n \in Nat, op[c].sent \in Nat
    PROVE  Follows(w \o Sent(c, n), w, c, op[c].sent, n)
  <1> DEFINE t == Sent(c, n)
  <1>1. t \in Seq(Call \X Nat) /\ Len(t) = n /\ \A j \in 1..n : t[j] = <<c, op[c].sent + j>>
    BY DEF Sent
  <1> HIDE DEF t
  <1>2. w \o t \in Seq(Call \X Nat) /\ Len(w \o t) = Len(w) + n /\ Len(w) \in Nat
    <2> DEFINE S == Call \X Nat
    <2>1. w \in Seq(S) /\ t \in Seq(S)
      BY <1>1
    <2> HIDE DEF S
    <2>2. w \o t \in Seq(S) /\ Len(w \o t) = Len(w) + Len(t) /\ Len(w) \in Nat
      BY <2>1, ConcatProperties
    <2>3. QED
      BY <1>1, <2>2 DEF S
  <1>3. \A i \in 1..Len(w) + n : (w \o t)[i] = IF i <= Len(w) THEN w[i] ELSE t[i - Len(w)]
    BY <1>1, <1>2, ConcatProperties
  <1>4. \A i \in 1..Len(w) : (w \o t)[i] = w[i]
    BY <1>2, <1>3
  <1>5. ASSUME NEW j \in 1..n PROVE (w \o t)[Len(w) + j] = t[j]
    BY <1>2, <1>3
  <1>6. QED
    BY <1>1, <1>2, <1>4, <1>5 DEF Follows, t

\* A write that is pending sends n bytes more: the bytes stay in order, and
\* those of the write come last.
LEMMA SendKeepsOrder ==
    ASSUME IInv, NEW c \in Call, Ready(c, "write"), NEW n \in Nat,
           wire' = [wire EXCEPT ![op[c].fd] = @ \o Sent(c, n)]
    PROVE  /\ wire' \in [Fd -> Seq(Call \X Nat)]
           /\ \A fd \in Fd : Contiguous(fd)'
           /\ \A g \in Fd : g # op[c].fd => wire'[g] = wire[g]
           /\ n > 0 => /\ wire'[op[c].fd] # <<>>
                       /\ wire'[op[c].fd][Len(wire'[op[c].fd])] = <<c, op[c].sent + n>>
  <1> DEFINE fd == op[c].fd
             sent == op[c].sent
             w == wire[fd]
             v == wire'[fd]
  <1>0. "write" \in Kind
    BY DEF Kind
  <1>1. fd \in Fd /\ sent \in Nat /\ Pending(c) /\ op[c].kind = "write"
    BY <1>0, ReadyPends
  <1>2. w \in Seq(Call \X Nat) /\ v = w \o Sent(c, n)
    BY <1>1 DEF IInv, Typed
  <1>3. /\ v \in Seq(Call \X Nat)
        /\ Len(v) = Len(w) + n
        /\ \A i \in 1..Len(w) : v[i] = w[i]
        /\ \A j \in 1..n : v[Len(w) + j] = <<c, sent + j>>
    <2>1. Follows(w \o Sent(c, n), w, c, sent, n)
      BY <1>1, <1>2, SentFollows
    <2>2. Follows(v, w, c, sent, n)
      BY <1>2, <2>1
    <2>3. QED
      BY <2>2 DEF Follows
  <1>4. wire' \in [Fd -> Seq(Call \X Nat)] /\ \A g \in Fd : g # fd => wire'[g] = wire[g]
    BY <1>1, <1>2, <1>3 DEF IInv, Typed
  <1>5. sent > 0 => w # <<>> /\ w[Len(w)] = <<c, sent>>
    BY <1>1 DEF IInv, Wires, GoesOn
  <1>6. Contiguous(fd) /\ Len(w) \in Nat /\ DOMAIN w = 1..Len(w) /\ DOMAIN v = 1..Len(v)
    BY <1>1, <1>2, <1>3 DEF IInv, Wires
  <1> HIDE DEF v, w, fd, sent
  <1>7. ASSUME NEW i \in DOMAIN v
        PROVE  v[i][2] = 1 \/ (i > 1 /\ v[i - 1] = <<v[i][1], v[i][2] - 1>>)
    <2>1. CASE i \in 1..Len(w)
      <3>1. v[i] = w[i] /\ (i > 1 => v[i - 1] = w[i - 1])
        BY <1>3, <1>6, <2>1
      <3>2. QED
        BY <1>6, <2>1, <3>1 DEF Contiguous, w, fd
    <2>2. CASE i \notin 1..Len(w)
      <3>1. PICK j \in 1..n : i = Len(w) + j
        <4>1. i \in Nat /\ i > Len(w) /\ i <= Len(w) + n
          BY <1>3, <1>6, <2>2
        <4>2. i - Len(w) \in 1..n /\ i = Len(w) + (i - Len(w))
          BY <1>6, <4>1
        <4>3. QED
          BY <4>2
      <3>2. v[i] = <<c, sent + j>>
        BY <1>3, <3>1
      <3>3. CASE j = 1 /\ sent = 0
        BY <3>2, <3>3
      <3>4. CASE j = 1 /\ sent > 0
        <4>1. w # <<>> /\ w[Len(w)] = <<c, sent>>
          BY <1>5, <3>4
        <4>2. Len(w) > 0 /\ i - 1 = Len(w) /\ i > 1
          BY <1>2, <1>6, <3>1, <3>4, <4>1
        <4>3. v[i - 1] = <<c, sent>>
          <5>1. Len(w) \in 1..Len(w)
            BY <1>6, <4>2
          <5>2. QED
            BY <1>3, <4>1, <4>2, <5>1
        <4>4. v[i][1] = c /\ v[i][2] - 1 = sent
          BY <1>1, <3>2, <3>4
        <4>5. QED
          BY <4>2, <4>3, <4>4
      <3>5. CASE j > 1
        <4>1. j - 1 \in 1..n /\ i - 1 = Len(w) + (j - 1) /\ i > 1
          BY <1>6, <3>1, <3>5
        <4>2. v[i - 1] = <<c, sent + (j - 1)>>
          BY <1>3, <4>1
        <4>3. v[i][1] = c /\ v[i][2] - 1 = sent + (j - 1)
          BY <1>1, <3>2
        <4>4. QED
          BY <4>1, <4>2, <4>3
      <3>6. QED
        BY <1>1, <3>1, <3>3, <3>4, <3>5
    <2>3. QED
      BY <2>1, <2>2
  <1>8. ASSUME NEW g \in Fd PROVE Contiguous(g)'
    <2>1. CASE g = fd
      BY <1>7, <2>1 DEF Contiguous, v
    <2>2. CASE g # fd
      <3>1. Contiguous(g) /\ wire'[g] = wire[g]
        BY <1>4, <2>2 DEF IInv, Wires
      <3>2. QED
        BY <3>1 DEF Contiguous
    <2>3. QED
      BY <2>1, <2>2
  <1>9. ASSUME n > 0 PROVE v # <<>> /\ v[Len(v)] = <<c, sent + n>>
    BY <1>3, <1>6, <1>9
  <1>10. QED
    BY <1>4, <1>8, <1>9 DEF v, fd, sent

\* Transmit keeps the invariant.
LEMMA TransmitKeeps ==
    ASSUME IInv, NEW c \in Call, NEW counts \in SUBSET Nat, Transmit(c, counts),
           \A n \in counts : \/ n > 0 /\ op[c].target \in Tcp
                             \/ op[c].sent + n = op[c].length
    PROVE  IInv'
  <1> DEFINE fd == op[c].fd
             sent == op[c].sent
  <1>0. "write" \in Kind /\ "SUCCESS" \in Code /\ "ERRNO" \in Code /\ Ready(c, "write")
    BY DEF Kind, Code, Transmit
  <1>1. /\ Pending(c) /\ op[c].kind = "write" /\ op[c] \in Binding
        /\ fd \in Fd /\ fd \notin hung /\ sent \in Nat /\ op[c].length \in Nat
        /\ Removed(c) \in OpsType /\ answers[c] = <<>> /\ Typed
    BY <1>0, ReadyPends DEF IInv
  <1>2. UNCHANGED <<sockfd, open, listening, hung, lost>>
    BY DEF Transmit, kernel
  <1>3. CASE Answered(c, "ERRNO", sent) /\ ops' = Removed(c) /\ UNCHANGED <<op, wire>>
    <2>1. /\ answers' \in AnswersType
          /\ answers'[c] = Append(answers[c], Answer("ERRNO", sent))
          /\ \A b \in Call : b # c => answers'[b] = answers[b]
      BY <1>0, <1>1, <1>3, AnsweredEffect
    <2>2. Typed'
      BY <1>1, <1>2, <1>3, <2>1 DEF Typed, TypeOK, OpsType, AnswersType
    <2>3. Bound' /\ \A b \in Call : Fate(b)
      <3>1. op' \in [Call -> {Unbound} \cup Binding] /\ op' = op
        BY <1>3, <2>2 DEF Typed
      <3>2. QED
        BY <1>0, <1>1, <1>2, <1>3, <2>1, <3>1, RemoveFate
    <2>4. QED
      BY <1>2, <1>3, <2>2, <2>3, SameContiguous, SameOwners, FatesKeep
  <1>4. ASSUME NEW n \in counts,
               wire' = [wire EXCEPT ![fd] = @ \o Sent(c, n)],
               op' = [op EXCEPT ![c].sent = @ + n],
               IF sent + n # op[c].length
               THEN UNCHANGED <<ops, answers>>
               ELSE ops' = Removed(c) /\ Answered(c, "SUCCESS", sent + n)
        PROVE  IInv'
    <2>0. n \in Nat /\ sent + n \in Nat
      BY <1>1
    <2>1. /\ wire' \in [Fd -> Seq(Call \X Nat)]
          /\ \A g \in Fd : Contiguous(g)'
          /\ \A g \in Fd : g # fd => wire'[g] = wire[g]
          /\ n > 0 => wire'[fd] # <<>> /\ wire'[fd][Len(wire'[fd])] = <<c, sent + n>>
      BY <1>0, <1>4, <2>0, SendKeepsOrder
    <2>2. /\ op' \in [Call -> {Unbound} \cup Binding]
          /\ op'[c] \in Binding /\ op'[c].fd = fd /\ op'[c].kind = "write"
          /\ op'[c].sent = sent + n /\ op'[c].length = op[c].length
          /\ op'[c].target = op[c].target
          /\ \A b \in Call : b # c => op'[b] = op[b]
      <3>1. op'[c] = [op[c] EXCEPT !.sent = sent + n] /\ \A b \in Call : b # c => op'[b] = op[b]
        BY <1>1, <1>4 DEF Typed
      <3>2. /\ op'[c] \in Binding /\ op'[c].fd = fd /\ op'[c].kind = "write"
            /\ op'[c].sent = sent + n /\ op'[c].length = op[c].length
            /\ op'[c].target = op[c].target
        BY <1>1, <2>0, <3>1 DEF Binding
      <3>3. op' \in [Call -> {Unbound} \cup Binding]
        BY <1>1, <1>4, <3>1, <3>2 DEF Typed
      <3>4. QED
        BY <3>1, <3>2, <3>3
    <2>3. CASE sent + n = op[c].length
      <3>1. ops' = Removed(c) /\ Answered(c, "SUCCESS", sent + n)
        BY <1>4, <2>3
      <3>2. /\ answers' \in AnswersType
            /\ answers'[c] = Append(answers[c], Answer("SUCCESS", sent + n))
            /\ \A b \in Call : b # c => answers'[b] = answers[b]
        BY <1>0, <1>1, <2>0, <3>1, AnsweredEffect
      <3>3. Typed'
        BY <1>1, <1>2, <2>1, <2>2, <3>1, <3>2 DEF Typed, TypeOK, OpsType, AnswersType, Binding, Kind
      <3>4. Bound' /\ \A b \in Call : Fate(b)
        <4>1. \A g \in Fd : g # fd \/ op[c].kind # "write" => wire'[g] = wire[g]
          BY <1>1, <2>1
        <4>2. op[c].kind = "write" => sent + n = op'[c].sent /\ sent + n = op'[c].length
          BY <2>2, <2>3
        <4>3. open \subseteq open' /\ hung' = hung /\ op'[c].kind = op[c].kind
          BY <1>1, <1>2, <2>2
        <4>4. QED
          BY <1>0, <1>1, <2>0, <2>2, <3>1, <3>2, <4>1, <4>2, <4>3, RemoveFate
      <3>5. QED
        BY <1>2, <2>1, <3>3, <3>4, SameOwners, FatesKeep
    <2>4. CASE sent + n # op[c].length
      <3>1. UNCHANGED <<ops, answers>> /\ n > 0 /\ op[c].target \in Tcp
        BY <1>4, <2>4
      <3>2. Typed'
        BY <1>1, <1>2, <2>1, <2>2, <3>1 DEF Typed, TypeOK, OpsType, AnswersType, Binding, Kind
      <3>3. Bound'
        <4> SUFFICES ASSUME NEW g \in Fd, NEW d \in Dir, ops[g][d] # None
                     PROVE  /\ g \in open /\ op'[ops[g][d]] \in Binding
                            /\ op'[ops[g][d]].fd = g /\ DirOf(op'[ops[g][d]].kind) = d
          BY <1>2, <3>1 DEF Bound
        <4>1. ops[g][d] \in Call
          BY <1>1 DEF Typed, TypeOK
        <4>2. /\ g \in open /\ op[ops[g][d]] \in Binding
              /\ op[ops[g][d]].fd = g /\ DirOf(op[ops[g][d]].kind) = d
          BY DEF IInv, Bound
        <4>3. QED
          BY <1>1, <2>2, <4>1, <4>2
      <3>4. Proceeds(c)
        <4>1. Pending(c)'
          BY <1>1, <2>2, <3>1 DEF Pending
        <4>2. GoesOn(c)'
          BY <2>1, <2>2, <3>1 DEF GoesOn
        <4>3. QED
          BY <1>1, <2>2, <3>1, <4>1, <4>2 DEF Proceeds
      <3>5. ASSUME NEW b \in Call, b # c PROVE Untouched(b)
        <4>1. op'[b] = op[b] /\ answers'[b] = answers[b]
          BY <2>2, <3>1, <3>5
        <4>2. Pending(b)' = Pending(b)
          BY <3>1, <4>1 DEF Pending
        <4>3. Pending(b) /\ op[b].kind = "write" => op[b].fd # fd /\ op[b].fd \in Fd
          BY <1>1, <3>5 DEF Pending
        <4>4. QED
          BY <1>2, <2>1, <4>1, <4>2, <4>3 DEF Untouched
      <3>6. \A b \in Call : Fate(b)
        BY <3>4, <3>5 DEF Fate
      <3>7. QED
        BY <1>2, <2>1, <3>2, <3>3, <3>6, SameOwners, FatesKeep
    <2>5. QED
      BY <2>3, <2>4
  <1>5. QED
    BY <1>3, <1>4 DEF Transmit

----------------------------------------------------------------------------
(* The theorems. *)

\* UserCall keeps the invariant.
LEMMA UserCallKeeps ==
    ASSUME IInv, NEW s \in Socket,
           \/ TcpOpen(s) \/ TcpShutdown(s) \/ TcpCancel(s) \/ setup(s)
           \/ shutdownRead(s) \/ shutdownWrite(s) \/ async_connect(s)
           \/ UdpOpen(s) \/ UdpShutdown(s) \/ UdpCancel(s)
           \/ UdpShutdownRead(s) \/ UdpShutdownWrite(s)
           \/ \E target \in Socket : async_accept(s, target)
           \/ \E length \in Length : \/ async_read(s, length) \/ async_write(s, length)
                                     \/ UdpRead(s, length) \/ UdpWrite(s, length)
    PROVE  IInv'
  <1>0. /\ Kind = {"read", "write", "accept", "connect"} /\ 0 \in Nat
        /\ {"read"} \in SUBSET Dir /\ {"write"} \in SUBSET Dir /\ Dir \in SUBSET Dir
        /\ Length \subseteq Nat
    BY LengthAssumption DEF Kind, Dir
  <1>1. CASE TcpOpen(s) \/ UdpOpen(s) \/ setup(s)
    BY <1>1, ReopenKeeps DEF TcpOpen, UdpOpen, setup
  <1>2. CASE TcpShutdown(s) \/ UdpShutdown(s)
    BY <1>2, ShutKeeps DEF TcpShutdown, UdpShutdown
  <1>3. CASE \/ TcpCancel(s) \/ shutdownRead(s) \/ shutdownWrite(s)
             \/ UdpCancel(s) \/ UdpShutdownRead(s) \/ UdpShutdownWrite(s)
    BY <1>0, <1>3, CancelKeeps
    DEF TcpCancel, shutdownRead, shutdownWrite, UdpCancel, UdpShutdownRead, UdpShutdownWrite
  <1>4. CASE async_connect(s)
    <2>1. CASE Async(s, "connect", 0, s)
      BY <1>0, <2>1, AsyncKeeps
    <2>2. CASE ~ Async(s, "connect", 0, s)
      BY <1>4, <2>2, ConnectsAtOnceKeeps DEF async_connect
    <2>3. QED
      BY <2>1, <2>2
  <1>5. ASSUME NEW target \in Socket, async_accept(s, target) PROVE IInv'
    BY <1>0, <1>5, AsyncKeeps DEF async_accept
  <1>6. ASSUME NEW length \in Length,
               \/ async_read(s, length) \/ async_write(s, length)
               \/ UdpRead(s, length) \/ UdpWrite(s, length)
        PROVE  IInv'
    <2>1. length \in Nat
      BY <1>0
    <2>2. Async(s, "read", length, s) \/ Async(s, "write", length, s)
      BY <1>6 DEF async_read, async_write, UdpRead, UdpWrite
    <2>3. QED
      BY <1>0, <2>1, <2>2, AsyncKeeps
  <1>7. QED
    BY <1>1, <1>2, <1>3, <1>4, <1>5, <1>6

\* The wrappers of the operations keep the invariant.
LEMMA WrappersKeep ==
    ASSUME IInv, NEW c \in Call,
           \/ read_op_wrap(c) \/ write_op_wrap(c) \/ UdpReadWrap(c) \/ UdpWriteWrap(c)
           \/ accept_op_wrap(c) \/ connect_op_wrap(c)
    PROVE  IInv'
  <1>1. CASE read_op_wrap(c) \/ UdpReadWrap(c)
    BY <1>1, ReceiveKeeps DEF read_op_wrap, UdpReadWrap
  <1>2. CASE write_op_wrap(c)
    <2>1. op[c].kind = "write" /\ op[c].target \in Tcp /\ Ready(c, "write")
      BY <1>2 DEF write_op_wrap, Transmit
    <2>2. op[c].sent \in Nat /\ op[c].length \in Nat
      BY <2>1, ReadyPends DEF Kind
    <2>3. /\ 1..op[c].length - op[c].sent \in SUBSET Nat
          /\ \A n \in 1..op[c].length - op[c].sent : n > 0
      BY <2>2
    <2>4. QED
      BY <1>2, <2>1, <2>3, TransmitKeeps DEF write_op_wrap
  <1>3. CASE UdpWriteWrap(c)
    <2>1. op[c].kind = "write" /\ op[c].target \in Udp /\ Ready(c, "write")
      BY <1>3 DEF UdpWriteWrap, Transmit
    <2>2. op[c].length \in Nat /\ Pending(c)
      BY <2>1, ReadyPends DEF Kind
    <2>3. op[c].sent = 0
      BY <2>1, <2>2 DEF IInv, Datagrams
    <2>4. {op[c].length} \in SUBSET Nat /\ \A n \in {op[c].length} : op[c].sent + n = op[c].length
      BY <2>2, <2>3
    <2>5. QED
      BY <1>3, <2>4, TransmitKeeps DEF UdpWriteWrap
  <1>4. CASE accept_op_wrap(c)
    BY <1>4, AcceptKeeps
  <1>5. CASE connect_op_wrap(c)
    BY <1>5, ConnectWrapKeeps
  <1>6. QED
    BY <1>1, <1>2, <1>3, <1>4, <1>5

\* Every step keeps the invariant.
LEMMA StepKeeps == IInv /\ [Next]_vars => IInv'
  <1> SUFFICES ASSUME IInv, [Next]_vars PROVE IInv'
    OBVIOUS
  <1>1. CASE UserCalls
    BY <1>1, UserCallKeeps DEF UserCalls
  <1>2. CASE Wrappers
    BY <1>2, WrappersKeep DEF Wrappers
  <1>3. ASSUME NEW fd \in Fd, PeerHangsUp(fd) \/ HupEvent(fd) PROVE IInv'
    BY <1>3, PeerHangsUpKeeps, HupEventKeeps
  <1>4. CASE UNCHANGED vars
    <2>1. Typed' /\ Bound' /\ Owners'
      BY <1>4 DEF IInv, Typed, TypeOK, Bound, Owners, vars
    <2>2. \A c \in Call : Fate(c)
      BY <1>4 DEF Fate, Untouched, Pending, vars
    <2>3. QED
      BY <1>4, <2>1, <2>2, SameContiguous, FatesKeep DEF vars
  <1>5. QED
    BY <1>1, <1>2, <1>3, <1>4 DEF Next

\* The invariant holds in every reachable state.
LEMMA Invariance == Spec => []IInv
  BY InitIInv, StepKeeps, PTL DEF Spec

\* The members of the socket classes, the reactor's table and the bindings of
\* the wrappers keep their types.
THEOREM SocketTypes == Spec => []TypeOK
  <1>1. IInv => TypeOK
    BY DEF IInv, Typed
  <1>2. QED
    BY <1>1, Invariance, PTL

\* However readiness, hang-ups, cancellation, shutdown, reopening and rejection
\* meet: a call without an answer is still registered under the descriptor its
\* wrapper was bound to, which is open, and only EFDHUP is followed by another
\* answer.
THEOREM EveryCallAnsweredOnce == Spec => []AnsweredOnce
  <1>1. IInv => AnsweredOnce
    <2> SUFFICES ASSUME IInv, NEW c \in Call
                 PROVE  /\ op[c] # Unbound /\ answers[c] = <<>> =>
                              op[c].fd \in open /\ c \in Registered(op[c].fd, Dir)
                        /\ \A i \in 1..Len(answers[c]) - 1 : answers[c][i].ec = "EFDHUP"
      BY DEF AnsweredOnce
    <2>1. AnswersOf(c) /\ Typed /\ Bound
      BY DEF IInv, Answering
    <2>2. ASSUME op[c] # Unbound, answers[c] = <<>>
          PROVE  op[c].fd \in open /\ c \in Registered(op[c].fd, Dir)
      <3>1. Pending(c) /\ c # None /\ DirOf(op[c].kind) \in Dir
        BY <2>1, <2>2, KindHasDir DEF AnswersOf, Call, None
      <3>2. QED
        BY <2>1, <3>1 DEF Pending, Bound, Registered
    <2>3. QED
      BY <2>1, <2>2 DEF AnswersOf
  <1>2. QED
    BY <1>1, Invariance, PTL

\* The partial sends of write_op_wrap put the bytes of a buffer on the wire in
\* order and next to each other, and the callback is told their number: all of
\* them with SUCCESS, and no more and no less than were sent with an error, a
\* cancellation or a hang-up in between.
THEOREM WritesAreWhole == Spec => []WholeWrites
  <1>1. IInv => WholeWrites
    BY DEF IInv, Wires, Contiguous, Reporting, ReportOf, WholeWrites
  <1>2. QED
    BY <1>1, Invariance, PTL

\* A descriptor that accept does not overwrite and whose close does not fail has
\* one owner for as long as it is open.
THEOREM DescriptorsHaveOneOwner == Spec => []OwnedOnce
  <1>1. IInv => OwnedOnce
    <2> SUFFICES ASSUME IInv, NEW fd \in Fd \ lost, fd \in open
                 PROVE  Cardinality({s \in Socket : sockfd[s] = fd}) = 1
      BY DEF OwnedOnce
    <2>1. PICK s \in Socket : sockfd[s] = fd
      BY DEF IInv, Owners
    <2>2. \A t \in Socket : sockfd[t] = fd => t = s
      BY <2>1, FdAssumption DEF IInv, Owners
    <2>3. {t \in Socket : sockfd[t] = fd} = {s}
      BY <2>1, <2>2
    <2>4. QED
      BY <2>3, FS_Singleton
  <1>2. QED
    BY <1>1, Invariance, PTL
=============================================================================
