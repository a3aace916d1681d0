------------------------------ MODULE TaskQueue ------------------------------
(***************************************************************************)
(* What post and batch promise to threads that do not own the context: a   *)
(* first-in first-out queue.  A submission enters the queue as a whole,    *)
(* and the owner runs the tasks one at a time, each once, in order.        *)
(***************************************************************************)
EXTENDS Sequences

CONSTANTS
    Task,   \* callables that are submitted
    Batch   \* the sequences of tasks one call submits

VARIABLES
    submitted,  \* every task ever submitted, in order
    queue,      \* tasks not run yet
    ran         \* tasks run, in order

vars == <<submitted, queue, ran>>

Init ==
    /\ submitted = <<>>
    /\ queue = <<>>
    /\ ran = <<>>

Submit(s) ==
    /\ submitted' = submitted \o s
    /\ queue' = queue \o s
    /\ UNCHANGED ran

Run ==
    /\ queue # <<>>
    /\ ran' = Append(ran, Head(queue))
    /\ queue' = Tail(queue)
    /\ UNCHANGED submitted

Next == Run \/ \E s \in Batch : Submit(s)

Spec == Init /\ [][Next]_vars
=============================================================================
