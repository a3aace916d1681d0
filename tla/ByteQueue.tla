----------------------------- MODULE ByteQueue -----------------------------
(***************************************************************************)
(* What DynamicBuffer promises its users: a first-in first-out queue of    *)
(* bytes.  Bytes go in at one end, in the order they were written; a read  *)
(* takes the oldest ones, a peek looks at them, and either is refused when *)
(* there are not enough.  Capacity, indices and moves do not show.         *)
(***************************************************************************)
EXTENDS Integers, Sequences

CONSTANT
    Refused    \* the answer false of a read or a peek

VARIABLES
    queue,     \* the bytes written and not read yet, the oldest first
    out        \* what the last read or peek gave

vars == <<queue, out>>

Init == queue = <<>> /\ out = <<>>

\* Bytes are appended.
Put ==
    /\ Len(queue') >= Len(queue)
    /\ SubSeq(queue', 1, Len(queue)) = queue
    /\ UNCHANGED out

\* A read of n bytes.
Get(n) ==
    /\ out' = SubSeq(queue, 1, n)
    /\ queue' = SubSeq(queue, n + 1, Len(queue))

\* A look at the n bytes that follow the first offset ones.
Peek(n, offset) ==
    /\ out' = SubSeq(queue, offset + 1, offset + n)
    /\ UNCHANGED queue

\* A read or a peek of more than there is.
Refuse == out' = Refused /\ UNCHANGED queue

Next ==
    \/ Put
    \/ \E n \in 0..Len(queue) : Get(n)
    \/ \E n \in 1..Len(queue) : \E offset \in 0..Len(queue) - n : Peek(n, offset)
    \/ Refuse

Spec == Init /\ [][Next]_vars
=============================================================================
