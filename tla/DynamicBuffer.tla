--------------------------- MODULE DynamicBuffer ---------------------------
(***************************************************************************)
(* The growing byte buffer of lcy::asio (asio/src/dynamic_buffer.cc).      *)
(*                                                                         *)
(* The bytes are char_vector_[read_index_ .. write_index_ - 1]; reserve    *)
(* moves them to the front and grows the vector when that is not enough.   *)
(* writeBegin and readBegin use vector::at, which throws past the end.     *)
(*                                                                         *)
(* A user fills the buffer in two ways: a typed write, or as               *)
(* rpc/src/details/connection.cc does: reserve, hand the kernel the room   *)
(* at writeBegin() and, when the read completes, write(nbytes).  In        *)
(* between the buffer is lent, and Connection touches it no more.          *)
(***************************************************************************)
EXTENDS Integers, Sequences

CONSTANTS
    Byte,      \* values of a byte
    Zero,      \* the byte vector::resize fills with
    Refused,   \* the answer false of a typed read or peek
    NoLoan,    \* no room is lent
    ExpandSize,\* expand_size_ (1024 in the code)
    Width,     \* the sizes of the integer types (1, 2, 4, 8 in the code)
    MaxSize    \* bound: size of char_vector_

ASSUME ExpandAssumption == ExpandSize \in Nat \ {0}
ASSUME WidthAssumption == Width \subseteq Nat \ {0}
ASSUME ByteAssumption == Zero \in Byte
ASSUME SizeAssumption == MaxSize \in Nat

VARIABLES
    read_index_, write_index_, char_vector_,
    lent,      \* the room handed to the kernel: [at, room, want], or NoLoan
    out        \* the bytes the last read or peek returned

vars == <<read_index_, write_index_, char_vector_, lent, out>>

dataBytes == write_index_ - read_index_
availableBytes == Len(char_vector_) - write_index_
uselessBytes == read_index_

\* The bytes of the buffer, the oldest first.
Contents == SubSeq(char_vector_, read_index_ + 1, write_index_)

\* vector v with data stored from index at on.
Overlay(v, at, data) ==
    [i \in 1..Len(v) |-> IF at < i /\ i <= at + Len(data) THEN data[i - at] ELSE v[i]]

----------------------------------------------------------------------------
(* reserve(size) as the three values it leaves. *)

NewSize(size) ==
    IF availableBytes + uselessBytes <= size
    THEN (size \div ExpandSize + 1) * ExpandSize + Len(char_vector_)
    ELSE Len(char_vector_)

\* Mutated: the move forgets the offset of the first byte.
MovedFromFront(size) ==
    [i \in 1..NewSize(size) |-> IF i <= Len(char_vector_) THEN char_vector_[i] ELSE Zero]

Moved(size) ==
    [i \in 1..NewSize(size) |->
        IF i <= dataBytes THEN char_vector_[read_index_ + i]
        ELSE IF i <= Len(char_vector_) THEN char_vector_[i] ELSE Zero]

\* Mutated: room for exactly size bytes is enough.
EnoughExactly(size) == availableBytes >= size

Enough(size) == availableBytes > size
ReservedVector(size) == IF Enough(size) THEN char_vector_ ELSE Moved(size)
ReservedRead(size) == IF Enough(size) THEN read_index_ ELSE 0
ReservedWrite(size) == IF Enough(size) THEN write_index_ ELSE dataBytes

reserve(size) ==
    /\ char_vector_' = ReservedVector(size)
    /\ read_index_' = ReservedRead(size)
    /\ write_index_' = ReservedWrite(size)

\* read(size): both indices start over when nothing is left.
read(size) ==
    LET drained == read_index_ + size = write_index_
    IN  /\ read_index_' = IF drained THEN 0 ELSE read_index_ + size
        /\ write_index_' = IF drained THEN 0 ELSE write_index_
        /\ UNCHANGED char_vector_

----------------------------------------------------------------------------
(* The operations. *)

Init ==
    /\ read_index_ = 0 /\ write_index_ = 0
    /\ char_vector_ = <<Zero>>
    /\ lent = NoLoan /\ out = <<>>

\* writeInt8 .. writeUint64: reserve, copy to writeBegin(), write.
WRITE(data) ==
    /\ lent = NoLoan
    /\ Len(ReservedVector(Len(data))) <= MaxSize
    /\ LET at == ReservedWrite(Len(data))
       IN  /\ char_vector_' = Overlay(ReservedVector(Len(data)), at, data)
           /\ read_index_' = ReservedRead(Len(data))
           /\ write_index_' = at + Len(data)
    /\ UNCHANGED <<lent, out>>

\* readInt8 .. readUint64.
READ(n) ==
    /\ lent = NoLoan
    /\ \/ /\ dataBytes < n
          /\ out' = Refused
          /\ UNCHANGED <<read_index_, write_index_, char_vector_>>
       \/ /\ dataBytes >= n
          /\ out' = SubSeq(char_vector_, read_index_ + 1, read_index_ + n)
          /\ read(n)
    /\ UNCHANGED lent

\* peekInt8 .. peekUint64.
PEEK(n, offset) ==
    /\ lent = NoLoan
    /\ out' = IF dataBytes < n + offset THEN Refused
              ELSE SubSeq(char_vector_, read_index_ + offset + 1, read_index_ + offset + n)
    /\ UNCHANGED <<read_index_, write_index_, char_vector_, lent>>

readAllToString ==
    /\ lent = NoLoan
    /\ out' = Contents
    /\ read(dataBytes)
    /\ UNCHANGED lent

\* Connection::start_recv: reserve, then all the room there is at writeBegin()
\* becomes the buffer of an asynchronous read.
start_recv(want) ==
    /\ lent = NoLoan
    /\ Len(ReservedVector(want)) <= MaxSize
    /\ reserve(want)
    /\ lent' = [at |-> write_index_', room |-> Len(char_vector_') - write_index_', want |-> want]
    /\ UNCHANGED out

\* The read completes: recv has stored data in the room lent, and
\* Connection::onRecvMessage calls write(nbytes); data is empty when it fails.
Received(data) ==
    /\ lent # NoLoan
    /\ Len(data) <= lent.room
    /\ char_vector_' = Overlay(char_vector_, lent.at, data)
    /\ write_index_' = write_index_ + Len(data)
    /\ lent' = NoLoan
    /\ UNCHANGED <<read_index_, out>>

\* Sequences of n bytes.
Bytes(n) == [1..n -> Byte]

Next ==
    \/ \E n \in Width : \/ \E data \in Bytes(n) : WRITE(data)
                        \/ READ(n)
                        \/ \E offset \in 0..MaxSize : PEEK(n, offset)
                        \/ start_recv(n)
    \/ readAllToString
    \/ \E n \in 0..MaxSize : \E data \in Bytes(n) : Received(data)

Spec == Init /\ [][Next]_vars

----------------------------------------------------------------------------
(* Properties. *)

\* The indices enclose bytes of the vector, and an empty buffer starts over at
\* 0: so vector::at never throws in readBegin(), and writeBegin() throws only
\* on a full vector, which reserve never leaves.  Room lent to the kernel is
\* more than was asked for and still starts where write(nbytes) will count.
BufferOK ==
    /\ char_vector_ \in Seq(Byte) /\ Len(char_vector_) > 0
    /\ read_index_ \in Nat /\ write_index_ \in Nat
    /\ read_index_ <= write_index_ /\ write_index_ <= Len(char_vector_)
    /\ read_index_ = write_index_ => read_index_ = 0
    /\ lent # NoLoan =>
          /\ lent.at = write_index_
          /\ lent.room = availableBytes
          /\ lent.room > lent.want

\* Through every sequence of reserves, moves, writes and reads the buffer is a
\* queue of bytes: what a read returns is what was written, in order.
Queue == INSTANCE ByteQueue WITH queue <- Contents
IsAQueue == Queue!Spec
=============================================================================
