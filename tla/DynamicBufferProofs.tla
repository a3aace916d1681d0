------------------------ MODULE DynamicBufferProofs ------------------------
(***************************************************************************)
(* Proofs about DynamicBuffer, for any bytes, any widths of the integer    *)
(* types, any expand_size_ and any bound of the vector.                    *)
(*                                                                         *)
(* BufferOK is inductive as it stands: that reserve makes room comes from  *)
(* the indices alone.  The refinement compares windows of the vector: what *)
(* reserve moves is the same window at another place, and a write behind   *)
(* the window does not touch it.                                           *)
(***************************************************************************)
EXTENDS DynamicBuffer, SequenceTheorems, TLAPS

----------------------------------------------------------------------------
(* Windows of a vector. *)

Window(v, r, w) == SubSeq(v, r + 1, w)

\* r and w enclose elements of v.
Encloses(v, r, w) ==
    v \in Seq(Byte) /\ r \in Nat /\ w \in Nat /\ r <= w /\ w <= Len(v)

\* A window has its length and its bytes.
LEMMA WindowFacts ==
    ASSUME NEW v, NEW r, NEW w, Encloses(v, r, w)
    PROVE  /\ Window(v, r, w) \in Seq(Byte)
           /\ Len(Window(v, r, w)) = w - r
           /\ \A i \in 1..w - r : Window(v, r, w)[i] = v[r + i]
  <1>1. \A i \in r + 1..w : v[i] \in Byte
    BY ElementOfSeq DEF Encloses
  <1>2. r + 1 \in Int /\ w \in Int
    BY DEF Encloses
  <1>3. /\ SubSeq(v, r + 1, w) \in Seq(Byte)
        /\ Len(SubSeq(v, r + 1, w)) = IF r + 1 <= w THEN w - (r + 1) + 1 ELSE 0
        /\ \A i \in 1..w - (r + 1) + 1 : SubSeq(v, r + 1, w)[i] = v[r + 1 + i - 1]
    BY <1>1, <1>2, SubSeqProperties
  <1>4. QED
    BY <1>3 DEF Window, Encloses

\* Two windows with the same elements are the same.
LEMMA SameWindow ==
    ASSUME NEW v1, NEW r1, NEW w1, Encloses(v1, r1, w1),
           NEW v2, NEW r2, NEW w2, Encloses(v2, r2, w2),
           w1 - r1 = w2 - r2,
           \A i \in 1..w1 - r1 : v1[r1 + i] = v2[r2 + i]
    PROVE  Window(v1, r1, w1) = Window(v2, r2, w2)
  <1> DEFINE s == Window(v1, r1, w1)
             t == Window(v2, r2, w2)
  <1>1. s \in Seq(Byte) /\ Len(s) = w1 - r1 /\ \A i \in 1..w1 - r1 : s[i] = v1[r1 + i]
    BY WindowFacts
  <1>2. t \in Seq(Byte) /\ Len(t) = w2 - r2 /\ \A i \in 1..w2 - r2 : t[i] = v2[r2 + i]
    BY WindowFacts
  <1> HIDE DEF s, t
  <1>3. Len(s) = Len(t) /\ \A i \in 1..Len(s) : s[i] = t[i]
    BY <1>1, <1>2
  <1>4. s = t
    BY <1>1, <1>2, <1>3, SeqEqual
  <1>5. QED
    BY <1>4 DEF s, t

\* A window of a window is a window.
LEMMA InnerWindow ==
    ASSUME NEW v, NEW r, NEW w, Encloses(v, r, w),
           NEW a \in Nat, NEW b \in Nat, a <= b, b <= w - r
    PROVE  Window(Window(v, r, w), a, b) = Window(v, r + a, r + b)
  <1> DEFINE s == Window(v, r, w)
  <1>1. s \in Seq(Byte) /\ Len(s) = w - r /\ \A i \in 1..w - r : s[i] = v[r + i]
    BY WindowFacts
  <1> HIDE DEF s
  <1>2. Encloses(s, a, b)
    BY <1>1 DEF Encloses
  <1>3. Encloses(v, r + a, r + b)
    BY DEF Encloses
  <1>4. b - a = (r + b) - (r + a)
    BY DEF Encloses
  <1>5. \A i \in 1..b - a : s[a + i] = v[(r + a) + i]
    BY <1>1 DEF Encloses
  <1>6. Window(s, a, b) = Window(v, r + a, r + b)
    BY <1>2, <1>3, <1>4, <1>5, SameWindow
  <1>7. QED
    BY <1>6 DEF s

\* What a window starts with.
LEMMA FirstOfWindow ==
    ASSUME NEW v, NEW r, NEW w, Encloses(v, r, w), NEW b \in Nat, b <= w - r
    PROVE  SubSeq(Window(v, r, w), 1, b) = SubSeq(v, r + 1, r + b)
  <1>1. 0 \in Nat /\ 0 <= b
    OBVIOUS
  <1>2. Window(Window(v, r, w), 0, b) = Window(v, r + 0, r + b)
    BY <1>1, InnerWindow
  <1>3. r + 0 = r
    BY DEF Encloses
  <1>4. Window(Window(v, r, w), 0, b) = Window(v, r, r + b)
    BY <1>2, <1>3
  <1> DEFINE s == Window(v, r, w)
  <1> HIDE DEF s
  <1>5. SubSeq(s, 0 + 1, b) = SubSeq(v, r + 1, r + b)
    BY <1>4 DEF s, Window
  <1>6. 0 + 1 = 1
    OBVIOUS
  <1>7. SubSeq(s, 1, b) = SubSeq(v, r + 1, r + b)
    BY <1>5, <1>6
  <1>8. QED
    BY <1>7 DEF s

----------------------------------------------------------------------------
(* reserve and stores. *)

\* The multiple of expand_size_ that reserve grows to is large enough.
LEMMA Multiple ==
    ASSUME NEW size \in Nat
    PROVE  /\ (size \div ExpandSize + 1) * ExpandSize \in Nat
           /\ (size \div ExpandSize + 1) * ExpandSize > size
  <1>1. ExpandSize \in Nat /\ ExpandSize > 0
    BY ExpandAssumption
  <1>2. PICK q \in Nat, r \in Nat : q = size \div ExpandSize /\ r < ExpandSize /\ size = q * ExpandSize + r
    BY <1>1, SMTT(30)
  <1>3. (q + 1) * ExpandSize = q * ExpandSize + ExpandSize
    BY <1>1
  <1>4. q * ExpandSize \in Nat
    BY <1>1
  <1>5. QED
    BY <1>1, <1>2, <1>3, <1>4

\* The bytes are the same as before, elsewhere.
SameBytes(v, r, w) ==
    /\ w - r = dataBytes
    /\ \A i \in 1..dataBytes : v[r + i] = char_vector_[read_index_ + i]

\* What reserve(size) leaves: the same bytes, and more room than asked for.
LEMMA ReserveFacts ==
    ASSUME BufferOK, NEW size \in Nat
    PROVE  /\ Encloses(ReservedVector(size), ReservedRead(size), ReservedWrite(size))
           /\ Len(ReservedVector(size)) - ReservedWrite(size) > size
           /\ ReservedRead(size) = ReservedWrite(size) => ReservedRead(size) = 0
           /\ SameBytes(ReservedVector(size), ReservedRead(size), ReservedWrite(size))
  <1> DEFINE N == NewSize(size)
  <1>1. /\ Encloses(char_vector_, read_index_, write_index_)
        /\ read_index_ = write_index_ => read_index_ = 0
    BY DEF BufferOK, Encloses
  <1>2. Len(char_vector_) \in Nat
    BY <1>1, LenProperties DEF Encloses
  <1>3. CASE Enough(size)
    BY <1>1, <1>2, <1>3
    DEF Enough, ReservedVector, ReservedRead, ReservedWrite, SameBytes, dataBytes,
        availableBytes, Encloses
  <1>4. CASE ~Enough(size)
    <2> DEFINE m == (size \div ExpandSize + 1) * ExpandSize
    <2>0. m \in Nat /\ m > size
      BY Multiple
    <2>b. N = IF availableBytes + uselessBytes <= size THEN m + Len(char_vector_)
                                                       ELSE Len(char_vector_)
      BY DEF NewSize
    <2> HIDE DEF m, N
    <2>1. N \in Nat /\ N >= Len(char_vector_) /\ N - dataBytes > size
      BY <1>1, <1>2, <2>0, <2>b DEF availableBytes, uselessBytes, dataBytes, Encloses
    <2>2. dataBytes \in Nat /\ dataBytes <= Len(char_vector_) /\ read_index_ + dataBytes <= Len(char_vector_)
      BY <1>1, <1>2 DEF dataBytes, Encloses
    <2>3. Moved(size) = [i \in 1..N |->
                            IF i <= dataBytes THEN char_vector_[read_index_ + i]
                            ELSE IF i <= Len(char_vector_) THEN char_vector_[i] ELSE Zero]
      BY DEF Moved, N
    <2>4. \A i \in 1..Len(char_vector_) : char_vector_[i] \in Byte
      BY <1>1, ElementOfSeq DEF Encloses
    <2>5. \A i \in 1..dataBytes : read_index_ + i \in 1..Len(char_vector_)
      BY <1>1, <1>2, <2>2 DEF Encloses
    <2>6. \A i \in 1..N : Moved(size)[i] \in Byte
      BY <1>2, <2>2, <2>3, <2>4, <2>5, <2>1, ByteAssumption
    <2>7. Moved(size) \in [1..N -> Byte]
      BY <2>3, <2>6
    <2>8. Moved(size) \in Seq(Byte) /\ Len(Moved(size)) = N
      BY <2>1, <2>7
    <2>9. \A i \in 1..dataBytes : Moved(size)[i] = char_vector_[read_index_ + i]
      BY <1>2, <2>1, <2>2, <2>3
    <2>10. /\ ReservedVector(size) = Moved(size)
           /\ ReservedRead(size) = 0
           /\ ReservedWrite(size) = dataBytes
      BY <1>4 DEF ReservedVector, ReservedRead, ReservedWrite
    <2>11. QED
      BY <2>1, <2>2, <1>2, <2>8, <2>9, <2>10 DEF Encloses, SameBytes
  <1>5. QED
    BY <1>3, <1>4

\* A store that fits changes nothing in front of it.
LEMMA OverlayFacts ==
    ASSUME NEW v \in Seq(Byte), NEW at \in Nat, NEW data \in Seq(Byte), at + Len(data) <= Len(v)
    PROVE  /\ Overlay(v, at, data) \in Seq(Byte)
           /\ Len(Overlay(v, at, data)) = Len(v)
           /\ \A i \in 1..at : Overlay(v, at, data)[i] = v[i]
  <1>1. Len(v) \in Nat /\ Len(data) \in Nat
    BY LenProperties
  <1>2. \A i \in 1..Len(v) : v[i] \in Byte
    BY ElementOfSeq
  <1>3. \A i \in 1..Len(data) : data[i] \in Byte
    BY ElementOfSeq
  <1>4. \A i \in 1..Len(v) : Overlay(v, at, data)[i] \in Byte
    BY <1>1, <1>2, <1>3 DEF Overlay
  <1>5. Overlay(v, at, data) \in [1..Len(v) -> Byte]
    BY <1>4 DEF Overlay
  <1>6. QED
    BY <1>1, <1>5 DEF Overlay

\* The bytes of a buffer are a sequence.
LEMMA BytesAreSequences ==
    ASSUME NEW n \in Nat, NEW data \in Bytes(n)
    PROVE  data \in Seq(Byte) /\ Len(data) = n
  BY DEF Bytes

----------------------------------------------------------------------------
(* BufferOK is inductive. *)

\* What BufferOK says of the vector and the indices.
IndicesOK ==
    /\ Encloses(char_vector_, read_index_, write_index_)
    /\ Len(char_vector_) > 0
    /\ read_index_ = write_index_ => read_index_ = 0

LoanOK ==
    lent # NoLoan =>
        /\ lent.at = write_index_
        /\ lent.room = availableBytes
        /\ lent.room > lent.want

\* The invariant is about the indices and about what is lent.
LEMMA BufferOKParts == BufferOK <=> IndicesOK /\ LoanOK
  BY DEF BufferOK, IndicesOK, LoanOK, Encloses

\* Write keeps the invariant.
LEMMA WriteKeeps ==
    ASSUME BufferOK, NEW n \in Width, NEW data \in Bytes(n), WRITE(data)
    PROVE  BufferOK'
  <1> DEFINE V == ReservedVector(n)
             R == ReservedRead(n)
             W == ReservedWrite(n)
  <1>1. n \in Nat /\ n > 0
    BY WidthAssumption
  <1>2. data \in Seq(Byte) /\ Len(data) = n
    BY <1>1, BytesAreSequences
  <1>3. Encloses(V, R, W) /\ Len(V) - W > n
    BY <1>1, ReserveFacts
  <1>4. /\ char_vector_' = Overlay(V, W, data) /\ read_index_' = R /\ write_index_' = W + n
        /\ lent' = NoLoan
    BY <1>2 DEF WRITE
  <1> HIDE DEF V, R, W
  <1>5. Overlay(V, W, data) \in Seq(Byte) /\ Len(Overlay(V, W, data)) = Len(V)
    BY <1>1, <1>2, <1>3, OverlayFacts DEF Encloses
  <1>6. IndicesOK'
    BY <1>1, <1>3, <1>4, <1>5 DEF IndicesOK, Encloses
  <1>7. LoanOK'
    BY <1>4 DEF LoanOK
  <1>8. QED
    BY <1>6, <1>7, BufferOKParts, PTL

\* Read keeps the invariant.
LEMMA ReadKeeps ==
    ASSUME BufferOK, NEW n \in Nat, n <= dataBytes, read(n), lent = NoLoan, lent' = lent
    PROVE  BufferOK'
  BY DEF BufferOK, read, dataBytes

\* Lend keeps the invariant.
LEMMA LendKeeps ==
    ASSUME BufferOK, NEW n \in Width, start_recv(n)
    PROVE  BufferOK'
  <1> DEFINE V == ReservedVector(n)
             R == ReservedRead(n)
             W == ReservedWrite(n)
  <1>1. n \in Nat
    BY WidthAssumption
  <1>2. Encloses(V, R, W) /\ Len(V) - W > n /\ (R = W => R = 0)
    BY <1>1, ReserveFacts
  <1>3. char_vector_' = V /\ read_index_' = R /\ write_index_' = W
    BY DEF start_recv, reserve
  <1>4. lent' = [at |-> write_index_', room |-> Len(char_vector_') - write_index_', want |-> n]
    BY DEF start_recv
  <1> HIDE DEF V, R, W
  <1>5. IndicesOK'
    BY <1>1, <1>2, <1>3 DEF IndicesOK, Encloses
  <1>6. lent'.at = write_index_' /\ lent'.room = Len(V) - W /\ lent'.want = n
    BY <1>3, <1>4
  <1>7. LoanOK'
    BY <1>2, <1>3, <1>6 DEF LoanOK, availableBytes
  <1>8. QED
    BY <1>5, <1>7, BufferOKParts, PTL

\* Receive keeps the invariant.
LEMMA ReceiveKeeps ==
    ASSUME BufferOK, NEW n \in Nat, NEW data \in Bytes(n), Received(data)
    PROVE  BufferOK'
  <1>1. data \in Seq(Byte) /\ Len(data) = n
    BY BytesAreSequences
  <1>2. /\ char_vector_' = Overlay(char_vector_, write_index_, data)
        /\ write_index_' = write_index_ + n /\ read_index_' = read_index_ /\ lent' = NoLoan
        /\ write_index_ + n <= Len(char_vector_)
    BY <1>1 DEF Received, BufferOK, availableBytes
  <1>3. IndicesOK
    BY BufferOKParts
  <1>4. /\ Overlay(char_vector_, write_index_, data) \in Seq(Byte)
        /\ Len(Overlay(char_vector_, write_index_, data)) = Len(char_vector_)
    BY <1>1, <1>2, <1>3, OverlayFacts DEF IndicesOK, Encloses
  <1>5. IndicesOK'
    BY <1>2, <1>3, <1>4 DEF IndicesOK, Encloses
  <1>6. LoanOK'
    BY <1>2 DEF LoanOK
  <1>7. QED
    BY <1>5, <1>6, BufferOKParts, PTL

\* Every step keeps the invariant.
LEMMA StepKeeps == BufferOK /\ [Next]_vars => BufferOK'
  <1> SUFFICES ASSUME BufferOK, [Next]_vars PROVE BufferOK'
    OBVIOUS
  <1>1. dataBytes \in Nat
    BY DEF BufferOK, dataBytes
  <1>2. ASSUME NEW n \in Width, NEW data \in Bytes(n), WRITE(data) PROVE BufferOK'
    BY <1>2, WriteKeeps
  <1>3. ASSUME NEW n \in Width, READ(n) PROVE BufferOK'
    <2>1. n \in Nat
      BY WidthAssumption
    <2>2. CASE UNCHANGED <<read_index_, write_index_, char_vector_, lent>>
      BY <2>2 DEF BufferOK, availableBytes
    <2>3. CASE dataBytes >= n /\ read(n) /\ lent = NoLoan /\ lent' = lent
      BY <1>1, <2>1, <2>3, ReadKeeps
    <2>4. QED
      BY <1>3, <2>2, <2>3 DEF READ
  <1>4. ASSUME NEW n \in Width, NEW offset \in 0..MaxSize, PEEK(n, offset) PROVE BufferOK'
    BY <1>4 DEF PEEK, BufferOK, availableBytes
  <1>5. ASSUME NEW n \in Width, start_recv(n) PROVE BufferOK'
    BY <1>5, LendKeeps
  <1>6. CASE readAllToString
    BY <1>1, <1>6, ReadKeeps DEF readAllToString
  <1>7. ASSUME NEW n \in 0..MaxSize, NEW data \in Bytes(n), Received(data) PROVE BufferOK'
    <2>1. n \in Nat
      BY SizeAssumption
    <2>2. QED
      BY <1>7, <2>1, ReceiveKeeps
  <1>8. CASE UNCHANGED vars
    BY <1>8 DEF vars, BufferOK, availableBytes
  <1>9. QED
    BY <1>2, <1>3, <1>4, <1>5, <1>6, <1>7, <1>8 DEF Next

\* The indices enclose the bytes, an empty buffer starts over, and the room
\* reserve makes is more than was asked for, through any sequence of writes,
\* reads and receives, for any expand_size_ and any widths.
THEOREM IndicesAreSound == Spec => []BufferOK
  <1>1. Init => BufferOK
    BY ByteAssumption DEF Init, BufferOK, availableBytes
  <1>2. QED
    BY <1>1, StepKeeps, PTL DEF Spec

----------------------------------------------------------------------------
(* The refinement. *)

ContentsOK ==
    /\ Encloses(char_vector_, read_index_, write_index_)
    /\ Contents = Window(char_vector_, read_index_, write_index_)
    /\ Len(Contents) = dataBytes /\ dataBytes \in Nat

\* What the indices enclose is a sequence of their distance.
LEMMA ContentsFacts == BufferOK => ContentsOK
  BY BufferOKParts, WindowFacts DEF ContentsOK, IndicesOK, Contents, Window, dataBytes, Encloses

\* A window that starts with the bytes of another one extends it.
LEMMA Extends ==
    ASSUME NEW v1, NEW r1, NEW w1, Encloses(v1, r1, w1),
           NEW v2, NEW r2, NEW w2, Encloses(v2, r2, w2),
           w1 - r1 <= w2 - r2,
           \A i \in 1..w1 - r1 : v1[r1 + i] = v2[r2 + i]
    PROVE  /\ Len(Window(v1, r1, w1)) <= Len(Window(v2, r2, w2))
           /\ SubSeq(Window(v2, r2, w2), 1, Len(Window(v1, r1, w1))) = Window(v1, r1, w1)
  <1> DEFINE n == w1 - r1
  <1>1. n \in Nat /\ n <= w2 - r2
    BY DEF Encloses
  <1>2. Len(Window(v1, r1, w1)) = n /\ Len(Window(v2, r2, w2)) = w2 - r2
    BY WindowFacts
  <1>3. Encloses(v2, r2, r2 + n) /\ w1 - r1 = (r2 + n) - r2
    BY DEF Encloses
  <1>4. Window(v1, r1, w1) = Window(v2, r2, r2 + n)
    BY <1>3, SameWindow
  <1> HIDE DEF n
  <1>5. SubSeq(Window(v2, r2, w2), 1, n) = SubSeq(v2, r2 + 1, r2 + n)
    BY <1>1, FirstOfWindow
  <1>6. SubSeq(Window(v2, r2, w2), 1, n) = Window(v2, r2, r2 + n)
    BY <1>5 DEF Window
  <1>7. QED
    BY <1>1, <1>2, <1>4, <1>6

\* The bytes that were there are still there, in front.
Grows ==
    \A i \in 1..dataBytes : char_vector_'[read_index_' + i] = char_vector_[read_index_ + i]

\* More bytes behind the same ones are a Put of the queue.
LEMMA GrowsIsPut ==
    ASSUME BufferOK, BufferOK', Grows, dataBytes <= dataBytes', out' = out
    PROVE  Queue!Put
  <1>1. /\ Encloses(char_vector_, read_index_, write_index_)
        /\ Contents = Window(char_vector_, read_index_, write_index_)
    BY ContentsFacts DEF ContentsOK
  <1>2. /\ Encloses(char_vector_', read_index_', write_index_')
        /\ Contents' = Window(char_vector_', read_index_', write_index_')
    <2>1. ContentsOK'
      BY ContentsFacts, PTL
    <2>2. QED
      BY <2>1 DEF ContentsOK
  <1>3. write_index_ - read_index_ <= write_index_' - read_index_'
    BY DEF dataBytes
  <1>4. \A i \in 1..write_index_ - read_index_ :
            char_vector_[read_index_ + i] = char_vector_'[read_index_' + i]
    BY DEF Grows, dataBytes
  <1>5. /\ Len(Contents) <= Len(Contents')
        /\ SubSeq(Contents', 1, Len(Contents)) = Contents
    BY <1>1, <1>2, <1>3, <1>4, Extends
  <1>6. Len(Contents') >= Len(Contents)
    <2>1. Len(Contents) \in Nat /\ Len(Contents') \in Nat
      BY <1>1, <1>2, WindowFacts, LenProperties
    <2>2. QED
      BY <1>5, <2>1
  <1>7. QED
    BY <1>5, <1>6 DEF Queue!Put

\* Write puts bytes at the end of the queue.
LEMMA WriteIsPut ==
    ASSUME BufferOK, BufferOK', NEW n \in Width, NEW data \in Bytes(n), WRITE(data)
    PROVE  Queue!Put
  <1> DEFINE V == ReservedVector(n)
             R == ReservedRead(n)
             W == ReservedWrite(n)
  <1>1. n \in Nat
    BY WidthAssumption
  <1>2. data \in Seq(Byte) /\ Len(data) = n
    BY <1>1, BytesAreSequences
  <1>3. Encloses(V, R, W) /\ Len(V) - W > n /\ SameBytes(V, R, W)
    BY <1>1, ReserveFacts
  <1>4. /\ char_vector_' = Overlay(V, W, data) /\ read_index_' = R /\ write_index_' = W + n
        /\ out' = out
    BY <1>2 DEF WRITE
  <1>5. dataBytes \in Nat
    BY ContentsFacts DEF ContentsOK
  <1> HIDE DEF V, R, W
  <1>6. \A i \in 1..W : Overlay(V, W, data)[i] = V[i]
    BY <1>1, <1>2, <1>3, OverlayFacts DEF Encloses
  <1>7. \A i \in 1..dataBytes : R + i \in 1..W
    BY <1>3, <1>5 DEF SameBytes, Encloses
  <1>8. Grows
    BY <1>3, <1>4, <1>6, <1>7 DEF Grows, SameBytes
  <1>9. dataBytes <= dataBytes'
    <2>1. dataBytes' = (W + n) - R
      BY <1>4 DEF dataBytes
    <2>2. QED
      BY <1>1, <1>3, <1>5, <2>1 DEF SameBytes, Encloses
  <1>10. QED
    BY <1>4, <1>8, <1>9, GrowsIsPut

\* Lend puts bytes at the end of the queue.
LEMMA LendIsPut ==
    ASSUME BufferOK, BufferOK', NEW n \in Width, start_recv(n)
    PROVE  Queue!Put
  <1>1. n \in Nat
    BY WidthAssumption
  <1>2. /\ char_vector_' = ReservedVector(n) /\ read_index_' = ReservedRead(n)
        /\ write_index_' = ReservedWrite(n) /\ out' = out
    BY DEF start_recv, reserve
  <1>3. SameBytes(char_vector_', read_index_', write_index_')
    BY <1>1, <1>2, ReserveFacts
  <1>4. Grows /\ dataBytes' = dataBytes
    BY <1>3 DEF Grows, SameBytes, dataBytes
  <1>5. dataBytes \in Nat
    BY ContentsFacts DEF ContentsOK
  <1>6. dataBytes <= dataBytes'
    BY <1>4, <1>5
  <1>7. QED
    BY <1>2, <1>4, <1>6, GrowsIsPut

\* Receive puts bytes at the end of the queue.
LEMMA ReceiveIsPut ==
    ASSUME BufferOK, BufferOK', NEW n \in Nat, NEW data \in Bytes(n), Received(data)
    PROVE  Queue!Put
  <1>1. data \in Seq(Byte) /\ Len(data) = n
    BY BytesAreSequences
  <1>2. /\ char_vector_' = Overlay(char_vector_, write_index_, data)
        /\ write_index_' = write_index_ + n /\ read_index_' = read_index_ /\ out' = out
        /\ write_index_ + n <= Len(char_vector_)
    BY <1>1 DEF Received, BufferOK, availableBytes
  <1>3. Encloses(char_vector_, read_index_, write_index_)
    BY ContentsFacts DEF ContentsOK
  <1>4. \A i \in 1..write_index_ :
            Overlay(char_vector_, write_index_, data)[i] = char_vector_[i]
    BY <1>1, <1>2, <1>3, OverlayFacts DEF Encloses
  <1>5. \A i \in 1..dataBytes : read_index_ + i \in 1..write_index_
    BY <1>3 DEF dataBytes, Encloses
  <1>6. Grows
    BY <1>2, <1>4, <1>5 DEF Grows
  <1>7. dataBytes <= dataBytes'
    BY <1>2, <1>3 DEF dataBytes, Encloses
  <1>8. QED
    BY <1>2, <1>6, <1>7, GrowsIsPut

\* read(n) drops the first n bytes, also when the indices start over.
LEMMA ReadIsGet ==
    ASSUME BufferOK, BufferOK', NEW n \in Nat, n <= dataBytes, read(n),
           out' = SubSeq(char_vector_, read_index_ + 1, read_index_ + n)
    PROVE  n \in 0..Len(Contents) /\ Queue!Get(n)
  <1>1. /\ Encloses(char_vector_, read_index_, write_index_)
        /\ Contents = Window(char_vector_, read_index_, write_index_)
        /\ Len(Contents) = dataBytes /\ dataBytes \in Nat
    BY ContentsFacts DEF ContentsOK
  <1>2. n <= write_index_ - read_index_ /\ dataBytes = write_index_ - read_index_
    BY DEF dataBytes
  <1>3. SubSeq(Contents, 1, n) = SubSeq(char_vector_, read_index_ + 1, read_index_ + n)
    BY <1>1, <1>2, FirstOfWindow
  <1>4. dataBytes <= write_index_ - read_index_
    BY <1>1, <1>2
  <1>5. out' = SubSeq(Contents, 1, n)
    BY <1>3
  <1>6. SubSeq(Contents, n + 1, dataBytes)
            = SubSeq(char_vector_, read_index_ + n + 1, read_index_ + dataBytes)
    <2>1. Window(Contents, n, dataBytes) = Window(char_vector_, read_index_ + n, read_index_ + dataBytes)
      BY <1>1, <1>4, InnerWindow
    <2>2. QED
      BY <2>1 DEF Window
  <1>7. read_index_ + dataBytes = write_index_
    BY <1>1, <1>2 DEF Encloses
  <1>8. Contents' = SubSeq(Contents, n + 1, Len(Contents))
    <2>1. CASE read_index_ + n = write_index_
      <3>1. read_index_' = 0 /\ write_index_' = 0
        BY <2>1 DEF read
      <3>2. Contents' = SubSeq(char_vector_', 0 + 1, 0)
        BY <3>1 DEF Contents
      <3>3. SubSeq(char_vector_', 0 + 1, 0) = <<>>
        BY SubSeqEmpty
      <3>4. SubSeq(char_vector_, read_index_ + n + 1, write_index_) = <<>>
        BY <1>1, <2>1, SubSeqEmpty DEF Encloses
      <3>5. QED
        BY <1>1, <1>6, <1>7, <3>2, <3>3, <3>4
    <2>2. CASE read_index_ + n # write_index_
      <3>1. read_index_' = read_index_ + n /\ write_index_' = write_index_ /\ char_vector_' = char_vector_
        BY <2>2 DEF read
      <3>2. Contents' = SubSeq(char_vector_, read_index_ + n + 1, write_index_)
        BY <3>1 DEF Contents
      <3>3. QED
        BY <1>1, <1>6, <1>7, <3>2
    <2>3. QED
      BY <2>1, <2>2
  <1>9. n \in 0..Len(Contents)
    BY <1>1
  <1>10. QED
    BY <1>5, <1>8, <1>9 DEF Queue!Get

\* Peek reads what the queue shows at its front.
LEMMA PeekIsPeek ==
    ASSUME BufferOK, NEW n \in Width, NEW offset \in 0..MaxSize, PEEK(n, offset)
    PROVE  Queue!Next
  <1>1. /\ Encloses(char_vector_, read_index_, write_index_)
        /\ Contents = Window(char_vector_, read_index_, write_index_)
        /\ Len(Contents) = dataBytes /\ dataBytes \in Nat
    BY ContentsFacts DEF ContentsOK
  <1>2. n \in Nat /\ n > 0 /\ offset \in Nat
    BY WidthAssumption, SizeAssumption
  <1>3. Contents' = Contents
    BY DEF PEEK, Contents
  <1>4. CASE dataBytes < n + offset
    <2>1. out' = Refused
      BY <1>4 DEF PEEK
    <2>2. QED
      BY <1>3, <2>1 DEF Queue!Next, Queue!Refuse
  <1>5. CASE ~(dataBytes < n + offset)
    <2>1. out' = SubSeq(char_vector_, read_index_ + offset + 1, read_index_ + offset + n)
      BY <1>5 DEF PEEK
    <2>2. offset + n \in Nat /\ offset <= offset + n /\ offset + n <= write_index_ - read_index_
      BY <1>1, <1>2, <1>5 DEF dataBytes
    <2>3. SubSeq(Contents, offset + 1, offset + n)
              = SubSeq(char_vector_, read_index_ + offset + 1, read_index_ + (offset + n))
      <3>1. Window(Contents, offset, offset + n)
                = Window(char_vector_, read_index_ + offset, read_index_ + (offset + n))
        BY <1>1, <1>2, <2>2, InnerWindow
      <3>2. QED
        BY <3>1 DEF Window
    <2>4. read_index_ + (offset + n) = read_index_ + offset + n
      BY <1>1, <1>2 DEF Encloses
    <2>5. Queue!Peek(n, offset)
      BY <1>3, <2>1, <2>3, <2>4 DEF Queue!Peek
    <2>6. n \in 1..Len(Contents) /\ offset \in 0..Len(Contents) - n
      BY <1>1, <1>2, <1>5
    <2>7. QED
      BY <2>5, <2>6 DEF Queue!Next
  <1>6. QED
    BY <1>4, <1>5

\* Every step of the buffer is a step of the queue of bytes, or none.
LEMMA StepIsAQueueStep == BufferOK /\ BufferOK' /\ [Next]_vars => [Queue!Next]_(Queue!vars)
  <1> SUFFICES ASSUME BufferOK, BufferOK', [Next]_vars PROVE [Queue!Next]_(Queue!vars)
    OBVIOUS
  <1>0. /\ Contents = SubSeq(char_vector_, read_index_ + 1, write_index_)
        /\ Len(Contents) = dataBytes /\ dataBytes \in Nat
        /\ Encloses(char_vector_, read_index_, write_index_)
    BY ContentsFacts DEF ContentsOK, Contents
  <1>1. ASSUME NEW n \in Width, NEW data \in Bytes(n), WRITE(data) PROVE Queue!Next
    BY <1>1, WriteIsPut DEF Queue!Next
  <1>2. ASSUME NEW n \in Width, READ(n) PROVE Queue!Next
    <2>1. n \in Nat
      BY WidthAssumption
    <2>2. CASE out' = Refused /\ UNCHANGED <<read_index_, write_index_, char_vector_>>
      <3>1. Contents' = Contents
        BY <2>2 DEF Contents
      <3>2. QED
        BY <2>2, <3>1 DEF Queue!Next, Queue!Refuse
    <2>3. CASE /\ dataBytes >= n /\ read(n)
               /\ out' = SubSeq(char_vector_, read_index_ + 1, read_index_ + n)
      <3>1. n <= dataBytes
        BY <1>0, <2>1, <2>3
      <3>2. n \in 0..Len(Contents) /\ Queue!Get(n)
        BY <2>1, <2>3, <3>1, ReadIsGet
      <3>3. QED
        BY <3>2 DEF Queue!Next
    <2>4. QED
      BY <1>2, <2>2, <2>3 DEF READ
  <1>3. ASSUME NEW n \in Width, NEW offset \in 0..MaxSize, PEEK(n, offset) PROVE Queue!Next
    BY <1>3, PeekIsPeek
  <1>4. ASSUME NEW n \in Width, start_recv(n) PROVE Queue!Next
    BY <1>4, LendIsPut DEF Queue!Next
  <1>5. CASE readAllToString
    <2>1. dataBytes <= dataBytes /\ read_index_ + dataBytes = write_index_
      BY <1>0 DEF dataBytes, Encloses
    <2>2. out' = SubSeq(char_vector_, read_index_ + 1, read_index_ + dataBytes) /\ read(dataBytes)
      BY <1>0, <1>5, <2>1 DEF readAllToString
    <2>3. dataBytes \in 0..Len(Contents) /\ Queue!Get(dataBytes)
      BY <1>0, <2>1, <2>2, ReadIsGet
    <2>4. QED
      BY <2>3 DEF Queue!Next
  <1>6. ASSUME NEW n \in 0..MaxSize, NEW data \in Bytes(n), Received(data) PROVE Queue!Next
    <2>1. n \in Nat
      BY SizeAssumption
    <2>2. QED
      BY <1>6, <2>1, ReceiveIsPut DEF Queue!Next
  <1>7. CASE UNCHANGED vars
    <2>1. Contents' = Contents /\ out' = out
      BY <1>7 DEF vars, Contents
    <2>2. QED
      BY <2>1 DEF Queue!vars
  <1>8. QED
    BY <1>1, <1>2, <1>3, <1>4, <1>5, <1>6, <1>7 DEF Next

\* The buffer is a first-in first-out queue of bytes, for any expand_size_, any
\* widths and any bytes: reserve, its moves and the indices do not show.
THEOREM BufferIsAQueue == Spec => IsAQueue
  <1>1. Init => Queue!Init
    <2> SUFFICES ASSUME Init PROVE Contents = <<>> /\ out = <<>>
      BY DEF Queue!Init
    <2>1. Contents = SubSeq(char_vector_, 0 + 1, 0)
      BY DEF Init, Contents
    <2>2. SubSeq(char_vector_, 0 + 1, 0) = <<>>
      BY SubSeqEmpty
    <2>3. QED
      BY <2>1, <2>2 DEF Init
  <1>2. QED
    BY <1>1, StepIsAQueueStep, IndicesAreSound, PTL DEF Spec, IsAQueue, Queue!Spec

=============================================================================
