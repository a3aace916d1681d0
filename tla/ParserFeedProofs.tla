-------------------------- MODULE ParserFeedProofs --------------------------
(***************************************************************************)
(* What is proved about the parsers and the receiver of module ParserFeed, *)
(* for every stream, every width and every way to cut:                     *)
(*   - a number that was encoded is read back (ZigzagReadsBack,            *)
(*     VariantReadsBack, SignedReadsBack; NumbersAreReadBack of a stream), *)
(*   - a call of parse returns and counts only what came                   *)
(*     (EveryCallReturns),                                                 *)
(*   - the messages found do not depend on how the stream is cut           *)
(*     (StreamsAreFollowed, SameMessagesHoweverCut).                       *)
(* A turn of a parser is followed branch by branch: what state it leads to *)
(* (Leads), that it does the same with more data (Agrees), and that the    *)
(* turn that waited goes on in the next call (Resumes).  Runs of turns     *)
(* carry that over to calls, and the invariant FeedInv to the receiver.    *)
(***************************************************************************)
EXTENDS ParserFeed, SequenceTheorems, FiniteSetTheorems, WellFoundedInduction, TLAPS

----------------------------------------------------------------------------
(* Numbers. *)

Widths == Nat \ {0}

\* A set of numbers that is not empty has a least one.
LEMMA LeastNumber ==
    ASSUME NEW T \in SUBSET Nat, T # {}
    PROVE  \E m \in T : \A k \in T : m <= k
  <1>1. \E x \in T : \A y \in T : ~ (<<y, x>> \in OpToRel(<, Nat))
    BY WFMin, NatLessThanWellFounded, Zenon
  <1>2. \A x, y \in Nat : x < y => <<x, y>> \in OpToRel(<, Nat)
    BY SMT DEF OpToRel
  <1>3. \A x, y \in Nat : ~(x < y) => y <= x
    OBVIOUS
  <1> QED
    BY <1>1, <1>2, <1>3, Zenon

\* Induction on the numbers.
LEMMA Upward ==
    ASSUME NEW T, 0 \in T, \A n \in Nat : n \in T => n + 1 \in T
    PROVE  \A n \in Nat : n \in T
  <1> DEFINE F == {k \in Nat : k \notin T}
  <1>1. ASSUME F # {} PROVE FALSE
    <2>1. PICK m \in F : \A k \in F : m <= k
      <3>1. F \in SUBSET Nat
        OBVIOUS
      <3> HIDE DEF F
      <3> QED
        BY <1>1, <3>1, LeastNumber
    <2>2. m \in Nat /\ m \notin T /\ m # 0
      BY <2>1
    <2>3. m - 1 \in Nat /\ ~(m <= m - 1) /\ (m - 1) + 1 = m
      BY <2>2
    <2>4. m - 1 \notin F
      BY <2>1, <2>3
    <2>5. m - 1 \in T
      BY <2>3, <2>4
    <2>6. m \in T
      BY <2>3, <2>5
    <2> QED
      BY <2>2, <2>6
  <1> QED
    BY <1>1

\* The first n + 1 values of x, g[0][x], g[1][g[0][x]], ...
Start(f, D, g, x, n) ==
    /\ f \in [0..n -> D]
    /\ f[0] = x
    /\ \A k \in 0..n - 1 : f[k + 1] = g[k][f[k]]

Iterated(f, D, g, x) ==
    /\ f \in [Nat -> D]
    /\ f[0] = x
    /\ \A k \in Nat : f[k + 1] = g[k][f[k]]

\* A recursion on the numbers defines a function.
LEMMA Iterates ==
    ASSUME NEW D, NEW g \in [Nat -> [D -> D]], NEW x \in D
    PROVE  \E f : Iterated(f, D, g, x)
  <1> DEFINE T == {n \in Nat : \E f : Start(f, D, g, x, n)}
  <1>1. 0 \in T
    <2> DEFINE f == [k \in 0..0 |-> x]
    <2>1. Start(f, D, g, x, 0)
      BY DEF Start
    <2> QED
      BY <2>1
  <1>2. ASSUME NEW n \in Nat, n \in T PROVE n + 1 \in T
    <2>1. PICK f : Start(f, D, g, x, n)
      BY <1>2
    <2> DEFINE h == [k \in 0..n + 1 |-> IF k = n + 1 THEN g[n][f[n]] ELSE f[k]]
    <2>2. ASSUME NEW k \in 0..n PROVE f[k] \in D
      BY <2>1 DEF Start
    <2>3. g[n][f[n]] \in D
      <3>1. n \in 0..n
        OBVIOUS
      <3>2. f[n] \in D
        BY <2>2, <3>1
      <3> QED
        BY <3>2
    <2>4. h \in [0..n + 1 -> D]
      <3>1. ASSUME NEW k \in 0..n + 1, k # n + 1 PROVE k \in 0..n
        BY <3>1
      <3>2. \A k \in 0..n + 1 : h[k] \in D
        BY <2>2, <2>3, <3>1, Zenon
      <3> QED
        BY <3>2
    <2>5. h[0] = x
      BY <2>1 DEF Start
    <2>6. ASSUME NEW k \in 0..n PROVE h[k + 1] = g[k][h[k]]
      <3>1. h[k] = f[k] /\ k + 1 \in 0..n + 1
        OBVIOUS
      <3>2. CASE k = n
        BY <3>1, <3>2
      <3>3. CASE k # n
        <4>1. k \in 0..n - 1 /\ k + 1 # n + 1
          BY <3>3
        <4>2. h[k + 1] = f[k + 1]
          BY <3>1, <4>1
        <4> QED
          BY <2>1, <3>1, <4>1, <4>2 DEF Start
      <3> QED
        BY <3>2, <3>3
    <2> HIDE DEF h
    <2>7. (n + 1) - 1 = n
      OBVIOUS
    <2>8. Start(h, D, g, x, n + 1)
      BY <2>4, <2>5, <2>6, <2>7 DEF Start
    <2> QED
      BY <2>8
  <1>3. \A n \in Nat : n \in T
    <2> HIDE DEF T
    <2> QED
      BY <1>1, <1>2, Upward
  <1> DEFINE s(n) == CHOOSE f : Start(f, D, g, x, n)
             f == [n \in Nat |-> s(n)[n]]
  <1>4. ASSUME NEW n \in Nat PROVE Start(s(n), D, g, x, n)
    BY <1>3
  <1> HIDE DEF s
  <1>5. ASSUME NEW n \in Nat PROVE f[n] \in D
    BY <1>4 DEF Start
  <1>6. f[0] = x
    BY <1>4 DEF Start
  <1>7. ASSUME NEW k \in Nat PROVE s(k + 1)[k] = s(k)[k]
    <2> DEFINE A == {j \in Nat : j <= k => s(k + 1)[j] = s(k)[j]}
    <2>1. 0 \in A
      BY <1>4 DEF Start
    <2>2. ASSUME NEW j \in Nat, j \in A PROVE j + 1 \in A
      <3> SUFFICES ASSUME j + 1 <= k PROVE s(k + 1)[j + 1] = s(k)[j + 1]
        OBVIOUS
      <3>1. s(k + 1)[j] = s(k)[j]
        BY <2>2
      <3>2. j \in 0..k - 1 /\ j \in 0..(k + 1) - 1
        OBVIOUS
      <3>3. s(k)[j + 1] = g[j][s(k)[j]]
        BY <1>4, <3>2 DEF Start
      <3>4. s(k + 1)[j + 1] = g[j][s(k + 1)[j]]
        <4>1. k + 1 \in Nat
          OBVIOUS
        <4>2. Start(s(k + 1), D, g, x, k + 1)
          BY <1>4, <4>1
        <4> QED
          BY <3>2, <4>2 DEF Start
      <3> QED
        BY <3>1, <3>3, <3>4
    <2> HIDE DEF A
    <2>3. k \in A
      BY <2>1, <2>2, Upward
    <2> QED
      BY <2>3 DEF A
  <1>8. ASSUME NEW k \in Nat PROVE f[k + 1] = g[k][f[k]]
    <2>1. k + 1 \in Nat /\ k \in 0..(k + 1) - 1
      OBVIOUS
    <2>2. s(k + 1)[k + 1] = g[k][s(k + 1)[k]]
      BY <1>4, <2>1 DEF Start
    <2>3. f[k + 1] = s(k + 1)[k + 1] /\ f[k] = s(k)[k]
      BY <2>1
    <2> QED
      BY <1>7, <2>2, <2>3
  <1> HIDE DEF f
  <1>9. f \in [Nat -> D]
    BY <1>5 DEF f
  <1>10. Iterated(f, D, g, x)
    BY <1>6, <1>8, <1>9 DEF Iterated
  <1> QED
    BY <1>10

----------------------------------------------------------------------------
(* Powers. *)

\* The recursion of Power.
LEMMA PowerFacts ==
    ASSUME NEW b \in Nat \ {0}
    PROVE  /\ Power(b, 0) = 1
           /\ \A n \in Nat : Power(b, n) \in Nat \ {0} /\ Power(b, n + 1) = b * Power(b, n)
  <1> DEFINE Body(p) == [i \in Nat |-> IF i = 0 THEN 1 ELSE b * p[i - 1]]
             power == CHOOSE p : p = Body(p)
             g == [i \in Nat |-> [v \in Nat |-> b * v]]
  <1>1. \E p : p = Body(p)
    <2>1. g \in [Nat -> [Nat -> Nat]]
      OBVIOUS
    <2>2. PICK p : Iterated(p, Nat, g, 1)
      <3> HIDE DEF g
      <3>1. 1 \in Nat
        OBVIOUS
      <3> QED
        BY <2>1, <3>1, Iterates
    <2>3. \A k \in Nat : p[k + 1] = b * p[k]
      <3> SUFFICES ASSUME NEW k \in Nat PROVE p[k + 1] = b * p[k]
        OBVIOUS
      <3>1. p[k] \in Nat
        BY <2>2 DEF Iterated
      <3>2. g[k][p[k]] = b * p[k]
        BY <3>1
      <3> QED
        BY <2>2, <3>2 DEF Iterated
    <2> HIDE DEF g
    <2>4. ASSUME NEW i \in Nat, i # 0 PROVE p[i] = b * p[i - 1]
      <3>1. i - 1 \in Nat /\ (i - 1) + 1 = i
        BY <2>4
      <3>2. p[(i - 1) + 1] = b * p[i - 1]
        BY <2>3, <3>1
      <3> QED
        BY <3>1, <3>2
    <2>5. p = Body(p)
      <3>1. \A i \in Nat : p[i] = IF i = 0 THEN 1 ELSE b * p[i - 1]
        BY <2>2, <2>4 DEF Iterated
      <3>2. p \in [Nat -> Nat]
        BY <2>2 DEF Iterated
      <3> QED
        BY <3>1, <3>2
    <2> QED
      BY <2>5
  <1>2. power = Body(power)
    <2> HIDE DEF Body
    <2> QED
      BY <1>1, Zenon
  <1>3. \A n : Power(b, n) = power[n]
    BY Zenon DEF Power, power, Body
  <1> HIDE DEF power
  <1>4. power[0] = 1
    BY <1>2
  <1>5. ASSUME NEW n \in Nat PROVE power[n + 1] = b * power[n]
    <2>1. n + 1 \in Nat /\ n + 1 # 0 /\ (n + 1) - 1 = n
      OBVIOUS
    <2> QED
      BY <1>2, <2>1
  <1>6. ASSUME NEW p \in Nat \ {0} PROVE b * p \in Nat \ {0}
    <2>1. b * p \in Nat /\ b * p > 0
      OBVIOUS
    <2> QED
      BY <2>1
  <1> DEFINE T == {n \in Nat : power[n] \in Nat \ {0}}
  <1>7. 0 \in T
    BY <1>4
  <1>8. \A n \in Nat : n \in T => n + 1 \in T
    BY <1>5, <1>6
  <1>9. \A n \in Nat : n \in T
    <2> HIDE DEF T
    <2> QED
      BY <1>7, <1>8, Upward
  <1> QED
    BY <1>3, <1>4, <1>5, <1>9

\* The powers grow.
LEMMA PowersGrow ==
    ASSUME NEW b \in Nat \ {0}, NEW i \in Nat, NEW j \in Nat, i <= j
    PROVE  Power(b, i) <= Power(b, j)
  <1> DEFINE T == {n \in Nat : Power(b, i) <= Power(b, i + n)}
  <1>1. 0 \in T
    <2>1. Power(b, i) \in Nat /\ i + 0 = i
      BY PowerFacts
    <2> QED
      BY <2>1
  <1>2. ASSUME NEW n \in Nat, n \in T PROVE n + 1 \in T
    <2>1. i + n \in Nat /\ i + (n + 1) = (i + n) + 1
      OBVIOUS
    <2>2. Power(b, i) \in Nat /\ Power(b, i + n) \in Nat \ {0}
      BY <2>1, PowerFacts
    <2>3. Power(b, i + (n + 1)) = b * Power(b, i + n)
      BY <2>1, PowerFacts
    <2>4. ASSUME NEW p \in Nat \ {0} PROVE p <= b * p
      <3>1. b >= 1 /\ p >= 1
        OBVIOUS
      <3> QED
        BY <3>1
    <2>5. Power(b, i) <= Power(b, i + n)
      BY <1>2
    <2>6. b * Power(b, i + n) \in Int
      BY <2>2
    <2>7. Power(b, i) <= b * Power(b, i + n)
      BY <2>2, <2>4, <2>5, <2>6
    <2> QED
      BY <2>3, <2>7
  <1>3. \A n \in Nat : n \in T
    <2> HIDE DEF T
    <2> QED
      BY <1>1, <1>2, Upward
  <1>4. j - i \in Nat /\ i + (j - i) = j
    OBVIOUS
  <1> QED
    BY <1>3, <1>4

\* Seven bits are a digit to base 128.
LEMMA SevenBits ==
    ASSUME NEW n \in Nat
    PROVE  Power(2, 7 * n) = Power(128, n)
  <1> DEFINE T == {k \in Nat : Power(2, 7 * k) = Power(128, k)}
  <1>1. 0 \in T
    <2>1. Power(2, 0) = 1 /\ Power(128, 0) = 1
      BY PowerFacts
    <2> QED
      BY <2>1
  <1>2. ASSUME NEW k \in Nat, k \in T PROVE k + 1 \in T
    <2> DEFINE m == 7 * k
    <2>1. /\ m \in Nat /\ m + 1 \in Nat /\ m + 2 \in Nat /\ m + 3 \in Nat /\ m + 4 \in Nat
          /\ m + 5 \in Nat /\ m + 6 \in Nat
          /\ (m + 1) + 1 = m + 2 /\ (m + 2) + 1 = m + 3 /\ (m + 3) + 1 = m + 4
          /\ (m + 4) + 1 = m + 5 /\ (m + 5) + 1 = m + 6 /\ (m + 6) + 1 = 7 * (k + 1)
      OBVIOUS
    <2> HIDE DEF m
    <2>2. \A i \in Nat : Power(2, i) \in Nat /\ Power(2, i + 1) = 2 * Power(2, i)
      BY PowerFacts
    <2>3. Power(2, m + 1) = 2 * Power(2, m) /\ Power(2, m + 2) = 2 * Power(2, m + 1)
      BY <2>1, <2>2
    <2>4. Power(2, m + 3) = 2 * Power(2, m + 2) /\ Power(2, m + 4) = 2 * Power(2, m + 3)
      BY <2>1, <2>2
    <2>5. Power(2, m + 5) = 2 * Power(2, m + 4) /\ Power(2, m + 6) = 2 * Power(2, m + 5)
      BY <2>1, <2>2
    <2>6. Power(2, 7 * (k + 1)) = 2 * Power(2, m + 6) /\ Power(2, m) \in Nat
      BY <2>1, <2>2
    <2>7. Power(2, 7 * (k + 1)) = 128 * Power(2, m)
      <3> DEFINE p0 == Power(2, m)
                 p1 == Power(2, m + 1)
                 p2 == Power(2, m + 2)
                 p3 == Power(2, m + 3)
                 p4 == Power(2, m + 4)
                 p5 == Power(2, m + 5)
                 p6 == Power(2, m + 6)
                 p7 == Power(2, 7 * (k + 1))
      <3>1. /\ p1 = 2 * p0 /\ p2 = 2 * p1 /\ p3 = 2 * p2 /\ p4 = 2 * p3
            /\ p5 = 2 * p4 /\ p6 = 2 * p5 /\ p7 = 2 * p6 /\ p0 \in Nat
        BY <2>3, <2>4, <2>5, <2>6
      <3> HIDE DEF p0, p1, p2, p3, p4, p5, p6, p7
      <3>2. p7 = 128 * p0
        BY <3>1
      <3> QED
        BY <3>2 DEF p7, p0
    <2>8. Power(128, k + 1) = 128 * Power(128, k)
      BY PowerFacts
    <2> QED
      BY <1>2, <2>7, <2>8 DEF m
  <1>3. \A k \in Nat : k \in T
    <2> HIDE DEF T
    <2> QED
      BY <1>1, <1>2, Upward
  <1> QED
    BY <1>3

\* The powers of two at the edges of a type.
LEMMA EdgeFacts ==
    ASSUME NEW w \in Widths
    PROVE  Power(2, w - 1) \in Nat /\ Power(2, w - 1) > 0 /\ Power(2, w) = 2 * Power(2, w - 1)
  <1>1. w - 1 \in Nat /\ (w - 1) + 1 = w
    BY DEF Widths
  <1>2. Power(2, w - 1) \in Nat \ {0}
    BY <1>1, PowerFacts
  <1>3. Power(2, (w - 1) + 1) = 2 * Power(2, w - 1)
    BY <1>1, PowerFacts
  <1> QED
    BY <1>1, <1>2, <1>3

----------------------------------------------------------------------------
(* Zigzag. *)

\* A conversion leaves what fits alone and wraps what does not.
LEMMA Wrap ==
    ASSUME NEW m \in Nat, m > 0, NEW x \in Int
    PROVE  /\ 0 <= x /\ x < m => x % m = x
           /\ m <= x /\ x < 2 * m => x % m = x - m
           /\ x < 0 /\ 0 <= x + m => x % m = x + m
  OBVIOUS

\* The code of a number fits the unsigned type and tells the sign.
LEMMA ZigzagCode ==
    ASSUME NEW w \in Widths, NEW v \in Least(w)..Greatest(w)
    PROVE  /\ ZIGZAG_ENCODE(v, w) \in 0..Power(2, w) - 1
           /\ v >= 0 => ZIGZAG_ENCODE(v, w) = 2 * v
           /\ v < 0 => ZIGZAG_ENCODE(v, w) = 2 * (-v) - 1
  <1> DEFINE p == Power(2, w - 1)
             m == Power(2, w)
  <1>1. p \in Nat /\ p > 0 /\ m = 2 * p
    BY EdgeFacts
  <1>2. v \in -p..p - 1
    BY DEF Least, Greatest
  <1> HIDE DEF p, m
  <1>3. v >= 0 => 2 * v \in Int /\ 0 <= 2 * v /\ 2 * v < m
    BY <1>1, <1>2
  <1>4. v < 0 => 2 * (-v) - 1 \in Int /\ 0 <= 2 * (-v) - 1 /\ 2 * (-v) - 1 < m
    BY <1>1, <1>2
  <1>5. m \in Nat /\ m > 0
    BY <1>1
  <1>6. CASE v >= 0
    <2>1. (2 * v) % m = 2 * v
      BY <1>3, <1>5, <1>6, Wrap
    <2>2. ZIGZAG_ENCODE(v, w) = 2 * v
      BY <1>6, <2>1 DEF ZIGZAG_ENCODE, Unsigned, m
    <2> QED
      BY <1>3, <1>5, <1>6, <2>2 DEF m
  <1>7. CASE v < 0
    <2>1. (2 * (-v) - 1) % m = 2 * (-v) - 1
      BY <1>4, <1>5, <1>7, Wrap
    <2>2. ZIGZAG_ENCODE(v, w) = 2 * (-v) - 1
      BY <1>2, <1>7, <2>1 DEF ZIGZAG_ENCODE, Unsigned, m
    <2> QED
      BY <1>4, <1>5, <1>7, <2>2 DEF m
  <1> QED
    BY <1>2, <1>6, <1>7, <1>1

\* A conversion to the signed type.
LEMMA SignedFacts ==
    ASSUME NEW w \in Widths, NEW x \in Int
    PROVE  /\ 0 <= x /\ x < Power(2, w - 1) => Signed(x, w) = x
           /\ Power(2, w - 1) <= x /\ x < Power(2, w) => Signed(x, w) = x - Power(2, w)
           /\ -Power(2, w - 1) <= x /\ x < 0 => Signed(x, w) = x
  <1> DEFINE p == Power(2, w - 1)
             m == Power(2, w)
  <1>1. p \in Nat /\ p > 0 /\ m = 2 * p
    BY EdgeFacts
  <1>2. Signed(x, w) = IF x % m >= p THEN (x % m) - m ELSE x % m
    BY DEF Signed, Unsigned
  <1> HIDE DEF p, m
  <1>3. m \in Nat /\ m > 0
    BY <1>1
  <1>4. /\ 0 <= x /\ x < m => x % m = x
        /\ x < 0 /\ 0 <= x + m => x % m = x + m
    BY <1>3, Wrap
  <1>5. /\ 0 <= x /\ x < p => Signed(x, w) = x
        /\ p <= x /\ x < m => Signed(x, w) = x - m
        /\ -p <= x /\ x < 0 => Signed(x, w) = x
    BY <1>1, <1>2, <1>4
  <1> QED
    BY <1>5 DEF p, m

\* ZIGZAG_DECODE undoes ZIGZAG_ENCODE on every value of a type, the least one
\* too where the type is promoted to int, so that its negation is defined.
THEOREM ZigzagReadsBack ==
    \A w \in Widths : \A v \in Least(w)..Greatest(w) :
        Defined(v, w) => ZIGZAG_DECODE(ZIGZAG_ENCODE(v, w), w) = v
  <1> SUFFICES ASSUME NEW w \in Widths, NEW v \in Least(w)..Greatest(w), Defined(v, w)
               PROVE  ZIGZAG_DECODE(ZIGZAG_ENCODE(v, w), w) = v
    OBVIOUS
  <1> DEFINE p == Power(2, w - 1)
             m == Power(2, w)
             u == ZIGZAG_ENCODE(v, w)
             next == IF w < IntBits THEN u + 1 ELSE (u + 1) % m
  <1>1. p \in Nat /\ p > 0 /\ m = 2 * p
    BY EdgeFacts
  <1>2. v \in -p..p - 1 /\ (v # -p \/ w < IntBits)
    BY DEF Least, Greatest, Defined
  <1>3. u \in 0..m - 1 /\ (v >= 0 => u = 2 * v) /\ (v < 0 => u = 2 * (-v) - 1)
    BY ZigzagCode
  <1>4. ZIGZAG_DECODE(u, w) =
           IF u % 2 = 1 THEN Signed(-Signed(next \div 2, w), w) ELSE Signed(u \div 2, w)
    BY DEF ZIGZAG_DECODE, Unsigned
  <1>5. \A x \in Int : /\ 0 <= x /\ x < p => Signed(x, w) = x
                       /\ p <= x /\ x < m => Signed(x, w) = x - m
                       /\ -p <= x /\ x < 0 => Signed(x, w) = x
    BY SignedFacts
  <1> HIDE DEF p, m, u
  <1>6. CASE v >= 0
    <2>1. u % 2 # 1 /\ u \div 2 = v
      BY <1>2, <1>3, <1>6
    <2>2. 0 <= v /\ v < p /\ v \in Int
      BY <1>1, <1>2, <1>6
    <2> QED
      BY <1>4, <1>5, <2>1, <2>2 DEF u
  <1>7. CASE v < 0
    <2>1. u % 2 = 1 /\ u + 1 = 2 * (-v)
      BY <1>2, <1>3, <1>7
    <2>2. next = 2 * (-v)
      <3>1. CASE w < IntBits
        BY <2>1, <3>1
      <3>2. CASE ~(w < IntBits)
        <4>1. u + 1 \in Int /\ 0 <= u + 1 /\ u + 1 < m /\ m \in Nat /\ m > 0
          BY <1>1, <1>2, <1>3, <1>7, <2>1, <3>2
        <4>2. (u + 1) % m = u + 1
          BY <4>1, Wrap
        <4> QED
          BY <2>1, <3>2, <4>2
      <3> QED
        BY <3>1, <3>2
    <2> HIDE DEF next
    <2>3. next \div 2 = -v
      BY <1>2, <2>2
    <2>4. CASE v # -p
      <3>1. -v \in Int /\ 0 <= -v /\ -v < p
        BY <1>1, <1>2, <1>7, <2>4
      <3>2. Signed(-v, w) = -v
        BY <1>5, <3>1
      <3>3. -(-v) = v /\ v \in Int /\ -p <= v
        BY <1>1, <1>2
      <3>4. Signed(v, w) = v
        BY <1>5, <1>7, <3>3
      <3> QED
        BY <1>4, <2>1, <2>3, <3>2, <3>3, <3>4 DEF u
    <2>5. CASE v = -p
      <3>1. -v = p /\ p \in Int /\ p < m /\ p - m = -p /\ -(-p) = p
        BY <1>1, <2>5
      <3>2. Signed(p, w) = -p
        BY <1>1, <1>5, <3>1
      <3> QED
        BY <1>4, <2>1, <2>3, <2>5, <3>1, <3>2 DEF u
    <2> QED
      BY <2>4, <2>5
  <1> QED
    BY <1>1, <1>2, <1>6, <1>7

----------------------------------------------------------------------------
(* The variable length encoding. *)

\* The powers of 128.
LEMMA GroupPower ==
    ASSUME NEW k \in Nat
    PROVE  /\ Power(128, 0) = 1
           /\ Power(128, k) \in Nat /\ Power(128, k) > 0
           /\ Power(128, k + 1) \in Nat /\ Power(128, k + 1) = 128 * Power(128, k)
  <1>1. /\ Power(128, 0) = 1
        /\ Power(128, k) \in Nat \ {0} /\ Power(128, k + 1) = 128 * Power(128, k)
    BY PowerFacts
  <1> QED
    BY <1>1

\* The next group of seven bits extends the low end of a number.
LEMMA NextGroup ==
    ASSUME NEW u \in Nat, NEW b \in Nat, b > 0
    PROVE  (u % b) + ((u \div b) % 128) * b = u % (128 * b)
  OBVIOUS

\* A number below a power has a last group, with no empty one above it.
LEMMA LastBelow ==
    ASSUME NEW u \in Nat, NEW n \in Nat, u < Power(128, n + 1)
    PROVE  \E k \in 0..n : u < Power(128, k + 1) /\ (k = 0 \/ u >= Power(128, k))
  <1> DEFINE T == {k \in Nat : u < Power(128, k + 1)}
  <1>1. n \in T /\ T \in SUBSET Nat
    OBVIOUS
  <1>2. PICK k \in T : \A j \in T : k <= j
    <2> HIDE DEF T
    <2> QED
      BY <1>1, LeastNumber
  <1>3. k \in 0..n /\ u < Power(128, k + 1)
    BY <1>1, <1>2
  <1>4. ASSUME k # 0 PROVE u >= Power(128, k)
    <2>1. k - 1 \in Nat /\ (k - 1) + 1 = k /\ ~(k <= k - 1)
      BY <1>3, <1>4
    <2>2. ~(u < Power(128, (k - 1) + 1))
      BY <1>2, <2>1
    <2>3. Power(128, k) \in Nat
      BY <1>3, GroupPower
    <2> QED
      BY <2>1, <2>2, <2>3
  <1> QED
    BY <1>3, <1>4

\* The bytes a number may take.
LEMMA BuflenFacts ==
    ASSUME NEW w \in Widths
    PROVE  BUFLEN(w) \in Nat /\ BUFLEN(w) - 1 \in Nat /\ w <= 7 * BUFLEN(w)
  <1> DEFINE q == w \div 7
  <1>1. w \in Nat
    BY DEF Widths
  <1>2. q \in Nat /\ w < 7 * q + 7
    BY <1>1
  <1> HIDE DEF q
  <1>3. q + 1 \in Nat /\ (q + 1) - 1 \in Nat /\ w <= 7 * (q + 1)
    BY <1>1, <1>2
  <1> QED
    BY <1>3 DEF BUFLEN, q

\* The last group of a number of w bits fits a buffer of BUFLEN(w) bytes.
LEMMA LastGroup ==
    ASSUME NEW w \in Widths, NEW u \in 0..Power(2, w) - 1
    PROVE  \E k \in Nat : k < BUFLEN(w) /\ u < Power(128, k + 1) /\ (k = 0 \/ u >= Power(128, k))
  <1> DEFINE n == BUFLEN(w) - 1
  <1>1. w \in Nat /\ BUFLEN(w) \in Nat /\ n \in Nat /\ n + 1 = BUFLEN(w) /\ w <= 7 * BUFLEN(w)
    BY BuflenFacts DEF Widths
  <1> HIDE DEF n
  <1>2. Power(2, w) <= Power(2, 7 * BUFLEN(w))
    BY <1>1, PowersGrow
  <1>3. Power(2, 7 * BUFLEN(w)) = Power(128, n + 1)
    BY <1>1, SevenBits
  <1>4. Power(2, w) \in Nat /\ Power(128, n + 1) \in Nat
    BY <1>1, PowerFacts, GroupPower
  <1>5. u \in Nat /\ u < Power(128, n + 1)
    BY <1>2, <1>3, <1>4
  <1>6. PICK k \in 0..n : u < Power(128, k + 1) /\ (k = 0 \/ u >= Power(128, k))
    BY <1>1, <1>5, LastBelow
  <1>7. k \in Nat /\ k < BUFLEN(w)
    BY <1>1
  <1> QED
    BY <1>6, <1>7

\* Seven bits of u, and the bytes of a number whose last group is the k-th.
Group(u, k) == (u \div Power(128, k)) % 128
Encoded(u, k) == [i \in 1..k + 1 |-> IF i <= k THEN Group(u, i - 1) + 128 ELSE Group(u, i - 1)]

\* A group has seven bits, and the mark of a byte with more to come is above them.
LEMMA GroupFacts ==
    /\ \A u \in Nat : \A b \in Nat : b > 0 => (u \div b) % 128 \in 0..127
    /\ \A g \in 0..127 : g % 128 = g /\ (g + 128) % 128 = g /\ g < 128 /\ ~(g + 128 < 128)
  <1>1. ASSUME NEW u \in Nat, NEW b \in Nat, b > 0 PROVE (u \div b) % 128 \in 0..127
    <2>1. u \div b \in Int
      BY <1>1
    <2> DEFINE q == u \div b
    <2> HIDE DEF q
    <2>2. q % 128 \in 0..127
      BY <2>1 DEF q
    <2> QED
      BY <2>2 DEF q
  <1>2. ASSUME NEW g \in 0..127
        PROVE  g % 128 = g /\ (g + 128) % 128 = g /\ g < 128 /\ ~(g + 128 < 128)
    OBVIOUS
  <1> QED
    BY <1>1, <1>2

\* What the encoder writes.
LEMMA EncodeWrites ==
    ASSUME NEW w \in Widths, NEW u \in 0..Power(2, w) - 1, NEW len \in Nat, len >= BUFLEN(w)
    PROVE  \E k \in Nat : /\ k < BUFLEN(w) /\ u < Power(128, k + 1)
                           /\ VARIANT_ENCODE(u, w, len) = Encoded(u, k)
  <1> DEFINE Fits(k) == u < Power(128, k + 1) /\ (k = 0 \/ u >= Power(128, k))
             last == CHOOSE k \in 0..BUFLEN(w) : Fits(k)
  <1>1. u \in Nat
    <2>1. Power(2, w) \in Nat
      BY PowerFacts DEF Widths
    <2> QED
      BY <2>1
  <1>2. PICK n \in Nat : n < BUFLEN(w) /\ Fits(n)
    BY LastGroup
  <1>3. BUFLEN(w) \in Nat
    BY BuflenFacts
  <1>4. n \in 0..BUFLEN(w)
    BY <1>2, <1>3
  <1>5. last \in 0..BUFLEN(w) /\ Fits(last)
    <2> HIDE DEF Fits
    <2> QED
      BY <1>2, <1>4
  <1>6. VARIANT_ENCODE(u, w, len) = Encoded(u, last)
    <2>1. ~(len < BUFLEN(w))
      BY <1>3
    <2> QED
      BY <2>1, Zenon DEF VARIANT_ENCODE, Encoded, Group, Fits, last
  <1> HIDE DEF last
  <1>7. last <= n
    <2> SUFFICES ASSUME ~(last <= n) PROVE FALSE
      OBVIOUS
    <2>1. last \in Nat /\ n + 1 \in Nat /\ n + 1 <= last /\ last # 0
      BY <1>3, <1>5
    <2>2. Power(128, n + 1) <= Power(128, last)
      BY <2>1, PowersGrow
    <2>3. u < Power(128, n + 1) /\ u >= Power(128, last)
      BY <1>2, <1>5, <2>1
    <2>4. Power(128, n + 1) \in Nat /\ Power(128, last) \in Nat
      BY <2>1, GroupPower
    <2> QED
      BY <1>1, <2>2, <2>3, <2>4
  <1>8. last \in Nat /\ last < BUFLEN(w)
    BY <1>2, <1>3, <1>5, <1>7
  <1> QED
    BY <1>5, <1>6, <1>8

\* Nothing of a number is below its first group.
LEMMA LowEndZero ==
    ASSUME NEW u \in Nat
    PROVE  u % Power(128, 0) = 0
  <1>1. Power(128, 0) = 1
    BY GroupPower
  <1> QED
    BY <1>1

\* The byte after the low end of a number extends it.
LEMMA LowEndStep ==
    ASSUME NEW u \in Nat, NEW k \in Nat, NEW i \in 0..k
    PROVE  (u % Power(128, i)) + (Encoded(u, k)[i + 1] % 128) * Power(128, i) = u % Power(128, i + 1)
  <1> DEFINE b == Power(128, i)
             g == (u \div b) % 128
  <1>1. i \in Nat /\ (i + 1) - 1 = i /\ i + 1 \in 1..k + 1
    OBVIOUS
  <1>2. b \in Nat /\ b > 0 /\ Power(128, i + 1) = 128 * b
    BY <1>1, GroupPower
  <1>3. Group(u, i) = g
    BY DEF Group
  <1>4. Encoded(u, k)[i + 1] = IF i + 1 <= k THEN g + 128 ELSE g
    BY <1>1, <1>3 DEF Encoded
  <1>5. (u % b) + g * b = u % (128 * b)
    <2> HIDE DEF b
    <2> QED
      BY <1>2, NextGroup
  <1>6. g \in 0..127
    <2> HIDE DEF b
    <2> QED
      BY <1>2, GroupFacts
  <1> HIDE DEF g
  <1>7. g % 128 = g /\ (g + 128) % 128 = g
    BY <1>6, GroupFacts
  <1>8. Encoded(u, k)[i + 1] % 128 = g
    BY <1>4, <1>7, Zenon
  <1> HIDE DEF b
  <1>9. (u % b) + (Encoded(u, k)[i + 1] % 128) * b = u % Power(128, i + 1)
    BY <1>2, <1>5, <1>8, Zenon
  <1> QED
    BY <1>9 DEF b

\* The same, counted from the byte.
LEMMA LowEndBefore ==
    ASSUME NEW u \in Nat, NEW k \in Nat, NEW i \in 1..k + 1
    PROVE  (u % Power(128, i - 1)) + (Encoded(u, k)[i] % 128) * Power(128, i - 1) = u % Power(128, i)
  <1>1. \E n \in 0..k : i = n + 1 /\ i - 1 = n
    <2> DEFINE n == i - 1
    <2>1. n \in 0..k /\ i = n + 1
      OBVIOUS
    <2> QED
      BY <2>1
  <1>2. PICK n \in 0..k : i = n + 1 /\ i - 1 = n
    BY <1>1
  <1>3. (u % Power(128, n)) + (Encoded(u, k)[n + 1] % 128) * Power(128, n) = u % Power(128, n + 1)
    BY LowEndStep
  <1> QED
    BY <1>2, <1>3, Zenon

\* The recursion of the decoder's sums.
IsSum(f, u, k) ==
    f = [i \in 0..k + 1 |->
            IF i = 0 THEN 0 ELSE f[i - 1] + (Encoded(u, k)[i] % 128) * Power(128, i - 1)]

LowEnds(f, u, k) == \A i \in 0..k + 1 : f[i] = u % Power(128, i)

\* The sums the decoder goes through are the low ends of the number.
LEMMA SumsAreLowEnds ==
    ASSUME NEW u \in Nat, NEW k \in Nat, NEW sum, IsSum(sum, u, k)
    PROVE  LowEnds(sum, u, k)
  <1>1. sum[0] = u % Power(128, 0)
    <2>1. sum[0] = 0
      BY DEF IsSum
    <2> QED
      BY <2>1, LowEndZero
  <1>2. ASSUME NEW i \in 0..k, sum[i] = u % Power(128, i) PROVE sum[i + 1] = u % Power(128, i + 1)
    <2>1. i + 1 \in 0..k + 1 /\ i + 1 # 0 /\ (i + 1) - 1 = i
      OBVIOUS
    <2>2. sum[i + 1] = sum[i] + (Encoded(u, k)[i + 1] % 128) * Power(128, i)
      BY <2>1 DEF IsSum
    <2>3. (u % Power(128, i)) + (Encoded(u, k)[i + 1] % 128) * Power(128, i) = u % Power(128, i + 1)
      BY LowEndStep
    <2> QED
      BY <1>2, <2>2, <2>3, Zenon
  <1> DEFINE T == {i \in Nat : i <= k + 1 => sum[i] = u % Power(128, i)}
  <1>3. 0 \in T
    BY <1>1
  <1>4. \A i \in Nat : i \in T => i + 1 \in T
    <2> SUFFICES ASSUME NEW i \in Nat, i \in T, i + 1 <= k + 1
                 PROVE  sum[i + 1] = u % Power(128, i + 1)
      OBVIOUS
    <2>1. i \in 0..k /\ i <= k + 1
      OBVIOUS
    <2>2. sum[i] = u % Power(128, i)
      BY <2>1
    <2> QED
      BY <1>2, <2>1, <2>2
  <1>5. \A i \in Nat : i \in T
    <2> HIDE DEF T
    <2> QED
      BY <1>3, <1>4, Upward
  <1>6. \A i \in 0..k + 1 : sum[i] = u % Power(128, i)
    <2>1. \A i \in 0..k + 1 : i \in Nat /\ i <= k + 1
      OBVIOUS
    <2> QED
      BY <1>5, <2>1
  <1> QED
    BY <1>6 DEF LowEnds

\* What the decoder makes of those bytes.
LEMMA DecodeSums ==
    ASSUME NEW w, NEW u \in Nat, NEW k \in Nat, k < BUFLEN(w), BUFLEN(w) \in Nat
    PROVE  VARIANT_DECODE(Encoded(u, k), w) = Unsigned(u % Power(128, k + 1), w)
  <1> DEFINE bytes == Encoded(u, k)
             limit == IF Len(bytes) < BUFLEN(w) THEN Len(bytes) ELSE BUFLEN(w)
             ends == {i \in 1..limit : bytes[i] < 128}
             last == CHOOSE i \in ends : \A j \in ends : i <= j
             Step(f, i) == IF i = 0 THEN 0
                           ELSE f[i - 1] + (Encoded(u, k)[i] % 128) * Power(128, i - 1)
             sum == CHOOSE f : f = [i \in 0..limit |-> Step(f, i)]
  <1>1. VARIANT_DECODE(bytes, w) = IF ends = {} THEN -1 ELSE Unsigned(sum[last], w)
    BY DEF VARIANT_DECODE
  <1>2. Len(bytes) = k + 1
    BY DEF Encoded
  <1>3. limit = k + 1
    <2> HIDE DEF bytes
    <2> QED
      BY <1>2
  <1>4. ASSUME NEW i \in 1..k + 1 PROVE bytes[i] < 128 <=> i = k + 1
    <2>1. i - 1 \in Nat /\ (i <= k <=> i # k + 1)
      OBVIOUS
    <2>2. bytes[i] = IF i <= k THEN Group(u, i - 1) + 128 ELSE Group(u, i - 1)
      BY DEF Encoded
    <2> HIDE DEF bytes
    <2>3. Power(128, i - 1) \in Nat /\ Power(128, i - 1) > 0
      BY <2>1, GroupPower
    <2>4. Group(u, i - 1) \in 0..127
      BY <2>3, GroupFacts DEF Group
    <2>5. Group(u, i - 1) < 128 /\ ~(Group(u, i - 1) + 128 < 128)
      BY <2>4, GroupFacts
    <2> QED
      BY <2>1, <2>2, <2>5, Zenon
  <1>5. ends = {k + 1}
    <2> HIDE DEF bytes
    <2>1. ends = {i \in 1..k + 1 : bytes[i] < 128}
      BY <1>3
    <2> QED
      BY <1>4, <2>1
  <1> HIDE DEF bytes, limit, ends
  <1>6. last = k + 1
    BY <1>5
  <1>7. \E f : f = [i \in 0..k + 1 |-> Step(f, i)]
    <2> DEFINE g == [i \in 0..k + 1 |-> u % Power(128, i)]
    <2>1. ASSUME NEW i \in 0..k + 1 PROVE u % Power(128, i) = Step(g, i)
      <3>1. CASE i = 0
        <4>1. u % Power(128, 0) = 0
          BY LowEndZero
        <4> QED
          BY <3>1, <4>1
      <3>2. CASE i # 0
        <4>1. i \in 1..k + 1 /\ i - 1 \in 0..k + 1
          BY <3>2
        <4>2. (u % Power(128, i - 1)) + (Encoded(u, k)[i] % 128) * Power(128, i - 1) = u % Power(128, i)
          BY <4>1, LowEndBefore
        <4>3. g[i - 1] = u % Power(128, i - 1)
          BY <4>1
        <4> HIDE DEF g
        <4>4. g[i - 1] + (Encoded(u, k)[i] % 128) * Power(128, i - 1) = u % Power(128, i)
          BY <4>2, <4>3, Zenon
        <4> QED
          BY <3>2, <4>4
      <3> QED
        BY <3>1, <3>2
    <2>2. g = [i \in 0..k + 1 |-> Step(g, i)]
      <3> HIDE DEF Step
      <3> QED
        BY <2>1, Zenon
    <2> QED
      BY <2>2
  <1>8. sum = [i \in 0..k + 1 |-> Step(sum, i)]
    <2> HIDE DEF Step
    <2> QED
      BY <1>3, <1>7, Zenon
  <1>9. sum[k + 1] = u % Power(128, k + 1)
    <2> HIDE DEF sum
    <2>1. IsSum(sum, u, k)
      BY <1>8, Zenon DEF IsSum
    <2>2. LowEnds(sum, u, k)
      BY <2>1, SumsAreLowEnds
    <2>3. k + 1 \in 0..k + 1
      OBVIOUS
    <2> QED
      BY <2>2, <2>3, Zenon DEF LowEnds
  <1> QED
    BY <1>1, <1>5, <1>6, <1>9 DEF bytes

\* The decoder undoes the encoder, given a buffer long enough, on every number
\* of every width.
THEOREM VariantReadsBack ==
    \A w \in Widths : \A u \in 0..Power(2, w) - 1 : \A len \in Nat :
        len >= BUFLEN(w) => VARIANT_DECODE(VARIANT_ENCODE(u, w, len), w) = u
  <1> SUFFICES ASSUME NEW w \in Widths, NEW u \in 0..Power(2, w) - 1, NEW len \in Nat, len >= BUFLEN(w)
               PROVE  VARIANT_DECODE(VARIANT_ENCODE(u, w, len), w) = u
    OBVIOUS
  <1>1. u \in Nat /\ Power(2, w) \in Nat /\ Power(2, w) > 0 /\ u < Power(2, w)
    <2>1. Power(2, w) \in Nat /\ Power(2, w) > 0
      BY EdgeFacts
    <2> QED
      BY <2>1
  <1>2. PICK k \in Nat : /\ k < BUFLEN(w) /\ u < Power(128, k + 1)
                          /\ VARIANT_ENCODE(u, w, len) = Encoded(u, k)
    BY EncodeWrites
  <1>3. VARIANT_DECODE(Encoded(u, k), w) = Unsigned(u % Power(128, k + 1), w)
    <2>1. BUFLEN(w) \in Nat
      BY BuflenFacts
    <2> QED
      BY <1>1, <1>2, <2>1, DecodeSums
  <1>4. Power(128, k + 1) \in Nat /\ Power(128, k + 1) > 0
    <2>1. /\ Power(128, k) > 0 /\ Power(128, k) \in Nat
          /\ Power(128, k + 1) \in Nat /\ Power(128, k + 1) = 128 * Power(128, k)
      BY GroupPower
    <2> QED
      BY <2>1
  <1>5. u % Power(128, k + 1) = u
    BY <1>1, <1>2, <1>4, Wrap
  <1>6. u % Power(2, w) = u
    BY <1>1, Wrap
  <1> QED
    BY <1>2, <1>3, <1>5, <1>6 DEF Unsigned

\* A signed number takes both ways: zigzag, then the bytes, and back.
COROLLARY SignedReadsBack ==
    \A w \in Widths : \A v \in Least(w)..Greatest(w) : \A len \in Nat :
        Defined(v, w) /\ len >= BUFLEN(w) =>
            ZIGZAG_DECODE(VARIANT_DECODE(VARIANT_ENCODE(ZIGZAG_ENCODE(v, w), w, len), w), w) = v
  <1> SUFFICES ASSUME NEW w \in Widths, NEW v \in Least(w)..Greatest(w), NEW len \in Nat,
                      Defined(v, w), len >= BUFLEN(w)
               PROVE  ZIGZAG_DECODE(VARIANT_DECODE(VARIANT_ENCODE(ZIGZAG_ENCODE(v, w), w, len), w), w) = v
    OBVIOUS
  <1>1. ZIGZAG_ENCODE(v, w) \in 0..Power(2, w) - 1
    BY ZigzagCode
  <1>2. VARIANT_DECODE(VARIANT_ENCODE(ZIGZAG_ENCODE(v, w), w, len), w) = ZIGZAG_ENCODE(v, w)
    BY <1>1, VariantReadsBack
  <1> QED
    BY <1>2, ZigzagReadsBack

----------------------------------------------------------------------------
(* Least and greatest numbers, numerals and parts of sequences. *)

\* What Min chooses.
LEMMA MinFacts ==
    ASSUME NEW S \in SUBSET Nat, S # {}
    PROVE  Min(S) \in S /\ \A k \in S : Min(S) <= k
  <1>1. \E m \in S : \A k \in S : m <= k
    BY LeastNumber
  <1> QED
    BY <1>1 DEF Min

\* What Max chooses.
LEMMA MaxFacts ==
    ASSUME NEW n \in Nat, NEW S \in SUBSET (0..n), S # {}
    PROVE  Max(S) \in S /\ \A k \in S : Max(S) >= k
  <1> DEFINE R == {n - k : k \in S}
  <1>1. R \in SUBSET Nat /\ R # {}
    <2>1. \A k \in S : n - k \in Nat
      OBVIOUS
    <2>2. R \in SUBSET Nat
      BY <2>1
    <2> QED
      BY <2>2
  <1>2. PICK m \in R : \A k \in R : m <= k
    <2> HIDE DEF R
    <2> QED
      BY <1>1, LeastNumber
  <1>3. PICK g \in S : m = n - g
    BY <1>2
  <1>4. ASSUME NEW k \in S PROVE g >= k
    <2>1. n - k \in R
      OBVIOUS
    <2>2. n - g <= n - k
      BY <1>2, <1>3, <2>1
    <2> QED
      BY <2>2
  <1> QED
    BY <1>4 DEF Max

\* The lesser of two numbers.
LEMMA MinOfTwo ==
    ASSUME NEW a \in Nat, NEW b \in Nat
    PROVE  Min({a, b}) = IF a <= b THEN a ELSE b
  <1>1. {a, b} \in SUBSET Nat /\ {a, b} # {}
    OBVIOUS
  <1>2. Min({a, b}) \in {a, b} /\ \A k \in {a, b} : Min({a, b}) <= k
    BY <1>1, MinFacts
  <1> QED
    BY <1>2

\* The recursion of Numeral.
IsNumeral(f, digits, base) ==
    f = [i \in 0..Len(digits) |-> IF i = 0 THEN 0 ELSE base * f[i - 1] + digits[i]]

\* Digits write a number, each one after what those before it write.
LEMMA NumeralFacts ==
    ASSUME NEW digits \in Seq(Nat), NEW base \in Nat
    PROVE  \E f \in [0..Len(digits) -> Nat] :
              IsNumeral(f, digits, base) /\ Numeral(digits, base) = f[Len(digits)]
  <1> DEFINE n == Len(digits)
             Body(f) == [i \in 0..n |-> IF i = 0 THEN 0 ELSE base * f[i - 1] + digits[i]]
             value == CHOOSE f : f = Body(f)
             g == [i \in Nat |-> [v \in Nat |-> IF i + 1 \in 1..n THEN base * v + digits[i + 1] ELSE 0]]
  <1>1. n \in Nat /\ \A i \in 1..n : digits[i] \in Nat
    BY LenProperties, ElementOfSeq
  <1> HIDE DEF n
  <1>2. g \in [Nat -> [Nat -> Nat]]
    <2>1. \A i, v \in Nat : (IF i + 1 \in 1..n THEN base * v + digits[i + 1] ELSE 0) \in Nat
      BY <1>1
    <2> QED
      BY <2>1
  <1>3. PICK p : Iterated(p, Nat, g, 0)
    <2> HIDE DEF g
    <2>1. 0 \in Nat
      OBVIOUS
    <2> QED
      BY <1>2, <2>1, Iterates
  <1>4. p \in [Nat -> Nat] /\ p[0] = 0
    BY <1>3 DEF Iterated
  <1>5. ASSUME NEW i \in 1..n PROVE p[i] = base * p[i - 1] + digits[i]
    <2>1. i - 1 \in Nat /\ (i - 1) + 1 = i
      BY <1>1
    <2>2. p[i] = g[i - 1][p[i - 1]]
      <3> HIDE DEF g
      <3>1. p[(i - 1) + 1] = g[i - 1][p[i - 1]]
        BY <1>3, <2>1 DEF Iterated
      <3> QED
        BY <2>1, <3>1
    <2>3. p[i - 1] \in Nat
      BY <1>4, <2>1
    <2>4. g[i - 1][p[i - 1]] = base * p[i - 1] + digits[i]
      BY <2>1, <2>3
    <2> QED
      BY <2>2, <2>4
  <1> DEFINE h == [i \in 0..n |-> p[i]]
  <1>6. h \in [0..n -> Nat]
    BY <1>1, <1>4
  <1>7. h = Body(h)
    <2>1. ASSUME NEW i \in 0..n PROVE h[i] = IF i = 0 THEN 0 ELSE base * h[i - 1] + digits[i]
      <3>1. CASE i = 0
        BY <1>4, <3>1
      <3>2. CASE i # 0
        <4>1. i \in 1..n /\ i - 1 \in 0..n
          BY <1>1, <3>2
        <4>2. h[i] = p[i] /\ h[i - 1] = p[i - 1]
          BY <4>1
        <4> HIDE DEF h
        <4> QED
          BY <1>5, <3>2, <4>1, <4>2
      <3> QED
        BY <3>1, <3>2
    <2>2. h \in [0..n -> Nat]
      BY <1>6
    <2> HIDE DEF h
    <2> QED
      BY <2>1, <2>2
  <1> HIDE DEF h, g
  <1>8. value = Body(value)
    <2> HIDE DEF Body
    <2> QED
      BY <1>7, Zenon
  <1>9. Numeral(digits, base) = value[n]
    BY Zenon DEF Numeral, value, Body, n
  <1> HIDE DEF value
  <1>10. ASSUME NEW i \in Nat, i <= n => value[i] = h[i], i + 1 <= n PROVE value[i + 1] = h[i + 1]
    <2>1. i + 1 \in 0..n /\ i \in 0..n /\ i + 1 # 0 /\ (i + 1) - 1 = i
      BY <1>1, <1>10
    <2>2. value[i + 1] = base * value[i] + digits[i + 1]
      BY <1>8, <2>1
    <2>3. h[i + 1] = base * h[i] + digits[i + 1]
      BY <1>7, <2>1
    <2> QED
      BY <1>10, <2>1, <2>2, <2>3
  <1> DEFINE T == {i \in Nat : i <= n => value[i] = h[i]}
  <1>11. 0 \in T
    <2>1. 0 \in 0..n
      BY <1>1
    <2> QED
      BY <1>7, <1>8, <2>1
  <1>12. \A i \in Nat : i \in T => i + 1 \in T
    BY <1>10
  <1>13. \A i \in Nat : i \in T
    <2> HIDE DEF T
    <2> QED
      BY <1>11, <1>12, Upward
  <1>14. value[n] = h[n]
    BY <1>1, <1>13
  <1>15. IsNumeral(h, digits, base)
    BY <1>7, Zenon DEF IsNumeral, n
  <1> QED
    BY <1>6, <1>9, <1>14, <1>15 DEF n

\* Digits write a number.
LEMMA NumeralType ==
    ASSUME NEW digits \in Seq(Nat), NEW base \in Nat
    PROVE  Numeral(digits, base) \in Nat
  <1>1. PICK f \in [0..Len(digits) -> Nat] : Numeral(digits, base) = f[Len(digits)]
    BY NumeralFacts
  <1>2. Len(digits) \in 0..Len(digits)
    BY LenProperties
  <1> QED
    BY <1>1, <1>2

\* Data of which more may come.
Extends(data, more) ==
    /\ Len(data) <= Len(more)
    /\ \A i \in 1..Len(data) : more[i] = data[i]

\* A part of a text.
LEMMA PartType ==
    ASSUME NEW S, NEW text \in Seq(S), NEW a \in Nat \ {0}, NEW b \in Int, b <= Len(text)
    PROVE  /\ SubSeq(text, a, b) \in Seq(S)
           /\ Len(SubSeq(text, a, b)) = IF a <= b THEN b - a + 1 ELSE 0
           /\ \A i \in 1..b - a + 1 : SubSeq(text, a, b)[i] = text[a + i - 1]
  <1>1. \A i \in a..b : text[i] \in S
    <2> SUFFICES ASSUME NEW i \in a..b PROVE text[i] \in S
      OBVIOUS
    <2>1. i \in 1..Len(text)
      BY LenProperties
    <2> QED
      BY <2>1, ElementOfSeq
  <1>2. a \in Int
    OBVIOUS
  <1> QED
    BY <1>1, <1>2, SubSeqProperties

\* A part that has come stays as it is.
LEMMA PartStays ==
    ASSUME NEW S, NEW data \in Seq(S), NEW more \in Seq(S), Extends(data, more),
           NEW a \in Nat \ {0}, NEW b \in Int, b <= Len(data)
    PROVE  SubSeq(more, a, b) = SubSeq(data, a, b)
  <1>1. Len(data) \in Nat /\ Len(more) \in Nat /\ b <= Len(more)
    BY LenProperties DEF Extends
  <1> DEFINE s == SubSeq(data, a, b)
             t == SubSeq(more, a, b)
  <1>2. /\ s \in Seq(S) /\ Len(s) = IF a <= b THEN b - a + 1 ELSE 0
        /\ \A i \in 1..b - a + 1 : s[i] = data[a + i - 1]
    BY PartType
  <1>3. /\ t \in Seq(S) /\ Len(t) = IF a <= b THEN b - a + 1 ELSE 0
        /\ \A i \in 1..b - a + 1 : t[i] = more[a + i - 1]
    BY <1>1, PartType
  <1> HIDE DEF s, t
  <1>4. ASSUME NEW i \in 1..Len(s) PROVE s[i] = t[i]
    <2>1. i \in 1..b - a + 1 /\ a + i - 1 \in 1..Len(data)
      BY <1>1, <1>2
    <2>2. more[a + i - 1] = data[a + i - 1]
      BY <2>1 DEF Extends
    <2> QED
      BY <1>2, <1>3, <2>1, <2>2
  <1>5. s = t
    BY <1>2, <1>3, <1>4, SeqEqual
  <1> QED
    BY <1>5 DEF s, t

----------------------------------------------------------------------------
(* Lines. *)

\* An end of line begins at position i.
EolAt(text, i) == i \in 1..Len(text) - 1 /\ text[i] = CR /\ text[i + 1] = LF

\* CRLF finds the first end of line behind n, and it is within the text.
LEMMA LineFacts ==
    ASSUME NEW S, NEW text \in Seq(S), NEW n \in Nat
    PROVE  \/ CRLF(text, n) = -1 /\ \A i \in n + 1..Len(text) - 1 : ~EolAt(text, i)
           \/ /\ CRLF(text, n) \in Nat
              /\ n + CRLF(text, n) + 2 <= Len(text)
              /\ EolAt(text, n + CRLF(text, n) + 1)
              /\ \A i \in n + 1..n + CRLF(text, n) : ~EolAt(text, i)
  <1> DEFINE at == {i \in n + 1..Len(text) - 1 : text[i] = CR /\ text[i + 1] = LF}
  <1>1. Len(text) \in Nat
    BY LenProperties
  <1>2. CRLF(text, n) = IF at = {} THEN -1 ELSE Min(at) - 1 - n
    BY DEF CRLF
  <1>3. \A i \in n + 1..Len(text) - 1 : EolAt(text, i) <=> i \in at
    BY <1>1 DEF EolAt
  <1>4. at \subseteq n + 1..Len(text) - 1
    OBVIOUS
  <1> HIDE DEF at
  <1>5. CASE at = {}
    BY <1>2, <1>3, <1>5
  <1>6. CASE at # {}
    <2>1. at \in SUBSET Nat
      BY <1>1, <1>4
    <2>2. Min(at) \in at /\ \A k \in at : Min(at) <= k
      BY <1>6, <2>1, MinFacts
    <2> DEFINE m == Min(at)
    <2>3. m \in n + 1..Len(text) - 1 /\ CRLF(text, n) = m - 1 - n
      BY <1>2, <1>4, <1>6, <2>2
    <2>4. \A k \in at : m <= k
      BY <2>2
    <2>5. m \in at
      BY <2>2
    <2> HIDE DEF m
    <2>6. EolAt(text, m)
      BY <1>3, <2>3, <2>5
    <2>7. CRLF(text, n) \in Nat /\ n + CRLF(text, n) + 2 <= Len(text) /\ n + CRLF(text, n) + 1 = m
      BY <1>1, <2>3
    <2>8. ASSUME NEW i \in n + 1..n + CRLF(text, n) PROVE ~EolAt(text, i)
      <3>1. i \in n + 1..Len(text) - 1 /\ i < m
        BY <1>1, <2>3
      <3>2. i \notin at
        BY <2>3, <2>4, <3>1
      <3> QED
        BY <1>3, <3>1, <3>2
    <2> QED
      BY <2>6, <2>7, <2>8
  <1> QED
    BY <1>5, <1>6

\* The two numbers that a length can be between.
LEMMA LineRange ==
    ASSUME NEW S, NEW text \in Seq(S), NEW n \in Nat
    PROVE  \/ CRLF(text, n) = -1
           \/ CRLF(text, n) \in Nat /\ n + CRLF(text, n) + 2 <= Len(text)
  BY LineFacts

\* The length of the line is where the first end of line is.
LEMMA LineIs ==
    ASSUME NEW S, NEW text \in Seq(S), NEW n \in Nat, NEW len \in Nat,
           EolAt(text, n + len + 1), \A i \in n + 1..n + len : ~EolAt(text, i)
    PROVE  CRLF(text, n) = len
  <1>1. Len(text) \in Nat
    BY LenProperties
  <1>2. n + len + 1 \in n + 1..Len(text) - 1
    BY <1>1 DEF EolAt
  <1>3. CRLF(text, n) # -1
    <2>1. \E i \in n + 1..Len(text) - 1 : EolAt(text, i)
      BY <1>2
    <2> QED
      BY <2>1, LineFacts
  <1> DEFINE c == CRLF(text, n)
  <1>4. /\ c \in Nat /\ EolAt(text, n + c + 1)
        /\ \A i \in n + 1..n + c : ~EolAt(text, i)
    BY <1>3, LineFacts
  <1> HIDE DEF c
  <1>5. ~(c < len)
    <2>1. c < len => n + c + 1 \in n + 1..n + len
      BY <1>4
    <2> QED
      BY <1>4, <2>1
  <1>6. ~(len < c)
    <2>1. len < c => n + len + 1 \in n + 1..n + c
      BY <1>4
    <2> QED
      BY <1>4, <2>1
  <1>7. c = len
    BY <1>4, <1>5, <1>6
  <1> QED
    BY <1>7 DEF c

\* An end of line in what has come stays there, and no other comes before it.
LEMMA EolStays ==
    ASSUME NEW S, NEW data \in Seq(S), NEW more \in Seq(S), Extends(data, more),
           NEW i \in 1..Len(data) - 1
    PROVE  EolAt(more, i) <=> EolAt(data, i)
  <1>1. Len(data) \in Nat /\ Len(more) \in Nat /\ Len(data) <= Len(more)
    BY LenProperties DEF Extends
  <1>2. i \in 1..Len(data) /\ i + 1 \in 1..Len(data) /\ i \in 1..Len(more) - 1
    BY <1>1
  <1>3. more[i] = data[i] /\ more[i + 1] = data[i + 1]
    BY <1>2 DEF Extends
  <1> QED
    BY <1>2, <1>3 DEF EolAt

\* A line that has come stays as it is.
LEMMA LineStays ==
    ASSUME NEW S, NEW data \in Seq(S), NEW more \in Seq(S), Extends(data, more),
           NEW n \in Nat, CRLF(data, n) # -1
    PROVE  CRLF(more, n) = CRLF(data, n)
  <1> DEFINE len == CRLF(data, n)
  <1>1. /\ len \in Nat /\ n + len + 2 <= Len(data)
        /\ EolAt(data, n + len + 1)
        /\ \A i \in n + 1..n + len : ~EolAt(data, i)
    BY LineFacts
  <1>2. Len(data) \in Nat
    BY LenProperties
  <1> HIDE DEF len
  <1>3. EolAt(more, n + len + 1)
    <2>1. n + len + 1 \in 1..Len(data) - 1
      BY <1>1, <1>2
    <2> QED
      BY <1>1, <2>1, EolStays
  <1>4. ASSUME NEW i \in n + 1..n + len PROVE ~EolAt(more, i)
    <2>1. i \in 1..Len(data) - 1
      BY <1>1, <1>2
    <2> QED
      BY <1>1, <2>1, EolStays
  <1>5. CRLF(more, n) = len
    BY <1>1, <1>3, <1>4, LineIs
  <1> QED
    BY <1>5 DEF len

\* An empty line, when it is there.
LEMMA EmptyLine ==
    ASSUME NEW S, NEW data \in Seq(S), NEW more \in Seq(S), Extends(data, more),
           NEW n \in Nat, n + 2 <= Len(data), CRLF(more, n) = 0
    PROVE  CRLF(data, n) = 0
  <1>1. Len(data) \in Nat /\ n + 0 + 1 = n + 1 /\ n + 1 \in 1..Len(data) - 1
    BY LenProperties
  <1>2. EolAt(more, n + 0 + 1)
    <2>1. 0 # -1
      OBVIOUS
    <2> QED
      BY <2>1, LineFacts
  <1>3. EolAt(data, n + 0 + 1)
    BY <1>1, <1>2, EolStays
  <1>4. 0 \in Nat /\ \A i \in n + 1..n + 0 : ~EolAt(data, i)
    OBVIOUS
  <1> QED
    BY <1>3, <1>4, LineIs

----------------------------------------------------------------------------
(* HTTP: what the helpers return. *)

\* The prover does not know that a literal is a string.
Symbols ==
    STRING \cup {"0", "REQUEST", "RESPONSE", "GET", "POST", INVALID,
                 "HTTP/1.0", "HTTP/1.1", HTTP_ERR}
Text == Seq(Symbols)
HeaderMap == UNION {[K -> Text] : K \in SUBSET Text}
HttpMsg ==
    [type : Symbols, version : Symbols, headers : HeaderMap, body : Text,
     method : Symbols, uri : Text, state : Nat]

\* A sequence over natural numbers.
LEMMA NatSeq ==
    ASSUME NEW n \in Nat, NEW f \in [1..n -> Nat]
    PROVE  f \in Seq(Nat)
  BY SeqDef

\* The table of digits.
LEMMA DigitTable == DOMAIN Digit = 1..10
  BY DEF Digit

\* The table of hexadecimal digits.
LEMMA HexTable == Len(Hex) \in Nat /\ DOMAIN Hex = 1..Len(Hex)
  <1> DEFINE S == {"0", "1", "2", "3", "4", "5", "6", "7", "8", "9",
                   "a", "b", "c", "d", "e", "f", "A", "B", "C", "D", "E", "F"}
  <1>1. <<"a", "b", "c", "d", "e", "f", "A", "B", "C", "D", "E", "F">> \in Seq(S)
    OBVIOUS
  <1>2. Digit \in Seq(S)
    BY DEF Digit
  <1> HIDE DEF S
  <1>3. Hex \in Seq(S)
    BY <1>1, <1>2, ConcatProperties DEF Hex
  <1> QED
    BY <1>3, LenProperties

\* A digit has a value.
LEMMA DigitType ==
    ASSUME NEW c, IsDigit(c)
    PROVE  DigitValue(c) \in Nat
  <1> DEFINE i == CHOOSE i \in DOMAIN Digit : Digit[i] = c
  <1>1. i \in DOMAIN Digit
    BY DEF IsDigit
  <1>2. DigitValue(c) = i - 1
    BY DEF DigitValue
  <1>3. DOMAIN Digit = 1..10
    BY DigitTable
  <1> HIDE DEF i
  <1> QED
    BY <1>1, <1>2, <1>3

\* A hexadecimal digit has a value.
LEMMA HexType ==
    ASSUME NEW c, Contains(Hex, c)
    PROVE  HexValue(c) \in Nat
  <1> DEFINE i == CHOOSE i \in DOMAIN Hex : Hex[i] = c
  <1>1. DOMAIN Hex = 1..Len(Hex) /\ Len(Hex) \in Nat
    BY HexTable
  <1>2. i \in DOMAIN Hex
    BY <1>1 DEF Contains
  <1>3. HexValue(c) = IF i > 16 THEN i - 7 ELSE i - 1
    BY DEF HexValue
  <1> HIDE DEF i
  <1> QED
    BY <1>1, <1>2, <1>3

\* atoi returns a natural number.
LEMMA AtoiType ==
    ASSUME NEW text \in Text
    PROVE  Atoi(text) \in Nat
  <1> DEFINE stop == {i \in DOMAIN text : ~IsDigit(text[i])}
             n == IF stop = {} THEN Len(text) ELSE Min(stop) - 1
             f == [i \in 1..n |-> DigitValue(text[i])]
  <1>1. Atoi(text) = Numeral(f, 10)
    BY DEF Atoi
  <1>2. Len(text) \in Nat /\ DOMAIN text = 1..Len(text)
    BY LenProperties DEF Text
  <1>3. n \in 0..Len(text) /\ \A i \in 1..n : i \in DOMAIN text /\ i \notin stop
    <2>1. CASE stop = {}
      BY <1>2, <2>1
    <2>2. CASE stop # {}
      <3>1. stop \in SUBSET Nat
        BY <1>2
      <3> DEFINE m == Min(stop)
      <3>2. m \in stop /\ \A k \in stop : m <= k
        BY <2>2, <3>1, MinFacts
      <3>3. m \in 1..Len(text) /\ n = m - 1
        BY <1>2, <2>2, <3>2
      <3> HIDE DEF m, stop, n
      <3> QED
        BY <1>2, <3>2, <3>3
    <2> QED
      BY <2>1, <2>2
  <1>4. \A i \in 1..n : DigitValue(text[i]) \in Nat
    <2> SUFFICES ASSUME NEW i \in 1..n PROVE DigitValue(text[i]) \in Nat
      OBVIOUS
    <2>1. IsDigit(text[i])
      BY <1>3
    <2> QED
      BY <2>1, DigitType
  <1> HIDE DEF n
  <1>5. f \in [1..n -> Nat] /\ n \in Nat
    BY <1>2, <1>3, <1>4
  <1>6. f \in Seq(Nat)
    <2> HIDE DEF f
    <2> QED
      BY <1>5, NatSeq
  <1> HIDE DEF f
  <1> QED
    BY <1>1, <1>6, NumeralType

\* The size of a chunk is a natural number or -1.
LEMMA ChunkSizeType ==
    ASSUME NEW line \in Text
    PROVE  ChunkSize(line) = -1 \/ ChunkSize(line) \in Nat
  <1> DEFINE stop == {i \in DOMAIN line : line[i] = ";"}
             n == IF stop = {} THEN Len(line) ELSE Min(stop) - 1
             bad == \E i \in 1..n : ~Contains(Hex, line[i])
             f == [i \in 1..n |-> HexValue(line[i])]
  <1>1. ChunkSize(line) = IF bad THEN -1 ELSE Numeral(f, 16)
    BY DEF ChunkSize
  <1>2. Len(line) \in Nat /\ DOMAIN line = 1..Len(line)
    BY LenProperties DEF Text
  <1>3. n \in Nat
    <2>1. CASE stop = {}
      BY <1>2, <2>1
    <2>2. CASE stop # {}
      <3>1. stop \in SUBSET Nat
        <4>1. stop \subseteq 1..Len(line)
          BY <1>2
        <4> HIDE DEF stop
        <4> QED
          BY <1>2, <4>1
      <3> DEFINE m == Min(stop)
      <3>2. m \in stop
        BY <2>2, <3>1, MinFacts
      <3>3. m \in 1..Len(line) /\ n = m - 1
        BY <1>2, <2>2, <3>2
      <3> HIDE DEF m, stop, n
      <3> QED
        BY <1>2, <3>2, <3>3
    <2> QED
      BY <2>1, <2>2
  <1>4. ASSUME ~bad PROVE Numeral(f, 16) \in Nat
    <2>1. \A i \in 1..n : HexValue(line[i]) \in Nat
      <3> SUFFICES ASSUME NEW i \in 1..n PROVE HexValue(line[i]) \in Nat
        OBVIOUS
      <3>1. Contains(Hex, line[i])
        BY <1>4
      <3> QED
        BY <3>1, HexType
    <2> HIDE DEF n
    <2>2. f \in [1..n -> Nat]
      BY <2>1
    <2>3. f \in Seq(Nat)
      <3> HIDE DEF f
      <3> QED
        BY <1>3, <2>2, NatSeq
    <2> HIDE DEF f
    <2> QED
      BY <2>3, NumeralType
  <1> HIDE DEF bad, f
  <1> QED
    BY <1>1, <1>4

\* A part of a text is a text.
LEMMA PartOfText ==
    ASSUME NEW text \in Text, NEW a \in Nat \ {0}, NEW b \in Int, b <= Len(text)
    PROVE  SubSeq(text, a, b) \in Text
  <1>1. text \in Seq(Symbols)
    BY DEF Text
  <1> QED
    BY <1>1, PartType DEF Text

\* trim returns a part of its argument.
LEMMA TrimType ==
    ASSUME NEW text \in Text
    PROVE  trim(text) \in Text
  <1> DEFINE A == {k \in DOMAIN text : text[k] # Blank} \cup {Len(text) + 1}
             i == Min(A)
             B == {k \in i..Len(text) : text[k] = Blank} \cup {Len(text) + 1}
             j == Min(B)
  <1>1. Len(text) \in Nat /\ DOMAIN text = 1..Len(text)
    BY LenProperties DEF Text
  <1>2. trim(text) = SubSeq(text, i, j - 1)
    BY DEF trim
  <1>3. A \subseteq 1..Len(text) + 1 /\ Len(text) + 1 \in A
    BY <1>1
  <1>4. i \in A
    <2> HIDE DEF A
    <2>1. A \in SUBSET Nat /\ A # {}
      BY <1>1, <1>3
    <2> QED
      BY <2>1, MinFacts
  <1>5. i \in 1..Len(text) + 1
    BY <1>3, <1>4
  <1> HIDE DEF i
  <1>6. B \subseteq i..Len(text) + 1 /\ Len(text) + 1 \in B
    BY <1>1, <1>5
  <1>7. j \in B
    <2> HIDE DEF B
    <2>1. B \in SUBSET Nat /\ B # {}
      BY <1>1, <1>5, <1>6
    <2> QED
      BY <2>1, MinFacts
  <1>8. j \in i..Len(text) + 1
    BY <1>6, <1>7
  <1> HIDE DEF j
  <1>9. i \in Nat \ {0} /\ j - 1 \in Int /\ j - 1 <= Len(text)
    BY <1>1, <1>5, <1>8
  <1> QED
    BY <1>2, <1>9, PartOfText

\* Key and value are texts.
LEMMA HeaderSplitType ==
    ASSUME NEW line \in Text
    PROVE  headerSplit(line) # <<>> => \A i \in 1..2 : headerSplit(line)[i] \in Text
  <1> DEFINE colons == {i \in DOMAIN line : line[i] = ":"}
             m == Min(colons)
  <1>1. headerSplit(line) = IF colons = {} THEN <<>>
            ELSE << trim(SubSeq(line, 1, m - 1)), trim(From(line, m)) >>
    BY DEF headerSplit
  <1>2. Len(line) \in Nat /\ DOMAIN line = 1..Len(line)
    BY LenProperties DEF Text
  <1>3. ASSUME colons # {} PROVE m \in 1..Len(line)
    <2>1. colons \in SUBSET Nat
      BY <1>2
    <2>2. m \in colons
      BY <1>3, <2>1, MinFacts
    <2> QED
      BY <1>2, <2>2
  <1> HIDE DEF m
  <1>4. ASSUME colons # {} PROVE SubSeq(line, 1, m - 1) \in Text /\ From(line, m) \in Text
    <2>1. 1 \in Nat \ {0} /\ m - 1 \in Int /\ m - 1 <= Len(line)
      BY <1>2, <1>3, <1>4
    <2>2. m + 1 \in Nat \ {0} /\ Len(line) \in Int /\ Len(line) <= Len(line)
      BY <1>2, <1>3, <1>4
    <2>3. SubSeq(line, 1, m - 1) \in Text
      BY <2>1, PartOfText
    <2>4. SubSeq(line, m + 1, Len(line)) \in Text
      BY <2>2, PartOfText
    <2> QED
      BY <2>3, <2>4 DEF From
  <1>5. ASSUME colons # {}
        PROVE trim(SubSeq(line, 1, m - 1)) \in Text /\ trim(From(line, m)) \in Text
    BY <1>4, <1>5, TrimType
  <1> HIDE DEF colons
  <1> QED
    BY <1>1, <1>5

\* The three fields are texts.
LEMMA LineSplitType ==
    ASSUME NEW line \in Text
    PROVE  lineSplit(line) # <<>> => \A i \in 1..3 : lineSplit(line)[i] \in Text
  <1> DEFINE blanks == {i \in DOMAIN line : line[i] = Blank}
             i == Min(blanks)
             j == Max(blanks)
             none == Cardinality(blanks) # 2 \/ Len(line) \in blanks
  <1>1. lineSplit(line) = IF none THEN <<>>
            ELSE << SubSeq(line, 1, i - 1), SubSeq(line, i + 1, j - 1), From(line, j) >>
    BY DEF lineSplit
  <1>2. Len(line) \in Nat /\ DOMAIN line = 1..Len(line)
    BY LenProperties DEF Text
  <1>3. ASSUME ~none PROVE i \in 1..Len(line) /\ j \in 1..Len(line)
    <2>1. blanks # {}
      <3>1. Cardinality(blanks) = 2
        BY <1>3
      <3> QED
        BY <3>1, FS_EmptySet
    <2>2. blanks \in SUBSET Nat /\ blanks \in SUBSET (0..Len(line))
      BY <1>2
    <2>3. i \in blanks
      <3> HIDE DEF blanks
      <3> QED
        BY <2>1, <2>2, MinFacts
    <2>4. j \in blanks
      <3> HIDE DEF blanks
      <3> QED
        BY <1>2, <2>1, <2>2, MaxFacts
    <2> QED
      BY <1>2, <2>3, <2>4
  <1> HIDE DEF i, j, none
  <1>4. ASSUME ~none
        PROVE  /\ SubSeq(line, 1, i - 1) \in Text
               /\ SubSeq(line, i + 1, j - 1) \in Text
               /\ From(line, j) \in Text
    <2>1. /\ 1 \in Nat \ {0} /\ i - 1 \in Int /\ i - 1 <= Len(line)
          /\ i + 1 \in Nat \ {0} /\ j - 1 \in Int /\ j - 1 <= Len(line)
          /\ j + 1 \in Nat \ {0} /\ Len(line) \in Int /\ Len(line) <= Len(line)
      BY <1>2, <1>3, <1>4
    <2>2. SubSeq(line, 1, i - 1) \in Text
      BY <2>1, PartOfText
    <2>3. SubSeq(line, i + 1, j - 1) \in Text
      BY <2>1, PartOfText
    <2>4. SubSeq(line, j + 1, Len(line)) \in Text
      BY <2>1, PartOfText
    <2> QED
      BY <2>2, <2>3, <2>4 DEF From
  <1>5. CASE none
    BY <1>1, <1>5
  <1>6. CASE ~none
    <2> DEFINE a == SubSeq(line, 1, i - 1)
               b == SubSeq(line, i + 1, j - 1)
               c == From(line, j)
    <2>1. lineSplit(line) = <<a, b, c>>
      BY <1>1, <1>6
    <2>2. a \in Text /\ b \in Text /\ c \in Text
      BY <1>4, <1>6
    <2> HIDE DEF a, b, c
    <2>3. /\ lineSplit(line)[1] \in Text /\ lineSplit(line)[2] \in Text
          /\ lineSplit(line)[3] \in Text
      BY <2>1, <2>2
    <2> QED
      BY <2>3
  <1> QED
    BY <1>5, <1>6

----------------------------------------------------------------------------
(* HTTP: the states of a call on n bytes. *)

Codes == {READY, WAITING, ERROR, PARSING}
HttpParsers(n) ==
    [tag : {"LINE", "HEADER", "BODY", "TRAILER", READY}, already_parse : 0..n,
     content_length : Nat, chunked : BOOLEAN, body_buf : Text]

\* How the members go together.
Sound(s) ==
    /\ s.parser.tag = "LINE" /\ s.ret # ERROR => s.parser.already_parse = 0
    /\ s.parser.tag \in {"LINE", "HEADER"} => s.parser.body_buf = <<>>
    /\ s.parser.tag = "BODY" /\ ~s.parser.chunked => Len(s.parser.body_buf) <= s.parser.content_length
    /\ s.parser.tag = "TRAILER" => s.ret = PARSING /\ s.parser.chunked

HttpCalls(n) ==
    {s \in [parser : HttpParsers(n), msg : HttpMsg, base : 0..n, ret : Codes] : Sound(s)}

\* A literal is none of the others.
LEMMA CodesDiffer ==
    /\ READY # WAITING /\ READY # ERROR /\ READY # PARSING
    /\ WAITING # ERROR /\ WAITING # PARSING /\ ERROR # PARSING
    /\ READY \notin {"LINE", "HEADER", "BODY", "TRAILER"}
  BY DEF READY, WAITING, ERROR, PARSING

\* The parser that has not seen anything.
LEMMA HttpStart ==
    ASSUME NEW type \in Symbols, NEW n \in Nat
    PROVE  Call(HttpReset, Cleared(type)) \in HttpCalls(n)
  <1>1. <<>> \in Text /\ <<>> \in HeaderMap
    <2>1. <<>> \in [{} -> Text] /\ {} \in SUBSET Text
      OBVIOUS
    <2> QED
      BY <2>1, EmptySeq DEF Text, HeaderMap
  <1>2. Cleared(type) \in HttpMsg
    <2>1. HTTP_ERR \in Symbols /\ INVALID \in Symbols
      BY DEF Symbols
    <2> QED
      BY <1>1, <2>1 DEF Cleared, HttpMsg
  <1>3. HttpReset \in HttpParsers(n)
    BY <1>1 DEF HttpReset, HttpParsers
  <1> QED
    BY <1>2, <1>3, CodesDiffer DEF HttpCalls, Call, Sound, HttpReset, Codes

\* A member of the message that was set.
LEMMA HeaderType ==
    ASSUME NEW m \in HttpMsg, NEW key, NEW def \in Text
    PROVE  getHeader(m, key, def) \in Text
  <1>1. PICK K \in SUBSET Text : m.headers \in [K -> Text]
    BY DEF HttpMsg, HeaderMap
  <1> QED
    BY <1>1 DEF getHeader

\* Setting a header.
LEMMA SetHeaderType ==
    ASSUME NEW m \in HttpMsg, NEW key \in Text, NEW value \in Text
    PROVE  setHeader(m, key, value) \in HttpMsg
  <1>1. PICK K \in SUBSET Text : m.headers \in [K -> Text]
    BY DEF HttpMsg, HeaderMap
  <1> DEFINE h == [k \in DOMAIN m.headers \cup {key} |-> IF k = key THEN value ELSE m.headers[k]]
  <1>2. h \in [K \cup {key} -> Text] /\ K \cup {key} \in SUBSET Text
    BY <1>1
  <1>3. h \in HeaderMap
    <2> HIDE DEF h
    <2> QED
      BY <1>2 DEF HeaderMap
  <1>4. setHeader(m, key, value) = [m EXCEPT !.headers = h]
    BY DEF setHeader
  <1> HIDE DEF h
  <1> QED
    BY <1>3, <1>4 DEF HttpMsg

\* What the start line gives is a message.
LEMMA StartType ==
    ASSUME NEW line \in Text, NEW m \in HttpMsg
    PROVE  parseStart(line, m).msg \in HttpMsg /\ parseStart(line, m).ret \in {READY, ERROR}
  <1> DEFINE field == lineSplit(line)
  <1>1. field # <<>> => \A i \in 1..3 : field[i] \in Text
    BY LineSplitType
  <1> HIDE DEF field
  <1>2. \A text : StringToMethod(text) \in Symbols /\ StringToVersion(text) \in Symbols
    BY DEF StringToMethod, StringToVersion, Method, INVALID, Symbols
  <1>3. /\ parseRequestLine(line, m).msg \in HttpMsg
        /\ parseRequestLine(line, m).ret \in {READY, ERROR}
    <2> DEFINE r == [m EXCEPT !.method = StringToMethod(field[1]), !.uri = field[2],
                              !.version = StringToVersion(field[3])]
    <2>1. field # <<>> => r \in HttpMsg
      <3>1. field # <<>> => field[2] \in Text
        BY <1>1
      <3> QED
        BY <1>2, <3>1 DEF HttpMsg
    <2>2. \/ parseRequestLine(line, m) = Result(READY, r) /\ field # <<>>
          \/ parseRequestLine(line, m) = Result(ERROR, m)
      BY DEF parseRequestLine, field
    <2> HIDE DEF r
    <2> QED
      BY <2>1, <2>2 DEF Result
  <1>4. /\ parseResponseLine(line, m).msg \in HttpMsg
        /\ parseResponseLine(line, m).ret \in {READY, ERROR}
    <2> DEFINE r == [m EXCEPT !.version = StringToVersion(field[1]), !.state = Atoi(field[2])]
    <2>1. field # <<>> => r \in HttpMsg
      <3>1. field # <<>> => Atoi(field[2]) \in Nat
        BY <1>1, AtoiType
      <3> QED
        BY <1>2, <3>1 DEF HttpMsg
    <2>2. \/ parseResponseLine(line, m) = Result(READY, r) /\ field # <<>>
          \/ parseResponseLine(line, m) = Result(ERROR, m)
      BY DEF parseResponseLine, field
    <2> HIDE DEF r
    <2> QED
      BY <2>1, <2>2 DEF Result
  <1> QED
    BY <1>3, <1>4 DEF parseStart

----------------------------------------------------------------------------
(* What a turn makes of a state, member by member. *)

\* A record whose members are all known.
LEMMA CallIs ==
    ASSUME NEW p, NEW m, NEW b, NEW r, NEW s \in [parser : {p}, msg : {m}, base : {b}, ret : {r}]
    PROVE  s = [parser |-> p, msg |-> m, base |-> b, ret |-> r]
  OBVIOUS

\* Returning changes the return code only.
LEMMA ReturnIs ==
    ASSUME NEW p, NEW m, NEW b, NEW r, NEW s \in [parser : {p}, msg : {m}, base : {b}, ret : {r}],
           NEW code
    PROVE  Return(s, code) = [parser |-> p, msg |-> m, base |-> b, ret |-> code]
  <1> DEFINE t == Return(s, code)
  <1>1. t \in [parser : {p}, msg : {m}, base : {b}, ret : {code}]
    BY DEF Return
  <1> HIDE DEF t
  <1>2. t = [parser |-> p, msg |-> m, base |-> b, ret |-> code]
    BY <1>1, CallIs
  <1> QED
    BY <1>2 DEF t

\* A new part of the message begins.
LEMMA EnterIs ==
    ASSUME NEW p, NEW m, NEW b, NEW r, NEW s \in [parser : {p}, msg : {m}, base : {b}, ret : {r}],
           NEW q, NEW n
    PROVE  Enter(s, q, n) = [parser |-> q, msg |-> n, base |-> q.already_parse, ret |-> r]
  <1> DEFINE t == Enter(s, q, n)
             at == q.already_parse
  <1>1. t \in [parser : {q}, msg : {n}, base : {at}, ret : {r}]
    BY DEF Enter
  <1> HIDE DEF t, at
  <1>2. t = [parser |-> q, msg |-> n, base |-> at, ret |-> r]
    BY <1>1, CallIs
  <1> QED
    BY <1>2 DEF t, at

\* A parser by its members, and as one of a set of records.
Members(tag, at, length, chunked, buf) ==
    [tag |-> tag, already_parse |-> at, content_length |-> length, chunked |-> chunked,
     body_buf |-> buf]
Only(tag, at, length, chunked, buf) ==
    [tag : {tag}, already_parse : {at}, content_length : {length}, chunked : {chunked},
     body_buf : {buf}]

\* A parser whose members are all known.
LEMMA MembersAre ==
    ASSUME NEW tag, NEW at, NEW length, NEW chunked, NEW buf,
           NEW p \in Only(tag, at, length, chunked, buf)
    PROVE  p = Members(tag, at, length, chunked, buf)
  BY DEF Only, Members

\* The calls by their members.
LEMMA HttpCallIs ==
    ASSUME NEW n \in Nat, NEW s \in HttpCalls(n)
    PROVE  LET p == s.parser IN
           /\ s \in [parser : {p}, msg : {s.msg}, base : {s.base}, ret : {s.ret}]
           /\ p \in Only(p.tag, p.already_parse, p.content_length, p.chunked, p.body_buf)
           /\ p.tag \in {"LINE", "HEADER", "BODY", "TRAILER", READY}
           /\ p.already_parse \in 0..n /\ p.content_length \in Nat /\ p.chunked \in BOOLEAN
           /\ p.body_buf \in Text
           /\ s.msg \in HttpMsg /\ s.base \in 0..n /\ s.ret \in Codes /\ Sound(s)
           /\ p \in HttpParsers(n)
  BY DEF HttpCalls, HttpParsers, Only

\* Skipping k bytes.
LEMMA SkipIs ==
    ASSUME NEW tag, NEW at \in Int, NEW length, NEW chunked, NEW buf,
           NEW p \in Only(tag, at, length, chunked, buf), NEW k \in Int
    PROVE  Skip(p, k) \in Only(tag, at + k, length, chunked, buf)
  BY DEF Skip, Only

\* Skipping k bytes and going to another tag.
LEMMA SkipTo ==
    ASSUME NEW tag, NEW at \in Int, NEW length, NEW chunked, NEW buf,
           NEW p \in Only(tag, at, length, chunked, buf), NEW k \in Int, NEW to
    PROVE  [Skip(p, k) EXCEPT !.tag = to] = Members(to, at + k, length, chunked, buf)
  <1> DEFINE q == Skip(p, k)
             r == [q EXCEPT !.tag = to]
  <1>1. q \in Only(tag, at + k, length, chunked, buf)
    BY SkipIs
  <1> HIDE DEF q
  <1>2. r \in Only(to, at + k, length, chunked, buf)
    BY <1>1 DEF Only
  <1> HIDE DEF r
  <1>3. r = Members(to, at + k, length, chunked, buf)
    BY <1>2, MembersAre
  <1> QED
    BY <1>3 DEF r, q

\* An error.
LEMMA FailIs ==
    ASSUME NEW tag, NEW at, NEW length, NEW chunked, NEW buf,
           NEW p \in Only(tag, at, length, chunked, buf), NEW m, NEW b, NEW r,
           NEW s \in [parser : {p}, msg : {m}, base : {b}, ret : {r}]
    PROVE  Fail(s) = [parser |-> Members(tag, b, length, chunked, buf), msg |-> m, base |-> b, ret |-> ERROR]
  <1> DEFINE q == [p EXCEPT !.already_parse = b]
             t == Fail(s)
  <1>1. q \in Only(tag, b, length, chunked, buf)
    BY DEF Only
  <1>2. t \in [parser : {q}, msg : {m}, base : {b}, ret : {ERROR}]
    BY DEF Fail
  <1> HIDE DEF q, t
  <1>3. q = Members(tag, b, length, chunked, buf)
    BY <1>1, MembersAre
  <1>4. t = [parser |-> q, msg |-> m, base |-> b, ret |-> ERROR]
    BY <1>2, CallIs
  <1> QED
    BY <1>3, <1>4 DEF t

\* What the headers say about the body.
BodySize(m) == Atoi(getHeader(m, <<"Content-Length">>, <<"0">>))
IsChunked(chunked, m) ==
    chunked \/ getHeader(m, <<"Transfer-Encoding">>, <<>>) = <<"chunked">>

\* The size of a body is a number.
LEMMA BodySizeType ==
    ASSUME NEW m \in HttpMsg
    PROVE  BodySize(m) \in Nat
  <1>1. "0" \in Symbols
    BY DEF Symbols
  <1>2. <<"0">> \in Text
    BY <1>1 DEF Text
  <1> QED
    BY <1>2, HeaderType, AtoiType DEF BodySize

\* The end of the headers.
LEMMA BodyKindIs ==
    ASSUME NEW tag, NEW at \in Int, NEW length, NEW chunked \in BOOLEAN, NEW buf,
           NEW p \in Only(tag, at, length, chunked, buf), NEW m
    PROVE  BodyKind(Skip(p, 2), m) = Members("BODY", at + 2, BodySize(m), IsChunked(chunked, m), buf)
  <1> DEFINE size == BodySize(m)
             cut == IsChunked(chunked, m)
             q == Skip(p, 2)
             r == BodyKind(q, m)
  <1>1. q \in Only(tag, at + 2, length, chunked, buf)
    BY SkipIs
  <1> HIDE DEF q
  <1>2. r \in Only("BODY", at + 2, size, cut, buf)
    <2>1. q.chunked = chunked
      BY <1>1 DEF Only
    <2>2. r = [q EXCEPT !.tag = "BODY", !.content_length = size, !.chunked = cut]
      BY <2>1 DEF BodyKind, BodySize, IsChunked
    <2> HIDE DEF size, cut, r
    <2> QED
      BY <1>1, <2>2 DEF Only
  <1> HIDE DEF r, cut, size
  <1>3. r = Members("BODY", at + 2, size, cut, buf)
    BY <1>2, MembersAre
  <1> QED
    BY <1>3 DEF r, q, cut, size

\* The end of the message.
LEMMA FinishIs ==
    ASSUME NEW tag, NEW at \in Int, NEW length, NEW chunked, NEW buf,
           NEW p \in Only(tag, at, length, chunked, buf), NEW m, NEW b, NEW r,
           NEW s \in [parser : {p}, msg : {m}, base : {b}, ret : {r}], NEW k \in Int, NEW body,
           NEW full, full = [m EXCEPT !.body = body]
    PROVE  Finish(s, k, body)
              = [parser |-> Members(READY, at + k, length, chunked, <<>>),
                 msg |-> full, base |-> b, ret |-> r]
  <1> DEFINE q == Skip(p, k)
             z == [q EXCEPT !.tag = READY, !.body_buf = <<>>]
             t == Finish(s, k, body)
  <1>1. q \in Only(tag, at + k, length, chunked, buf)
    BY SkipIs
  <1> HIDE DEF q
  <1>2. z \in Only(READY, at + k, length, chunked, <<>>)
    BY <1>1 DEF Only
  <1>3. t \in [parser : {z}, msg : {full}, base : {b}, ret : {r}]
    <2>1. s.parser = p
      OBVIOUS
    <2>2. t = [s EXCEPT !.parser = z, !.msg.body = body]
      BY <2>1 DEF Finish, q
    <2> HIDE DEF z, t
    <2> QED
      BY <2>2
  <1> HIDE DEF z, t
  <1>4. z = Members(READY, at + k, length, chunked, <<>>)
    BY <1>2, MembersAre
  <1>5. t = [parser |-> z, msg |-> full, base |-> b, ret |-> r]
    BY <1>3, CallIs
  <1> QED
    BY <1>4, <1>5 DEF t

\* More of the body.
LEMMA GatherIs ==
    ASSUME NEW tag, NEW at \in Int, NEW length, NEW chunked, NEW buf,
           NEW p \in Only(tag, at, length, chunked, buf), NEW m, NEW b, NEW r,
           NEW s \in [parser : {p}, msg : {m}, base : {b}, ret : {r}], NEW k \in Int, NEW body
    PROVE  Gather(s, k, body)
              = [parser |-> Members(tag, at + k, length, chunked, body), msg |-> m, base |-> b, ret |-> r]
  <1> DEFINE q == Skip(p, k)
             z == [q EXCEPT !.body_buf = body]
             t == Gather(s, k, body)
  <1>1. q \in Only(tag, at + k, length, chunked, buf)
    BY SkipIs
  <1> HIDE DEF q
  <1>2. z \in Only(tag, at + k, length, chunked, body)
    BY <1>1 DEF Only
  <1>3. t \in [parser : {z}, msg : {m}, base : {b}, ret : {r}]
    <2>1. s.parser = p
      OBVIOUS
    <2>2. t = [s EXCEPT !.parser = z]
      BY <2>1 DEF Gather, q
    <2> HIDE DEF z, t
    <2> QED
      BY <2>2
  <1> HIDE DEF z, t
  <1>4. z = Members(tag, at + k, length, chunked, body)
    BY <1>2, MembersAre
  <1>5. t = [parser |-> z, msg |-> m, base |-> b, ret |-> r]
    BY <1>3, CallIs
  <1> QED
    BY <1>4, <1>5 DEF t

\* A parser with known members is one of a set, and so is a call.
LEMMA Known ==
    ASSUME NEW tag, NEW at, NEW length, NEW chunked, NEW buf, NEW m, NEW b, NEW r
    PROVE  LET p == Members(tag, at, length, chunked, buf) IN
           /\ p \in Only(tag, at, length, chunked, buf)
           /\ [parser |-> p, msg |-> m, base |-> b, ret |-> r]
                 \in [parser : {p}, msg : {m}, base : {b}, ret : {r}]
  BY DEF Members, Only

----------------------------------------------------------------------------
(* HTTP: what a turn comes to, branch by branch. *)

\* A call by its members; one that fails, and one that changes some members.
State(p, m, b, r) == [parser |-> p, msg |-> m, base |-> b, ret |-> r]
Moved(s, tag, at, buf, m, b, r) ==
    State(Members(tag, at, s.parser.content_length, s.parser.chunked, buf), m, b, r)
Failed(s) == Moved(s, s.parser.tag, s.base, s.parser.body_buf, s.msg, s.base, ERROR)
Waits(s) == State(s.parser, s.msg, s.base, WAITING)

\* A record with known members is that state.
LEMMA StateOf ==
    ASSUME NEW p, NEW m, NEW b, NEW r, NEW s \in [parser : {p}, msg : {m}, base : {b}, ret : {r}]
    PROVE  s = State(p, m, b, r)
  BY CallIs DEF State

\* What the lemmas about single steps need.
LEMMA Parts ==
    ASSUME NEW n \in Nat, NEW s \in HttpCalls(n)
    PROVE  LET p == s.parser IN
           /\ s \in [parser : {p}, msg : {s.msg}, base : {s.base}, ret : {s.ret}]
           /\ p \in Only(p.tag, p.already_parse, p.content_length, p.chunked, p.body_buf)
           /\ p.already_parse \in Int
  BY HttpCallIs

\* Returning and failing.
LEMMA Returns ==
    ASSUME NEW n \in Nat, NEW s \in HttpCalls(n)
    PROVE  /\ Return(s, WAITING) = Waits(s)
           /\ Return(s, READY) = State(s.parser, s.msg, s.base, READY)
           /\ Fail(s) = Failed(s)
  <1> DEFINE p == s.parser
  <1>1. /\ s \in [parser : {p}, msg : {s.msg}, base : {s.base}, ret : {s.ret}]
        /\ p \in Only(p.tag, p.already_parse, p.content_length, p.chunked, p.body_buf)
    BY Parts
  <1> HIDE DEF p
  <1>2. Return(s, WAITING) = State(p, s.msg, s.base, WAITING)
    BY <1>1, ReturnIs DEF State
  <1>3. Return(s, READY) = State(p, s.msg, s.base, READY)
    BY <1>1, ReturnIs DEF State
  <1>4. Fail(s) = State(Members(p.tag, s.base, p.content_length, p.chunked, p.body_buf),
                        s.msg, s.base, ERROR)
    BY <1>1, FailIs DEF State
  <1> QED
    BY <1>2, <1>3, <1>4 DEF p, Waits, Failed, Moved

\* Another part of the message begins.
LEMMA Enters ==
    ASSUME NEW n \in Nat, NEW s \in HttpCalls(n), NEW k \in Int, NEW to, NEW m
    PROVE  LET at == s.parser.already_parse + k IN
           Enter(s, [Skip(s.parser, k) EXCEPT !.tag = to], m)
              = Moved(s, to, at, s.parser.body_buf, m, at, s.ret)
  <1> DEFINE p == s.parser
             at == p.already_parse + k
             q == Members(to, at, p.content_length, p.chunked, p.body_buf)
  <1>1. /\ s \in [parser : {p}, msg : {s.msg}, base : {s.base}, ret : {s.ret}]
        /\ p \in Only(p.tag, p.already_parse, p.content_length, p.chunked, p.body_buf)
        /\ p.already_parse \in Int
    BY Parts
  <1> HIDE DEF p
  <1>2. [Skip(p, k) EXCEPT !.tag = to] = q
    BY <1>1, SkipTo
  <1>3. q.already_parse = at
    BY DEF Members
  <1> HIDE DEF q, at
  <1>4. Enter(s, q, m) = State(q, m, q.already_parse, s.ret)
    BY <1>1, EnterIs DEF State
  <1> QED
    BY <1>2, <1>3, <1>4 DEF p, at, q, Moved

\* Bytes are consumed.
LEMMA Skips ==
    ASSUME NEW n \in Nat, NEW s \in HttpCalls(n), NEW k \in Int, NEW to, NEW m
    PROVE  LET p == s.parser
               at == p.already_parse + k
           IN  /\ [s EXCEPT !.parser = Skip(s.parser, k), !.msg = m]
                     = Moved(s, p.tag, at, p.body_buf, m, s.base, s.ret)
               /\ [s EXCEPT !.parser = Skip(s.parser, k)]
                     = Moved(s, p.tag, at, p.body_buf, s.msg, s.base, s.ret)
               /\ [s EXCEPT !.parser = [Skip(s.parser, k) EXCEPT !.tag = to]]
                     = Moved(s, to, at, p.body_buf, s.msg, s.base, s.ret)
  <1> DEFINE p == s.parser
             at == p.already_parse + k
             q == Skip(p, k)
             z == [q EXCEPT !.tag = to]
             x == Members(p.tag, at, p.content_length, p.chunked, p.body_buf)
             y == Members(to, at, p.content_length, p.chunked, p.body_buf)
  <1>1. /\ s \in [parser : {p}, msg : {s.msg}, base : {s.base}, ret : {s.ret}]
        /\ p \in Only(p.tag, p.already_parse, p.content_length, p.chunked, p.body_buf)
        /\ p.already_parse \in Int
    BY Parts
  <1> HIDE DEF p
  <1>2. z = y
    BY <1>1, SkipTo
  <1>3. q = x
    BY <1>1, SkipIs, MembersAre
  <1> HIDE DEF q, z, x, y
  <1>4. [s EXCEPT !.parser = q, !.msg = m] = State(q, m, s.base, s.ret)
    <2> DEFINE t == [s EXCEPT !.parser = q, !.msg = m]
    <2>1. t \in [parser : {q}, msg : {m}, base : {s.base}, ret : {s.ret}]
      BY <1>1
    <2> HIDE DEF t
    <2>2. t = State(q, m, s.base, s.ret)
      BY <2>1, StateOf
    <2> QED
      BY <2>2 DEF t
  <1>5. [s EXCEPT !.parser = q] = State(q, s.msg, s.base, s.ret)
    <2> DEFINE t == [s EXCEPT !.parser = q]
    <2>1. t \in [parser : {q}, msg : {s.msg}, base : {s.base}, ret : {s.ret}]
      BY <1>1
    <2> HIDE DEF t
    <2>2. t = State(q, s.msg, s.base, s.ret)
      BY <2>1, StateOf
    <2> QED
      BY <2>2 DEF t
  <1>6. [s EXCEPT !.parser = z] = State(z, s.msg, s.base, s.ret)
    <2> DEFINE t == [s EXCEPT !.parser = z]
    <2>1. t \in [parser : {z}, msg : {s.msg}, base : {s.base}, ret : {s.ret}]
      BY <1>1
    <2> HIDE DEF t
    <2>2. t = State(z, s.msg, s.base, s.ret)
      BY <2>1, StateOf
    <2> QED
      BY <2>2 DEF t
  <1> QED
    BY <1>2, <1>3, <1>4, <1>5, <1>6 DEF p, q, z, x, y, Moved

\* The message is complete, and more of its body is there.
LEMMA Gathers ==
    ASSUME NEW n \in Nat, NEW s \in HttpCalls(n), NEW k \in Int, NEW body
    PROVE  LET p == s.parser
               at == p.already_parse + k
           IN  /\ Finish(s, k, body)
                     = Moved(s, READY, at, <<>>, [s.msg EXCEPT !.body = body], s.base, s.ret)
               /\ Gather(s, k, body) = Moved(s, p.tag, at, body, s.msg, s.base, s.ret)
  <1> DEFINE p == s.parser
             m == s.msg
             full == [m EXCEPT !.body = body]
  <1>1. /\ s \in [parser : {p}, msg : {m}, base : {s.base}, ret : {s.ret}]
        /\ p \in Only(p.tag, p.already_parse, p.content_length, p.chunked, p.body_buf)
        /\ p.already_parse \in Int
    BY Parts
  <1> HIDE DEF p, m
  <1>2. Finish(s, k, body)
           = State(Members(READY, p.already_parse + k, p.content_length, p.chunked, <<>>),
                   full, s.base, s.ret)
    <2>1. full = [m EXCEPT !.body = body]
      OBVIOUS
    <2> HIDE DEF full
    <2> DEFINE b == s.base
               r == s.ret
               tag == p.tag
               at == p.already_parse
               length == p.content_length
               chunked == p.chunked
               buf == p.body_buf
    <2>2. /\ s \in [parser : {p}, msg : {m}, base : {b}, ret : {r}]
          /\ p \in Only(tag, at, length, chunked, buf) /\ at \in Int
      BY <1>1
    <2> HIDE DEF b, r, tag, at, length, chunked, buf
    <2>3. Finish(s, k, body)
             = [parser |-> Members(READY, at + k, length, chunked, <<>>),
                msg |-> full, base |-> b, ret |-> r]
      BY <2>1, <2>2, FinishIs
    <2> QED
      BY <2>3 DEF State, b, r, at, length, chunked
  <1>3. Gather(s, k, body)
           = State(Members(p.tag, p.already_parse + k, p.content_length, p.chunked, body),
                   m, s.base, s.ret)
    BY <1>1, GatherIs DEF State
  <1> QED
    BY <1>2, <1>3 DEF p, m, full, Moved

\* Members that go together make a state.
LEMMA StateType ==
    ASSUME NEW n \in Nat, NEW tag \in {"LINE", "HEADER", "BODY", "TRAILER", READY},
           NEW at \in 0..n, NEW length \in Nat, NEW chunked \in BOOLEAN, NEW buf \in Text,
           NEW m \in HttpMsg, NEW b \in 0..n, NEW r \in Codes,
           tag = "LINE" /\ r # ERROR => at = 0,
           tag \in {"LINE", "HEADER"} => buf = <<>>,
           tag = "BODY" /\ ~chunked => Len(buf) <= length,
           tag = "TRAILER" => r = PARSING /\ chunked
    PROVE  State(Members(tag, at, length, chunked, buf), m, b, r) \in HttpCalls(n)
  <1> DEFINE p == Members(tag, at, length, chunked, buf)
             s == State(p, m, b, r)
  <1>1. p \in HttpParsers(n)
    BY DEF Members, HttpParsers
  <1>2. /\ p.tag = tag /\ p.already_parse = at /\ p.content_length = length
        /\ p.chunked = chunked /\ p.body_buf = buf
    BY DEF Members
  <1> HIDE DEF p
  <1>3. s.parser = p /\ s.ret = r
    BY DEF State
  <1>4. s \in [parser : HttpParsers(n), msg : HttpMsg, base : 0..n, ret : Codes]
    BY <1>1 DEF State
  <1> HIDE DEF s
  <1>5. Sound(s)
    BY <1>2, <1>3 DEF Sound
  <1>6. s \in HttpCalls(n)
    BY <1>4, <1>5 DEF HttpCalls
  <1> QED
    BY <1>6 DEF s, p

\* A state that keeps the size and the kind of the body.
LEMMA MovedType ==
    ASSUME NEW n \in Nat, NEW s \in HttpCalls(n),
           NEW tag \in {"LINE", "HEADER", "BODY", "TRAILER", READY},
           NEW at \in 0..n, NEW buf \in Text,
           NEW m \in HttpMsg, NEW b \in 0..n, NEW r \in Codes,
           tag = "LINE" /\ r # ERROR => at = 0,
           tag \in {"LINE", "HEADER"} => buf = <<>>,
           tag = "BODY" /\ ~s.parser.chunked => Len(buf) <= s.parser.content_length,
           tag = "TRAILER" => r = PARSING /\ s.parser.chunked
    PROVE  Moved(s, tag, at, buf, m, b, r) \in HttpCalls(n)
  <1> DEFINE length == s.parser.content_length
             chunked == s.parser.chunked
  <1>1. length \in Nat /\ chunked \in BOOLEAN
    BY HttpCallIs
  <1> HIDE DEF length, chunked
  <1>2. /\ tag = "BODY" /\ ~chunked => Len(buf) <= length
        /\ tag = "TRAILER" => r = PARSING /\ chunked
    BY DEF length, chunked
  <1>3. State(Members(tag, at, length, chunked, buf), m, b, r) \in HttpCalls(n)
    BY <1>1, <1>2, StateType
  <1> QED
    BY <1>3 DEF Moved, length, chunked

\* A failure is a state.
LEMMA FailedType ==
    ASSUME NEW n \in Nat, NEW s \in HttpCalls(n), s.parser.tag # "TRAILER"
    PROVE  Failed(s) \in HttpCalls(n)
  <1>1. /\ s.parser.tag \in {"LINE", "HEADER", "BODY", "TRAILER", READY} /\ s.base \in 0..n
        /\ s.parser.body_buf \in Text /\ s.msg \in HttpMsg /\ ERROR \in Codes /\ Sound(s)
    BY HttpCallIs DEF Codes
  <1> QED
    BY <1>1, MovedType DEF Sound, Failed

\* So is waiting, and being ready.
LEMMA ReturnType ==
    ASSUME NEW n \in Nat, NEW s \in HttpCalls(n), s.parser.tag # "TRAILER", s.ret # ERROR,
           NEW code \in {READY, WAITING}
    PROVE  State(s.parser, s.msg, s.base, code) \in HttpCalls(n)
  <1> DEFINE p == s.parser
  <1>1. /\ p.tag \in {"LINE", "HEADER", "BODY", "TRAILER", READY} /\ s.base \in 0..n
        /\ p.already_parse \in 0..n /\ p.content_length \in Nat /\ p.chunked \in BOOLEAN
        /\ p.body_buf \in Text /\ s.msg \in HttpMsg /\ code \in Codes /\ Sound(s)
        /\ p \in Only(p.tag, p.already_parse, p.content_length, p.chunked, p.body_buf)
    BY HttpCallIs DEF Codes
  <1>2. p = Members(p.tag, p.already_parse, p.content_length, p.chunked, p.body_buf)
    BY <1>1, MembersAre
  <1>3. /\ p.tag = "LINE" /\ code # ERROR => p.already_parse = 0
        /\ p.tag \in {"LINE", "HEADER"} => p.body_buf = <<>>
        /\ p.tag = "BODY" /\ ~p.chunked => Len(p.body_buf) <= p.content_length
        /\ p.tag = "TRAILER" => code = PARSING /\ p.chunked
    BY <1>1 DEF Sound
  <1> HIDE DEF p
  <1>4. State(Members(p.tag, p.already_parse, p.content_length, p.chunked, p.body_buf),
              s.msg, s.base, code) \in HttpCalls(n)
    BY <1>1, <1>3, StateType, SMTT(30)
  <1> QED
    BY <1>2, <1>4 DEF p

----------------------------------------------------------------------------
(* HTTP: the handlers, branch by branch. *)

\* A start line.
LEMMA LineForm ==
    ASSUME NEW n \in Nat, NEW s \in HttpCalls(n), NEW data \in Text
    PROVE  LET len == CRLF(data, 0)
               res == parseStart(SubSeq(data, 1, len), s.msg)
               at == s.parser.already_parse + (len + 2)
           IN  parseLine(s, data) =
                 IF len = -1 THEN Waits(s)
                 ELSE IF res.ret = READY
                 THEN Moved(s, "HEADER", at, s.parser.body_buf, res.msg, at, s.ret)
                 ELSE Failed(s)
  <1> DEFINE len == CRLF(data, 0)
             res == parseStart(SubSeq(data, 1, len), s.msg)
             at == s.parser.already_parse + (len + 2)
  <1>1. parseLine(s, data) =
          IF len = -1 THEN Return(s, WAITING)
          ELSE IF res.ret = READY
          THEN Enter(s, [Skip(s.parser, len + 2) EXCEPT !.tag = "HEADER"], res.msg)
          ELSE Fail(s)
    BY DEF parseLine
  <1>2. len + 2 \in Int
    <2>1. data \in Seq(Symbols) /\ 0 \in Nat
      BY DEF Text
    <2> QED
      BY <2>1, LineRange
  <1> HIDE DEF len, res
  <1>3. Enter(s, [Skip(s.parser, len + 2) EXCEPT !.tag = "HEADER"], res.msg)
           = Moved(s, "HEADER", at, s.parser.body_buf, res.msg, at, s.ret)
    BY <1>2, Enters
  <1> QED
    BY <1>1, <1>3, Returns DEF len, res

\* A header line.
LEMMA HeaderForm ==
    ASSUME NEW n \in Nat, NEW s \in HttpCalls(n), NEW data \in Text
    PROVE  LET p == s.parser
               at == p.already_parse
               len == CRLF(data, at)
               field == headerSplit(SubSeq(data, at + 1, at + len))
           IN  parseHeader(s, data) =
                 IF len = -1 THEN Waits(s)
                 ELSE IF len = 0
                 THEN State(Members("BODY", at + 2, BodySize(s.msg), IsChunked(p.chunked, s.msg),
                                    p.body_buf),
                            s.msg, at + 2, s.ret)
                 ELSE IF field = <<>> THEN Failed(s)
                 ELSE Moved(s, p.tag, at + (len + 2), p.body_buf,
                            setHeader(s.msg, field[1], field[2]), s.base, s.ret)
  <1> DEFINE p == s.parser
             at == p.already_parse
             len == CRLF(data, at)
             field == headerSplit(SubSeq(data, at + 1, at + len))
             q == BodyKind(Skip(p, 2), s.msg)
             z == Members("BODY", at + 2, BodySize(s.msg), IsChunked(p.chunked, s.msg), p.body_buf)
             w == setHeader(s.msg, field[1], field[2])
  <1>1. parseHeader(s, data) =
          IF len = -1 THEN Return(s, WAITING)
          ELSE IF len = 0 THEN Enter(s, q, s.msg)
          ELSE IF field = <<>> THEN Fail(s)
          ELSE [s EXCEPT !.parser = Skip(s.parser, len + 2), !.msg = w]
    BY DEF parseHeader
  <1>2. len + 2 \in Int
    <2>1. data \in Seq(Symbols) /\ at \in Nat
      BY HttpCallIs DEF Text
    <2> QED
      BY <2>1, LineRange
  <1>3. q = z
    <2>1. /\ p \in Only(p.tag, p.already_parse, p.content_length, p.chunked, p.body_buf)
          /\ p.already_parse \in Int /\ p.chunked \in BOOLEAN
      BY HttpCallIs
    <2> HIDE DEF p
    <2>2. BodyKind(Skip(p, 2), s.msg) = z
      BY <2>1, BodyKindIs
    <2> QED
      BY <2>2 DEF p
  <1>4. Enter(s, z, s.msg) = State(z, s.msg, at + 2, s.ret)
    <2>1. z.already_parse = at + 2
      BY DEF Members
    <2>2. s \in [parser : {s.parser}, msg : {s.msg}, base : {s.base}, ret : {s.ret}]
      BY HttpCallIs
    <2> HIDE DEF z, at
    <2>3. Enter(s, z, s.msg) = State(z, s.msg, z.already_parse, s.ret)
      BY <2>2, EnterIs DEF State
    <2> QED
      BY <2>1, <2>3
  <1> HIDE DEF len, w
  <1>5. [s EXCEPT !.parser = Skip(s.parser, len + 2), !.msg = w]
           = Moved(s, p.tag, at + (len + 2), p.body_buf, w, s.base, s.ret)
    BY <1>2, Skips
  <1> QED
    BY <1>1, <1>3, <1>4, <1>5, Returns DEF len, w

\* What has come of a plain body.
Part(p, data) == Min({p.content_length - Len(p.body_buf), Len(data) - p.already_parse})
Sofar(p, data) ==
    p.body_buf \o SubSeq(data, p.already_parse + 1, p.already_parse + Part(p, data))

\* Part is the lesser of two numbers.
LEMMA PartIs ==
    ASSUME NEW n \in Nat, NEW s \in HttpCalls(n), NEW data \in Text, n <= Len(data),
           s.parser.tag = "BODY", ~s.parser.chunked
    PROVE  LET p == s.parser
               a == p.content_length - Len(p.body_buf)
               b == Len(data) - p.already_parse
           IN  /\ a \in Nat /\ b \in Nat
               /\ Part(p, data) = IF a <= b THEN a ELSE b
  <1> DEFINE p == s.parser
             a == p.content_length - Len(p.body_buf)
             b == Len(data) - p.already_parse
  <1>1. p.already_parse \in 0..n /\ p.content_length \in Nat /\ p.body_buf \in Seq(Symbols) /\ Sound(s)
    BY HttpCallIs DEF Text
  <1>2. Len(data) \in Nat /\ Len(p.body_buf) \in Nat
    BY <1>1, LenProperties DEF Text
  <1>3. Len(p.body_buf) <= p.content_length
    BY <1>1 DEF Sound
  <1>4. a \in Nat /\ b \in Nat
    BY <1>1, <1>2, <1>3
  <1>5. Part(p, data) = Min({a, b})
    BY DEF Part
  <1> HIDE DEF a, b
  <1>6. Part(p, data) = IF a <= b THEN a ELSE b
    BY <1>4, <1>5, MinOfTwo
  <1> QED
    BY <1>4, <1>6 DEF a, b

\* A plain body.
LEMMA PlainForm ==
    ASSUME NEW n \in Nat, NEW s \in HttpCalls(n), NEW data \in Text, Part(s.parser, data) \in Int
    PROVE  LET p == s.parser
               at == p.already_parse + Part(p, data)
               body == Sofar(p, data)
           IN  parsePlain(s, data) =
                 IF Len(body) >= p.content_length
                 THEN Moved(s, READY, at, <<>>, [s.msg EXCEPT !.body = body], s.base, s.ret)
                 ELSE Moved(s, p.tag, at, body, s.msg, s.base, WAITING)
  <1> DEFINE p == s.parser
             k == Part(p, data)
             body == Sofar(p, data)
  <1>1. parsePlain(s, data) =
          IF Len(body) >= p.content_length THEN Finish(s, k, body)
          ELSE Return(Gather(s, k, body), WAITING)
    BY DEF parsePlain, Part, Sofar
  <1> HIDE DEF k, body
  <1>2. k \in Int
    BY DEF k
  <1>3. /\ Finish(s, k, body)
              = Moved(s, READY, p.already_parse + k, <<>>, [s.msg EXCEPT !.body = body], s.base, s.ret)
        /\ Gather(s, k, body) = Moved(s, p.tag, p.already_parse + k, body, s.msg, s.base, s.ret)
    BY <1>2, Gathers
  <1>4. Return(Gather(s, k, body), WAITING)
           = Moved(s, p.tag, p.already_parse + k, body, s.msg, s.base, WAITING)
    <2> DEFINE q == Members(p.tag, p.already_parse + k, p.content_length, p.chunked, body)
               t == State(q, s.msg, s.base, s.ret)
    <2>1. Gather(s, k, body) = t
      BY <1>3 DEF Moved
    <2> HIDE DEF q
    <2>2. t \in [parser : {q}, msg : {s.msg}, base : {s.base}, ret : {s.ret}]
      BY DEF State
    <2> HIDE DEF t
    <2>3. Return(t, WAITING) = State(q, s.msg, s.base, WAITING)
      BY <2>2, ReturnIs DEF State
    <2> QED
      BY <2>1, <2>3 DEF q, Moved
  <1> QED
    BY <1>1, <1>3, <1>4 DEF k, body

\* The members of a chunk: the length of its size line, its size, and where it
\* and what is behind it begin.
LineAt(p, data) == CRLF(data, p.already_parse)
SizeAt(p, data) ==
    ChunkSize(SubSeq(data, p.already_parse + 1, p.already_parse + LineAt(p, data)))
NextAt(p, data) == p.already_parse + LineAt(p, data) + 2 + SizeAt(p, data) + 2
WithChunk(p, data) ==
    LET start == p.already_parse + LineAt(p, data) + 2
    IN  p.body_buf \o SubSeq(data, start + 1, start + SizeAt(p, data))

\* The members of a chunk are numbers.
LEMMA ChunkParts ==
    ASSUME NEW n \in Nat, NEW s \in HttpCalls(n), NEW data \in Text
    PROVE  LET p == s.parser IN
           /\ p.already_parse \in 0..n /\ Len(data) \in Nat
           /\ \/ LineAt(p, data) = -1
              \/ /\ LineAt(p, data) \in Nat
                 /\ p.already_parse + LineAt(p, data) + 2 <= Len(data)
                 /\ SizeAt(p, data) = -1 \/ SizeAt(p, data) \in Nat
  <1> DEFINE p == s.parser
             at == p.already_parse
             len == LineAt(p, data)
  <1>1. at \in 0..n
    BY HttpCallIs
  <1>2. data \in Seq(Symbols)
    BY DEF Text
  <1>3. Len(data) \in Nat
    BY <1>2, LenProperties
  <1>4. CRLF(data, at) = len
    BY DEF LineAt
  <1> HIDE DEF at, len
  <1>5. \/ len = -1
        \/ len \in Nat /\ at + len + 2 <= Len(data)
    <2>1. at \in Nat
      BY <1>1
    <2> QED
      BY <1>2, <1>4, <2>1, LineRange
  <1>6. ASSUME len \in Nat, at + len + 2 <= Len(data)
        PROVE ChunkSize(SubSeq(data, at + 1, at + len)) = -1
              \/ ChunkSize(SubSeq(data, at + 1, at + len)) \in Nat
    <2>1. at + 1 \in Nat \ {0} /\ at + len \in Int /\ at + len <= Len(data)
      BY <1>1, <1>3, <1>6
    <2>2. SubSeq(data, at + 1, at + len) \in Text
      BY <2>1, PartOfText
    <2> QED
      BY <2>2, ChunkSizeType
  <1>7. SizeAt(p, data) = ChunkSize(SubSeq(data, at + 1, at + len))
    BY DEF SizeAt, at, len
  <1> QED
    BY <1>1, <1>3, <1>5, <1>6, <1>7 DEF at, len

\* A failure after the buffer was filled.
LEMMA GatheredFails ==
    ASSUME NEW n \in Nat, NEW s \in HttpCalls(n), NEW body
    PROVE  Fail(Gather(s, 0, body)) = Moved(s, s.parser.tag, s.base, body, s.msg, s.base, ERROR)
  <1> DEFINE p == s.parser
             at == p.already_parse + 0
             q == Members(p.tag, at, p.content_length, p.chunked, body)
             t == State(q, s.msg, s.base, s.ret)
  <1>1. Gather(s, 0, body) = t
    <2>1. Gather(s, 0, body) = Moved(s, p.tag, at, body, s.msg, s.base, s.ret)
      <3>1. 0 \in Int
        OBVIOUS
      <3> QED
        BY <3>1, Gathers
    <2> QED
      BY <2>1 DEF Moved
  <1> HIDE DEF p, at
  <1>2. q \in Only(p.tag, at, p.content_length, p.chunked, body)
    BY DEF Members, Only
  <1> HIDE DEF q
  <1>3. t \in [parser : {q}, msg : {s.msg}, base : {s.base}, ret : {s.ret}]
    BY DEF State
  <1> HIDE DEF t
  <1>4. Fail(t) = State(Members(p.tag, s.base, p.content_length, p.chunked, body),
                        s.msg, s.base, ERROR)
    BY <1>2, <1>3, FailIs DEF State
  <1> QED
    BY <1>1, <1>4 DEF p, Moved

\* A chunk.
LEMMA ChunkForm ==
    ASSUME NEW n \in Nat, NEW s \in HttpCalls(n), NEW data \in Text
    PROVE  LET p == s.parser
               at == p.already_parse
               len == LineAt(p, data)
               size == SizeAt(p, data)
               next == NextAt(p, data)
           IN  parseChunk(s, data) =
                 IF len = -1 THEN Waits(s)
                 ELSE IF len = 0 \/ size = -1 THEN Failed(s)
                 ELSE IF next > Len(data) THEN Waits(s)
                 ELSE IF size = 0
                 THEN Moved(s, "TRAILER", at + (len + 2), p.body_buf, s.msg, s.base, s.ret)
                 ELSE IF SubSeq(data, next - 1, next) # EOL
                 THEN Moved(s, p.tag, s.base, WithChunk(p, data), s.msg, s.base, ERROR)
                 ELSE Moved(s, p.tag, at + (next - at), WithChunk(p, data), s.msg, s.base, s.ret)
  <1> DEFINE p == s.parser
             at == p.already_parse
             len == LineAt(p, data)
             size == SizeAt(p, data)
             next == NextAt(p, data)
             body == WithChunk(p, data)
  <1>1. parseChunk(s, data) =
          IF len = -1 THEN Return(s, WAITING)
          ELSE IF len = 0 \/ size = -1 THEN Fail(s)
          ELSE IF next > Len(data) THEN Return(s, WAITING)
          ELSE IF size = 0 THEN [s EXCEPT !.parser = [Skip(s.parser, len + 2) EXCEPT !.tag = "TRAILER"]]
          ELSE IF SubSeq(data, next - 1, next) # EOL THEN Fail(Gather(s, 0, body))
          ELSE Gather(s, next - at, body)
    BY DEF parseChunk, LineAt, SizeAt, NextAt, WithChunk
  <1>2. /\ at \in Int
        /\ len = -1 \/ (len \in Nat /\ (size = -1 \/ size \in Nat))
    BY ChunkParts
  <1>3. next = at + len + 2 + size + 2
    BY DEF NextAt
  <1> HIDE DEF len, size, next, body
  <1>4. CASE len = -1
    BY <1>1, <1>4, Returns DEF len
  <1>5. CASE len # -1 /\ (len = 0 \/ size = -1)
    BY <1>1, <1>5, Returns DEF len, size
  <1>6. CASE len # -1 /\ ~(len = 0 \/ size = -1)
    <2>1. len + 2 \in Int /\ next - at \in Int
      BY <1>2, <1>3, <1>6
    <2>2. [s EXCEPT !.parser = [Skip(s.parser, len + 2) EXCEPT !.tag = "TRAILER"]]
             = Moved(s, "TRAILER", at + (len + 2), p.body_buf, s.msg, s.base, s.ret)
      BY <2>1, Skips
    <2>3. Gather(s, next - at, body) = Moved(s, p.tag, at + (next - at), body, s.msg, s.base, s.ret)
      BY <2>1, Gathers
    <2>4. Fail(Gather(s, 0, body)) = Moved(s, p.tag, s.base, body, s.msg, s.base, ERROR)
      BY GatheredFails
    <2> QED
      BY <1>1, <1>6, <2>2, <2>3, <2>4, Returns DEF len, size, next, body
  <1> QED
    BY <1>4, <1>5, <1>6

\* A trailer line.
LEMMA TrailerForm ==
    ASSUME NEW n \in Nat, NEW s \in HttpCalls(n), NEW data \in Text
    PROVE  LET p == s.parser
               at == p.already_parse
               len == LineAt(p, data)
           IN  parseTrailer(s, data) =
                 IF len = -1 THEN Moved(s, "BODY", at, p.body_buf, s.msg, s.base, WAITING)
                 ELSE IF len = 0
                 THEN Moved(s, READY, at + 2, <<>>, [s.msg EXCEPT !.body = p.body_buf], s.base, s.ret)
                 ELSE Moved(s, p.tag, at + (len + 2), p.body_buf, s.msg, s.base, s.ret)
  <1> DEFINE p == s.parser
             at == p.already_parse
             len == LineAt(p, data)
             w == [s EXCEPT !.ret = WAITING, !.parser.tag = "BODY"]
  <1>1. parseTrailer(s, data) =
          IF len = -1 THEN w
          ELSE IF len = 0 THEN Finish(s, 2, p.body_buf)
          ELSE [s EXCEPT !.parser = Skip(s.parser, len + 2)]
    BY DEF parseTrailer, LineAt
  <1>2. len + 2 \in Int /\ 2 \in Int
    BY ChunkParts
  <1>3. w = Moved(s, "BODY", at, p.body_buf, s.msg, s.base, WAITING)
    <2> DEFINE q == [p EXCEPT !.tag = "BODY"]
    <2>1. /\ p \in Only(p.tag, at, p.content_length, p.chunked, p.body_buf)
          /\ s \in [parser : {p}, msg : {s.msg}, base : {s.base}, ret : {s.ret}]
      BY HttpCallIs
    <2> HIDE DEF p
    <2>2. q \in Only("BODY", at, p.content_length, p.chunked, p.body_buf)
      BY <2>1 DEF Only
    <2>3. w \in [parser : {q}, msg : {s.msg}, base : {s.base}, ret : {WAITING}]
      BY <2>1
    <2> HIDE DEF q, w
    <2>4. q = Members("BODY", at, p.content_length, p.chunked, p.body_buf)
      BY <2>2, MembersAre
    <2>5. w = State(q, s.msg, s.base, WAITING)
      BY <2>3, StateOf
    <2> QED
      BY <2>4, <2>5 DEF Moved, p
  <1> HIDE DEF len, w
  <1>4. [s EXCEPT !.parser = Skip(s.parser, len + 2)]
           = Moved(s, p.tag, at + (len + 2), p.body_buf, s.msg, s.base, s.ret)
    BY <1>2, Skips
  <1>5. Finish(s, 2, p.body_buf)
           = Moved(s, READY, at + 2, <<>>, [s.msg EXCEPT !.body = p.body_buf], s.base, s.ret)
    BY <1>2, Gathers
  <1> QED
    BY <1>1, <1>3, <1>4, <1>5 DEF len

----------------------------------------------------------------------------
(* HTTP: a turn keeps to the states and gets on with the data. *)

\* What is left to do: the bytes behind already_parse_, and returning.
Left(s, n) == n - s.parser.already_parse + IF s.parser.tag = READY THEN 0 ELSE 2

\* A turn on n bytes leads from s to a state r, where less is left to do, and
\* behind the last chunk there is place for an end of line.
Leads(s, r, n) ==
    /\ r.ret = PARSING => Left(r, n) + 2 <= Left(s, n)
    /\ r.parser.tag = "TRAILER" /\ s.parser.tag # "TRAILER" => r.parser.already_parse + 2 <= n

\* The members of a state that was moved.
LEMMA MovedIs ==
    ASSUME NEW s, NEW tag, NEW at, NEW buf, NEW m, NEW b, NEW r
    PROVE  LET x == Moved(s, tag, at, buf, m, b, r) IN
           /\ x.ret = r /\ x.msg = m /\ x.parser.tag = tag /\ x.parser.already_parse = at
           /\ x.parser = Members(tag, at, s.parser.content_length, s.parser.chunked, buf)
  BY DEF Moved, State, Members

\* The members of a state that returns.
LEMMA ReturnedIs ==
    ASSUME NEW p, NEW m, NEW b, NEW r
    PROVE  LET x == State(p, m, b, r) IN x.ret = r /\ x.msg = m /\ x.parser = p
  BY DEF State

\* Returning leads anywhere.
LEMMA ReturnLeads ==
    ASSUME NEW n \in Nat, NEW s \in HttpCalls(n), s.parser.tag # "TRAILER", s.ret # ERROR
    PROVE  /\ Waits(s) \in HttpCalls(n) /\ Leads(s, Waits(s), n)
           /\ Failed(s) \in HttpCalls(n) /\ Leads(s, Failed(s), n)
  <1>1. Waits(s) \in HttpCalls(n)
    BY ReturnType DEF Waits
  <1>2. Leads(s, Waits(s), n)
    <2>1. Waits(s).ret = WAITING /\ Waits(s).parser = s.parser
      BY ReturnedIs DEF Waits
    <2> QED
      BY <2>1, CodesDiffer DEF Leads
  <1>3. Leads(s, Failed(s), n)
    <2>1. Failed(s).ret = ERROR /\ Failed(s).parser.tag = s.parser.tag
      BY MovedIs DEF Failed
    <2> QED
      BY <2>1, CodesDiffer DEF Leads
  <1> QED
    BY <1>1, <1>2, <1>3, FailedType

\* A start line.
LEMMA LineLeads ==
    ASSUME NEW data \in Text, NEW s \in HttpCalls(Len(data)), s.parser.tag = "LINE", s.ret = PARSING
    PROVE  parseLine(s, data) \in HttpCalls(Len(data)) /\ Leads(s, parseLine(s, data), Len(data))
  <1> DEFINE n == Len(data)
             p == s.parser
             len == CRLF(data, 0)
             res == parseStart(SubSeq(data, 1, len), s.msg)
             at == p.already_parse + (len + 2)
             x == Moved(s, "HEADER", at, p.body_buf, res.msg, at, s.ret)
  <1>1. n \in Nat /\ data \in Seq(Symbols) /\ s \in HttpCalls(n)
    BY LenProperties DEF Text
  <1>2. p.already_parse = 0 /\ p.body_buf = <<>> /\ p.body_buf \in Text /\ s.ret \in Codes
    BY <1>1, HttpCallIs, CodesDiffer DEF Sound
  <1>3. len = -1 \/ (len \in Nat /\ 0 + len + 2 <= n)
    <2>1. 0 \in Nat
      OBVIOUS
    <2> QED
      BY <1>1, <2>1, LineRange
  <1>4. parseLine(s, data) = IF len = -1 THEN Waits(s) ELSE IF res.ret = READY THEN x ELSE Failed(s)
    BY <1>1, LineForm
  <1>5. ASSUME len # -1 PROVE x \in HttpCalls(n) /\ Leads(s, x, n)
    <2>1. res.msg \in HttpMsg
      <3>1. 1 \in Nat \ {0} /\ len \in Int /\ len <= n
        BY <1>1, <1>3, <1>5
      <3>2. SubSeq(data, 1, len) \in Text
        BY <3>1, PartOfText
      <3>3. s.msg \in HttpMsg
        BY <1>1, HttpCallIs
      <3> HIDE DEF len
      <3> QED
        BY <3>2, <3>3, StartType
    <2>2. at \in 0..n /\ at >= 2
      BY <1>1, <1>2, <1>3, <1>5
    <2>3. x \in HttpCalls(n)
      <3> HIDE DEF n, at, res
      <3> QED
        BY <1>1, <1>2, <2>1, <2>2, MovedType
    <2>4. x.parser.tag = "HEADER" /\ x.parser.already_parse = at
      BY MovedIs
    <2>5. Leads(s, x, n)
      <3> HIDE DEF x, at, n
      <3> QED
        BY <1>1, <1>2, <2>2, <2>4, CodesDiffer DEF Leads, Left
    <2> QED
      BY <2>3, <2>5
  <1>6. Waits(s) \in HttpCalls(n) /\ Leads(s, Waits(s), n) /\ Failed(s) \in HttpCalls(n) /\ Leads(s, Failed(s), n)
    BY <1>1, ReturnLeads, CodesDiffer
  <1> HIDE DEF len, res, x
  <1> QED
    BY <1>4, <1>5, <1>6

\* A header line.
LEMMA HeaderLeads ==
    ASSUME NEW data \in Text, NEW s \in HttpCalls(Len(data)), s.parser.tag = "HEADER", s.ret = PARSING
    PROVE  parseHeader(s, data) \in HttpCalls(Len(data)) /\ Leads(s, parseHeader(s, data), Len(data))
  <1> DEFINE n == Len(data)
             p == s.parser
             at == p.already_parse
             len == CRLF(data, at)
             line == SubSeq(data, at + 1, at + len)
             field == headerSplit(line)
             z == Members("BODY", at + 2, BodySize(s.msg), IsChunked(p.chunked, s.msg), p.body_buf)
             x == State(z, s.msg, at + 2, s.ret)
             y == Moved(s, p.tag, at + (len + 2), p.body_buf,
                        setHeader(s.msg, field[1], field[2]), s.base, s.ret)
  <1>1. n \in Nat /\ data \in Seq(Symbols) /\ s \in HttpCalls(n)
    BY LenProperties DEF Text
  <1>2. /\ at \in 0..n /\ p.body_buf = <<>> /\ p.body_buf \in Text /\ s.ret \in Codes
        /\ s.msg \in HttpMsg /\ s.base \in 0..n /\ p.chunked \in BOOLEAN /\ p.content_length \in Nat
    BY <1>1, HttpCallIs DEF Sound
  <1>3. len = -1 \/ (len \in Nat /\ at + len + 2 <= n)
    <2>1. at \in Nat
      BY <1>2
    <2> HIDE DEF at
    <2> QED
      BY <1>1, <2>1, LineRange
  <1>4. parseHeader(s, data) =
          IF len = -1 THEN Waits(s) ELSE IF len = 0 THEN x
          ELSE IF field = <<>> THEN Failed(s) ELSE y
    BY <1>1, HeaderForm
  <1>5. ASSUME len # -1 PROVE x \in HttpCalls(n) /\ Leads(s, x, n)
    <2>1. at + 2 \in 0..n
      BY <1>1, <1>2, <1>3, <1>5
    <2>2. BodySize(s.msg) \in Nat
      BY <1>2, BodySizeType
    <2>3. IsChunked(p.chunked, s.msg) \in BOOLEAN
      BY <1>2 DEF IsChunked
    <2>4. Len(<<>>) <= BodySize(s.msg)
      BY <2>2
    <2>5. x \in HttpCalls(n)
      <3> HIDE DEF n, at, p
      <3> QED
        BY <1>1, <1>2, <2>1, <2>2, <2>3, <2>4, StateType
    <2>6. x.parser.tag = "BODY" /\ x.parser.already_parse = at + 2
      BY DEF State, Members
    <2>7. Leads(s, x, n)
      <3> HIDE DEF x, n
      <3> QED
        BY <1>1, <1>2, <2>1, <2>6, CodesDiffer, SMTT(30) DEF Leads, Left
    <2> QED
      BY <2>5, <2>7
  <1>6. ASSUME len # -1, field # <<>> PROVE y \in HttpCalls(n) /\ Leads(s, y, n)
    <2>1. setHeader(s.msg, field[1], field[2]) \in HttpMsg
      <3>1. at + 1 \in Nat \ {0} /\ at + len \in Int /\ at + len <= n
        BY <1>1, <1>2, <1>3, <1>6, SMTT(30)
      <3>2. line \in Text
        BY <3>1, PartOfText
      <3> HIDE DEF line
      <3>3. field[1] \in Text /\ field[2] \in Text
        BY <1>6, <3>2, HeaderSplitType
      <3> QED
        BY <1>2, <3>3, SetHeaderType
    <2>2. at + (len + 2) \in 0..n /\ at + (len + 2) >= at + 2
      BY <1>1, <1>2, <1>3, <1>6, SMTT(30)
    <2>3. y \in HttpCalls(n)
      <3> DEFINE b == s.base
                 e == at + (len + 2)
                 m == setHeader(s.msg, field[1], field[2])
      <3>1. m \in HttpMsg /\ e \in 0..n /\ b \in 0..n
        BY <1>2, <2>1, <2>2
      <3> HIDE DEF n, e, m, b
      <3>2. Moved(s, "HEADER", e, p.body_buf, m, b, s.ret) \in HttpCalls(n)
        BY <1>1, <1>2, <3>1, MovedType
      <3> QED
        BY <3>2 DEF e, m, b
    <2>4. y.parser.tag = "HEADER" /\ y.parser.already_parse = at + (len + 2)
      BY MovedIs
    <2>5. Leads(s, y, n)
      <3> HIDE DEF y, n
      <3> QED
        BY <1>1, <1>2, <2>2, <2>4, CodesDiffer DEF Leads, Left
    <2> QED
      BY <2>3, <2>5
  <1>7. Waits(s) \in HttpCalls(n) /\ Leads(s, Waits(s), n) /\ Failed(s) \in HttpCalls(n) /\ Leads(s, Failed(s), n)
    BY <1>1, ReturnLeads, CodesDiffer
  <1> HIDE DEF len, field, x, y
  <1> QED
    BY <1>4, <1>5, <1>6, <1>7

\* A plain body: what is in body_buf_ then.
LEMMA SofarIs ==
    ASSUME NEW n \in Nat, NEW s \in HttpCalls(n), NEW data \in Text, n <= Len(data),
           s.parser.tag = "BODY", ~s.parser.chunked
    PROVE  LET p == s.parser IN
           /\ Sofar(p, data) \in Text
           /\ Len(Sofar(p, data)) = Len(p.body_buf) + Part(p, data)
           /\ Part(p, data) \in Nat /\ Len(p.body_buf) \in Nat
           /\ p.already_parse + Part(p, data) <= Len(data)
           /\ Len(p.body_buf) + Part(p, data) <= p.content_length
  <1> DEFINE p == s.parser
             a == p.content_length - Len(p.body_buf)
             b == Len(data) - p.already_parse
             k == Part(p, data)
             new == SubSeq(data, p.already_parse + 1, p.already_parse + k)
  <1>1. a \in Nat /\ b \in Nat /\ k = IF a <= b THEN a ELSE b
    BY PartIs
  <1>2. /\ p.already_parse \in Nat /\ p.content_length \in Nat
        /\ p.body_buf \in Seq(Symbols) /\ data \in Seq(Symbols)
    BY HttpCallIs DEF Text
  <1>3. Len(data) \in Nat /\ Len(p.body_buf) \in Nat
    BY <1>2, LenProperties
  <1>4. k \in Nat /\ p.already_parse + k <= Len(data) /\ Len(p.body_buf) + k <= p.content_length
    <2> DEFINE at == p.already_parse
               c == p.content_length
               l == Len(p.body_buf)
               d == Len(data)
    <2>1. /\ at \in Nat /\ c \in Nat /\ l \in Nat /\ d \in Nat
          /\ c - l \in Nat /\ d - at \in Nat /\ k = IF c - l <= d - at THEN c - l ELSE d - at
      BY <1>1, <1>2, <1>3
    <2> HIDE DEF at, c, l, d, k
    <2>2. k \in Nat /\ at + k <= d /\ l + k <= c
      BY <2>1
    <2> QED
      BY <2>2 DEF at, c, l, d
  <1>5. Sofar(p, data) = p.body_buf \o new
    BY DEF Sofar
  <1> HIDE DEF k
  <1> HIDE DEF p
  <1>6. p.already_parse + 1 \in Nat \ {0} /\ p.already_parse + k \in Int
    <2>1. p.already_parse \in Nat /\ k \in Nat
      BY <1>2, <1>4
    <2> QED
      BY <2>1
  <1>7. new \in Seq(Symbols) /\ Len(new) = IF p.already_parse + 1 <= p.already_parse + k
                                           THEN p.already_parse + k - (p.already_parse + 1) + 1 ELSE 0
    BY <1>2, <1>4, <1>6, PartType
  <1> HIDE DEF new
  <1>8. Len(new) = k
    BY <1>2, <1>4, <1>7
  <1>9. Sofar(p, data) \in Seq(Symbols) /\ Len(Sofar(p, data)) = Len(p.body_buf) + Len(new)
    BY <1>2, <1>5, <1>7, ConcatProperties, SMTT(30)
  <1> QED
    BY <1>3, <1>4, <1>8, <1>9 DEF Text, k, p

\* A message whose body was set.
LEMMA BodyType ==
    ASSUME NEW m \in HttpMsg, NEW body \in Text
    PROVE  [m EXCEPT !.body = body] \in HttpMsg
  BY DEF HttpMsg

\* A plain body.
LEMMA PlainLeads ==
    ASSUME NEW data \in Text, NEW s \in HttpCalls(Len(data)), s.parser.tag = "BODY",
           ~s.parser.chunked, s.ret = PARSING
    PROVE  parsePlain(s, data) \in HttpCalls(Len(data)) /\ Leads(s, parsePlain(s, data), Len(data))
  <1> DEFINE n == Len(data)
             p == s.parser
             at == p.already_parse + Part(p, data)
             body == Sofar(p, data)
             full == [s.msg EXCEPT !.body = body]
             b == s.base
             x == Moved(s, READY, at, <<>>, full, b, s.ret)
             y == Moved(s, "BODY", at, body, s.msg, b, WAITING)
  <1>1. n \in Nat /\ n <= n /\ s \in HttpCalls(n)
    BY LenProperties DEF Text
  <1>2. /\ p.already_parse \in 0..n /\ s.ret \in Codes /\ WAITING \in Codes /\ <<>> \in Text
        /\ s.msg \in HttpMsg /\ b \in 0..n /\ p.content_length \in Nat
    BY <1>1, HttpCallIs, EmptySeq DEF Codes, Text
  <1>3. /\ body \in Text /\ Len(body) = Len(p.body_buf) + Part(p, data)
        /\ Part(p, data) \in Nat /\ Len(p.body_buf) \in Nat /\ at <= n
        /\ Len(body) <= p.content_length
    BY <1>1, SofarIs
  <1>4. at \in 0..n /\ at >= p.already_parse
    BY <1>1, <1>2, <1>3
  <1>5. parsePlain(s, data) = IF Len(body) >= p.content_length THEN x ELSE y
    BY <1>1, <1>3, PlainForm
  <1>6. full \in HttpMsg
    BY <1>2, <1>3, BodyType
  <1> HIDE DEF at, body, full, b
  <1>7. x \in HttpCalls(n)
    <2> HIDE DEF n
    <2> QED
      BY <1>1, <1>2, <1>4, <1>6, CodesDiffer, MovedType
  <1>8. y \in HttpCalls(n)
    <2> HIDE DEF n
    <2> QED
      BY <1>1, <1>2, <1>3, <1>4, MovedType
  <1>9. x.parser.tag = READY /\ x.parser.already_parse = at /\ y.ret = WAITING /\ y.parser.tag = "BODY"
    BY MovedIs
  <1> HIDE DEF x, y, n
  <1>10. Leads(s, x, n) /\ Leads(s, y, n)
    BY <1>1, <1>2, <1>4, <1>9, CodesDiffer DEF Leads, Left
  <1> QED
    BY <1>5, <1>7, <1>8, <1>10 DEF n

\* The data of a chunk is a text.
LEMMA ChunkBody ==
    ASSUME NEW n \in Nat, NEW s \in HttpCalls(n), NEW data \in Text,
           LineAt(s.parser, data) \in Nat, SizeAt(s.parser, data) \in Nat,
           NextAt(s.parser, data) <= Len(data)
    PROVE  WithChunk(s.parser, data) \in Text
  <1> DEFINE p == s.parser
             start == p.already_parse + LineAt(p, data) + 2
             end == start + SizeAt(p, data)
             chunk == SubSeq(data, start + 1, end)
  <1>1. p.already_parse \in Nat /\ p.body_buf \in Text /\ Len(data) \in Nat
    BY HttpCallIs, LenProperties DEF Text
  <1>2. start + 1 \in Nat \ {0} /\ end \in Int /\ end <= Len(data)
    BY <1>1, SMTT(30) DEF NextAt
  <1>3. WithChunk(p, data) = p.body_buf \o chunk
    BY DEF WithChunk
  <1> HIDE DEF start, end
  <1>4. chunk \in Text
    BY <1>2, PartOfText
  <1> HIDE DEF chunk, p
  <1>5. p.body_buf \o chunk \in Text
    BY <1>1, <1>4, ConcatProperties DEF Text
  <1> QED
    BY <1>3, <1>5 DEF p

\* A chunk.
LEMMA ChunkLeads ==
    ASSUME NEW data \in Text, NEW s \in HttpCalls(Len(data)), s.parser.tag = "BODY",
           s.parser.chunked, s.ret = PARSING
    PROVE  parseChunk(s, data) \in HttpCalls(Len(data)) /\ Leads(s, parseChunk(s, data), Len(data))
  <1> DEFINE n == Len(data)
             p == s.parser
             at == p.already_parse
             b == s.base
             len == LineAt(p, data)
             size == SizeAt(p, data)
             next == NextAt(p, data)
             body == WithChunk(p, data)
             d == at + (len + 2)
             e == at + (next - at)
             x == Moved(s, "TRAILER", d, p.body_buf, s.msg, b, s.ret)
             y == Moved(s, "BODY", b, body, s.msg, b, ERROR)
             z == Moved(s, "BODY", e, body, s.msg, b, s.ret)
  <1>1. n \in Nat /\ s \in HttpCalls(n)
    BY LenProperties DEF Text
  <1>2. /\ at \in 0..n /\ s.ret \in Codes /\ ERROR \in Codes /\ p.body_buf \in Text
        /\ s.msg \in HttpMsg /\ b \in 0..n
    BY <1>1, HttpCallIs DEF Codes
  <1>3. len = -1 \/ (len \in Nat /\ (size = -1 \/ size \in Nat))
    BY <1>1, ChunkParts
  <1>4. parseChunk(s, data) =
          IF len = -1 THEN Waits(s)
          ELSE IF len = 0 \/ size = -1 THEN Failed(s)
          ELSE IF next > Len(data) THEN Waits(s)
          ELSE IF size = 0 THEN x
          ELSE IF SubSeq(data, next - 1, next) # EOL THEN y
          ELSE z
    BY <1>1, ChunkForm
  <1>5. Waits(s) \in HttpCalls(n) /\ Leads(s, Waits(s), n) /\ Failed(s) \in HttpCalls(n) /\ Leads(s, Failed(s), n)
    BY <1>1, ReturnLeads, CodesDiffer
  <1>6. next = at + len + 2 + size + 2
    BY DEF NextAt
  <1> HIDE DEF b
  <1>7. ASSUME len # -1, size # -1, ~(next > n) PROVE x \in HttpCalls(n) /\ Leads(s, x, n)
    <2>1. d \in 0..n /\ d + 2 <= n /\ d >= at + 2
      <3> HIDE DEF n, at, len, size, next
      <3> QED
        BY <1>1, <1>2, <1>3, <1>6, <1>7, SMTT(30)
    <2>2. x.parser.tag = "TRAILER" /\ x.parser.already_parse = d
      BY MovedIs
    <2>3. x \in HttpCalls(n)
      <3> HIDE DEF n, d
      <3> QED
        BY <1>1, <1>2, <2>1, CodesDiffer, MovedType
    <2>4. Leads(s, x, n)
      <3> HIDE DEF x, n, d
      <3> QED
        BY <1>1, <1>2, <2>1, <2>2, CodesDiffer DEF Leads, Left
    <2> QED
      BY <2>3, <2>4
  <1>8. ASSUME len # -1, size # -1, ~(next > n)
        PROVE  y \in HttpCalls(n) /\ Leads(s, y, n) /\ z \in HttpCalls(n) /\ Leads(s, z, n)
    <2>1. e \in 0..n /\ e >= at + 2
      <3> HIDE DEF n, at, len, size, next
      <3> QED
        BY <1>1, <1>2, <1>3, <1>6, <1>8
    <2>2. body \in Text
      <3>1. len \in Nat /\ size \in Nat /\ next <= Len(data)
        <4>1. next \in Int /\ n \in Int /\ len \in Nat /\ size \in Nat
          <5> HIDE DEF n, at, len, size, next
          <5> QED
            BY <1>1, <1>2, <1>3, <1>6, <1>8
        <4> HIDE DEF next, len, size
        <4> QED
          BY <1>8, <4>1
      <3> QED
        BY <1>1, <3>1, ChunkBody
    <2>3. /\ y.parser.tag = "BODY" /\ y.ret = ERROR
          /\ z.parser.tag = "BODY" /\ z.parser.already_parse = e
      BY MovedIs
    <2>4. y \in HttpCalls(n)
      <3> HIDE DEF n, body
      <3> QED
        BY <1>1, <1>2, <2>2, CodesDiffer, MovedType
    <2>5. z \in HttpCalls(n)
      <3> HIDE DEF n, body, e
      <3> QED
        BY <1>1, <1>2, <2>1, <2>2, CodesDiffer, MovedType
    <2>6. Leads(s, y, n) /\ Leads(s, z, n)
      <3> HIDE DEF y, z, n, e
      <3> QED
        BY <1>1, <1>2, <2>1, <2>3, CodesDiffer DEF Leads, Left
    <2> QED
      BY <2>4, <2>5, <2>6
  <1> HIDE DEF len, size, next, x, y, z
  <1> QED
    BY <1>4, <1>5, <1>7, <1>8

\* A trailer line.
LEMMA TrailerLeads ==
    ASSUME NEW data \in Text, NEW s \in HttpCalls(Len(data)), s.parser.tag = "TRAILER"
    PROVE  parseTrailer(s, data) \in HttpCalls(Len(data)) /\ Leads(s, parseTrailer(s, data), Len(data))
  <1> DEFINE n == Len(data)
             p == s.parser
             at == p.already_parse
             b == s.base
             len == LineAt(p, data)
             full == [s.msg EXCEPT !.body = p.body_buf]
             d == at + 2
             e == at + (len + 2)
             x == Moved(s, "BODY", at, p.body_buf, s.msg, b, WAITING)
             y == Moved(s, READY, d, <<>>, full, b, s.ret)
             z == Moved(s, "TRAILER", e, p.body_buf, s.msg, b, s.ret)
  <1>1. n \in Nat /\ s \in HttpCalls(n)
    BY LenProperties DEF Text
  <1>2. /\ at \in 0..n /\ s.ret \in Codes /\ WAITING \in Codes /\ p.body_buf \in Text
        /\ s.msg \in HttpMsg /\ b \in 0..n /\ s.ret = PARSING /\ p.chunked /\ <<>> \in Text
    BY <1>1, HttpCallIs, EmptySeq DEF Codes, Sound, Text
  <1>3. len = -1 \/ (len \in Nat /\ at + len + 2 <= n)
    BY <1>1, ChunkParts
  <1>4. parseTrailer(s, data) = IF len = -1 THEN x ELSE IF len = 0 THEN y ELSE z
    BY <1>1, TrailerForm
  <1>5. full \in HttpMsg
    BY <1>2, BodyType
  <1> HIDE DEF b, full
  <1>6. x \in HttpCalls(n)
    <2> HIDE DEF n, at
    <2> QED
      BY <1>1, <1>2, CodesDiffer, MovedType
  <1>7. Leads(s, x, n)
    <2>1. x.ret = WAITING /\ x.parser.tag = "BODY"
      BY MovedIs
    <2> QED
      BY <2>1, CodesDiffer DEF Leads
  <1>8. ASSUME len # -1 PROVE y \in HttpCalls(n) /\ Leads(s, y, n)
    <2>1. d \in 0..n /\ d >= at
      <3> HIDE DEF n, at, len
      <3> QED
        BY <1>1, <1>2, <1>3, <1>8
    <2>2. y.parser.tag = READY /\ y.parser.already_parse = d
      BY MovedIs
    <2>3. y \in HttpCalls(n)
      <3> HIDE DEF n, d
      <3> QED
        BY <1>1, <1>2, <1>5, <2>1, CodesDiffer, MovedType
    <2>4. Leads(s, y, n)
      <3> HIDE DEF y, n, d
      <3> QED
        BY <1>1, <1>2, <2>1, <2>2, CodesDiffer DEF Leads, Left
    <2> QED
      BY <2>3, <2>4
  <1>9. ASSUME len # -1 PROVE z \in HttpCalls(n) /\ Leads(s, z, n)
    <2>1. e \in 0..n /\ e >= at + 2
      <3> HIDE DEF n, at, len
      <3> QED
        BY <1>1, <1>2, <1>3, <1>9
    <2>2. z.parser.tag = "TRAILER" /\ z.parser.already_parse = e
      BY MovedIs
    <2>3. z \in HttpCalls(n)
      <3> HIDE DEF n, e
      <3> QED
        BY <1>1, <1>2, <2>1, CodesDiffer, MovedType
    <2>4. Leads(s, z, n)
      <3> HIDE DEF z, n, e
      <3> QED
        BY <1>1, <1>2, <2>1, <2>2, CodesDiffer DEF Leads, Left
    <2> QED
      BY <2>3, <2>4
  <1> HIDE DEF len, x, y, z
  <1> QED
    BY <1>4, <1>6, <1>7, <1>8, <1>9

\* A turn.
LEMMA HttpLeads ==
    ASSUME NEW data \in Text, NEW s \in HttpCalls(Len(data)), s.ret = PARSING
    PROVE  HttpTurn(s, data) \in HttpCalls(Len(data)) /\ Leads(s, HttpTurn(s, data), Len(data))
  <1> DEFINE n == Len(data)
             tag == s.parser.tag
  <1>1. n \in Nat /\ s \in HttpCalls(n)
    BY LenProperties DEF Text
  <1>2. tag \in {"LINE", "HEADER", "BODY", "TRAILER", READY} /\ s.parser.chunked \in BOOLEAN
    BY <1>1, HttpCallIs
  <1>3. CASE tag = "LINE"
    BY <1>3, LineLeads DEF HttpTurn
  <1>4. CASE tag = "HEADER"
    BY <1>4, HeaderLeads DEF HttpTurn
  <1>5. CASE tag = "BODY" /\ s.parser.chunked
    BY <1>5, ChunkLeads DEF HttpTurn
  <1>6. CASE tag = "BODY" /\ ~s.parser.chunked
    BY <1>6, PlainLeads DEF HttpTurn
  <1>7. CASE tag = "TRAILER"
    BY <1>7, TrailerLeads DEF HttpTurn
  <1>8. CASE tag = READY
    <2>1. tag \notin {"LINE", "HEADER", "BODY", "TRAILER"}
      BY <1>8, CodesDiffer
    <2>2. HttpTurn(s, data) = Return(s, READY)
      BY <2>1 DEF HttpTurn
    <2> DEFINE x == State(s.parser, s.msg, s.base, READY)
    <2>3. HttpTurn(s, data) = x
      BY <1>1, <2>2, Returns
    <2>4. x \in HttpCalls(n)
      <3> HIDE DEF n
      <3> QED
        BY <1>1, <2>1, CodesDiffer, ReturnType
    <2>5. x.ret = READY /\ x.parser = s.parser
      BY ReturnedIs
    <2> HIDE DEF x
    <2>6. Leads(s, x, n)
      BY <2>5, CodesDiffer DEF Leads
    <2> QED
      BY <2>3, <2>4, <2>6
  <1> QED
    BY <1>2, <1>3, <1>4, <1>5, <1>6, <1>7, <1>8

----------------------------------------------------------------------------
(* Two calls agree. *)

\* They return the same and, unless it is an error, have made the same of the
\* data.  (After an error already_parse_ tells where the part began, which is
\* another place for a call that began in the middle of it.)
Agree(s, t) ==
    /\ s.ret = t.ret
    /\ s.ret # ERROR => s.parser = t.parser /\ s.msg = t.msg

\* They go on from the same place.
Alike(s, t) == s.parser = t.parser /\ s.msg = t.msg /\ s.ret = PARSING /\ t.ret = PARSING

\* A turn that has what it needs does the same when more data is there.
Same(x, y, data, more) == x.ret # WAITING \/ data = more => Agree(x, y)

\* The same moves.
LEMMA MovesAgree ==
    ASSUME NEW s, NEW t, s.parser = t.parser, NEW tag, NEW at, NEW buf, NEW m, NEW b, NEW c, NEW r
    PROVE  Agree(Moved(s, tag, at, buf, m, b, r), Moved(t, tag, at, buf, m, c, r))
  <1> DEFINE x == Moved(s, tag, at, buf, m, b, r)
             y == Moved(t, tag, at, buf, m, c, r)
  <1>1. /\ x.ret = r /\ x.msg = m
        /\ x.parser = Members(tag, at, s.parser.content_length, s.parser.chunked, buf)
    BY MovedIs
  <1>2. /\ y.ret = r /\ y.msg = m
        /\ y.parser = Members(tag, at, t.parser.content_length, t.parser.chunked, buf)
    BY MovedIs
  <1> HIDE DEF x, y
  <1>3. Agree(x, y)
    BY <1>1, <1>2 DEF Agree
  <1> QED
    BY <1>3 DEF x, y

\* Waiting and failing.
LEMMA ReturnsAgree ==
    ASSUME NEW s, NEW t, Alike(s, t)
    PROVE  /\ Agree(Waits(s), Waits(t)) /\ Agree(Failed(s), Failed(t))
           /\ Agree(State(s.parser, s.msg, s.base, READY), State(t.parser, t.msg, t.base, READY))
           /\ Waits(s).ret = WAITING
  <1>1. Failed(s).ret = ERROR /\ Failed(t).ret = ERROR
    BY MovedIs DEF Failed
  <1>2. /\ Waits(s).ret = WAITING /\ Waits(s).msg = s.msg /\ Waits(s).parser = s.parser
        /\ Waits(t).ret = WAITING /\ Waits(t).msg = t.msg /\ Waits(t).parser = t.parser
    BY ReturnedIs DEF Waits
  <1>3. /\ State(s.parser, s.msg, s.base, READY).ret = READY
        /\ State(s.parser, s.msg, s.base, READY).msg = s.msg
        /\ State(s.parser, s.msg, s.base, READY).parser = s.parser
        /\ State(t.parser, t.msg, t.base, READY).ret = READY
        /\ State(t.parser, t.msg, t.base, READY).msg = t.msg
        /\ State(t.parser, t.msg, t.base, READY).parser = t.parser
    BY ReturnedIs
  <1> QED
    BY <1>1, <1>2, <1>3 DEF Agree, Alike

\* A line and the length of it, in more data.
LEMMA SameLine ==
    ASSUME NEW data \in Text, NEW more \in Text, Extends(data, more), NEW at \in Nat,
           CRLF(data, at) # -1 \/ data = more
    PROVE  /\ CRLF(more, at) = CRLF(data, at)
           /\ CRLF(data, at) # -1 =>
                 SubSeq(more, at + 1, at + CRLF(data, at)) = SubSeq(data, at + 1, at + CRLF(data, at))
  <1>1. CASE data = more
    BY <1>1
  <1>2. CASE CRLF(data, at) # -1
    <2> DEFINE len == CRLF(data, at)
    <2>1. data \in Seq(Symbols) /\ more \in Seq(Symbols)
      BY DEF Text
    <2>2. CRLF(more, at) = len
      BY <1>2, <2>1, LineStays
    <2>3. len \in Nat /\ at + len + 2 <= Len(data)
      BY <1>2, <2>1, LineRange
    <2>4. Len(data) \in Nat
      BY <2>1, LenProperties
    <2> HIDE DEF len
    <2>5. at + 1 \in Nat \ {0} /\ at + len \in Int /\ at + len <= Len(data)
      BY <2>3, <2>4
    <2>6. SubSeq(more, at + 1, at + len) = SubSeq(data, at + 1, at + len)
      BY <2>1, <2>5, PartStays
    <2> QED
      BY <2>2, <2>6 DEF len
  <1> QED
    BY <1>1, <1>2

\* A start line.
LEMMA LineAgrees ==
    ASSUME NEW data \in Text, NEW more \in Text, Extends(data, more),
           NEW s \in HttpCalls(Len(data)), NEW t \in HttpCalls(Len(more)), Alike(s, t)
    PROVE  Same(parseLine(s, data), parseLine(t, more), data, more)
  <1> DEFINE len(d) == CRLF(d, 0)
             res(x, d) == parseStart(SubSeq(d, 1, len(d)), x.msg)
             at(x, d) == x.parser.already_parse + (len(d) + 2)
             mv(x, d) == Moved(x, "HEADER", at(x, d), x.parser.body_buf, res(x, d).msg, at(x, d), x.ret)
  <1>1. Len(data) \in Nat /\ Len(more) \in Nat
    BY LenProperties DEF Text
  <1>2. parseLine(s, data) =
          IF len(data) = -1 THEN Waits(s) ELSE IF res(s, data).ret = READY THEN mv(s, data) ELSE Failed(s)
    BY <1>1, LineForm
  <1>3. parseLine(t, more) =
          IF len(more) = -1 THEN Waits(t) ELSE IF res(t, more).ret = READY THEN mv(t, more) ELSE Failed(t)
    BY <1>1, LineForm
  <1>4. ASSUME len(data) # -1 \/ data = more
        PROVE  /\ len(more) = len(data)
               /\ len(data) # -1 => res(s, data) = res(t, more)
    <2>1. 0 \in Nat /\ 0 + 1 = 1
      OBVIOUS
    <2>2. /\ CRLF(more, 0) = CRLF(data, 0)
          /\ CRLF(data, 0) # -1 =>
                 SubSeq(more, 0 + 1, 0 + CRLF(data, 0)) = SubSeq(data, 0 + 1, 0 + CRLF(data, 0))
      BY <1>4, <2>1, SameLine
    <2>3. CRLF(data, 0) # -1 => 0 + CRLF(data, 0) = CRLF(data, 0)
      <3>1. data \in Seq(Symbols)
        BY DEF Text
      <3> QED
        BY <2>1, <3>1, LineRange
    <2>4. s.msg = t.msg
      BY DEF Alike
    <2> QED
      BY <2>1, <2>2, <2>3, <2>4
  <1>5. ASSUME len(more) = len(data), res(s, data) = res(t, more)
        PROVE  Agree(mv(s, data), mv(t, more))
    <2>1. s.parser = t.parser /\ s.ret = t.ret
      BY DEF Alike
    <2>2. at(s, data) = at(t, more)
      BY <1>5, <2>1
    <2> DEFINE a == at(s, data)
               m == res(s, data).msg
               buf == s.parser.body_buf
               r == s.ret
    <2>3. /\ mv(s, data) = Moved(s, "HEADER", a, buf, m, a, r)
          /\ mv(t, more) = Moved(t, "HEADER", a, buf, m, a, r)
      BY <1>5, <2>1, <2>2
    <2> HIDE DEF a, m, buf, r, mv
    <2>4. Agree(Moved(s, "HEADER", a, buf, m, a, r), Moved(t, "HEADER", a, buf, m, a, r))
      BY <2>1, MovesAgree
    <2> QED
      BY <2>3, <2>4
  <1>6. Agree(Waits(s), Waits(t)) /\ Agree(Failed(s), Failed(t)) /\ Waits(s).ret = WAITING
    BY ReturnsAgree
  <1> HIDE DEF len, res, mv
  <1> QED
    BY <1>2, <1>3, <1>4, <1>5, <1>6 DEF Same

\* A header line.
LEMMA HeaderAgrees ==
    ASSUME NEW data \in Text, NEW more \in Text, Extends(data, more),
           NEW s \in HttpCalls(Len(data)), NEW t \in HttpCalls(Len(more)), Alike(s, t)
    PROVE  Same(parseHeader(s, data), parseHeader(t, more), data, more)
  <1> DEFINE p == s.parser
             at == p.already_parse
             len(d) == CRLF(d, at)
             field(d) == headerSplit(SubSeq(d, at + 1, at + len(d)))
             z == Members("BODY", at + 2, BodySize(s.msg), IsChunked(p.chunked, s.msg), p.body_buf)
             w(x) == State(z, s.msg, at + 2, s.ret)
             mv(x, d) == Moved(x, p.tag, at + (len(d) + 2), p.body_buf,
                               setHeader(s.msg, field(d)[1], field(d)[2]), x.base, s.ret)
  <1>1. Len(data) \in Nat /\ Len(more) \in Nat
    BY LenProperties DEF Text
  <1>2. parseHeader(s, data) =
          IF len(data) = -1 THEN Waits(s) ELSE IF len(data) = 0 THEN w(s)
          ELSE IF field(data) = <<>> THEN Failed(s) ELSE mv(s, data)
    BY <1>1, HeaderForm
  <1>3. p = t.parser /\ s.msg = t.msg /\ s.ret = t.ret
    BY DEF Alike
  <1>4. parseHeader(t, more) =
          IF len(more) = -1 THEN Waits(t) ELSE IF len(more) = 0 THEN w(t)
          ELSE IF field(more) = <<>> THEN Failed(t) ELSE mv(t, more)
    BY <1>1, <1>3, HeaderForm
  <1>5. ASSUME len(data) # -1 \/ data = more
        PROVE  /\ len(more) = len(data)
               /\ len(data) # -1 => field(data) = field(more)
    <2>1. at \in Nat
      BY <1>1, HttpCallIs
    <2> HIDE DEF at
    <2>2. /\ CRLF(more, at) = CRLF(data, at)
          /\ CRLF(data, at) # -1 =>
                 SubSeq(more, at + 1, at + CRLF(data, at)) = SubSeq(data, at + 1, at + CRLF(data, at))
      BY <1>5, <2>1, SameLine
    <2> QED
      BY <2>2
  <1>6. ASSUME len(more) = len(data), field(data) = field(more)
        PROVE  Agree(mv(s, data), mv(t, more))
    <2> DEFINE a == at + (len(data) + 2)
               m == setHeader(s.msg, field(data)[1], field(data)[2])
               buf == p.body_buf
               r == s.ret
               tag == p.tag
    <2>1. /\ mv(s, data) = Moved(s, tag, a, buf, m, s.base, r)
          /\ mv(t, more) = Moved(t, tag, a, buf, m, t.base, r)
      BY <1>6
    <2> HIDE DEF a, m, buf, r, tag, mv
    <2>2. Agree(Moved(s, tag, a, buf, m, s.base, r), Moved(t, tag, a, buf, m, t.base, r))
      BY <1>3, MovesAgree
    <2> QED
      BY <2>1, <2>2
  <1>7. Agree(w(s), w(t))
    BY DEF Agree
  <1>8. Agree(Waits(s), Waits(t)) /\ Agree(Failed(s), Failed(t)) /\ Waits(s).ret = WAITING
    BY ReturnsAgree
  <1> HIDE DEF len, field, mv, w
  <1> QED
    BY <1>2, <1>4, <1>5, <1>6, <1>7, <1>8 DEF Same

\* A plain body that is complete.
LEMMA PlainAgrees ==
    ASSUME NEW data \in Text, NEW more \in Text, Extends(data, more),
           NEW s \in HttpCalls(Len(data)), NEW t \in HttpCalls(Len(more)), Alike(s, t),
           s.parser.tag = "BODY", ~s.parser.chunked
    PROVE  Same(parsePlain(s, data), parsePlain(t, more), data, more)
  <1> DEFINE p == s.parser
             at(d) == p.already_parse + Part(p, d)
             body(d) == Sofar(p, d)
             x(u, d) == Moved(u, READY, at(d), <<>>, [s.msg EXCEPT !.body = body(d)], u.base, s.ret)
             y(u, d) == Moved(u, p.tag, at(d), body(d), s.msg, u.base, WAITING)
  <1>1. /\ Len(data) \in Nat /\ Len(more) \in Nat /\ Len(data) <= Len(more) /\ Len(data) <= Len(data)
        /\ Len(more) <= Len(more)
    BY LenProperties DEF Text, Extends
  <1>2. p = t.parser /\ s.msg = t.msg /\ s.ret = t.ret
    BY DEF Alike
  <1>3. /\ Part(p, data) \in Nat /\ Len(body(data)) = Len(p.body_buf) + Part(p, data)
        /\ Len(p.body_buf) \in Nat
    BY <1>1, SofarIs
  <1>4. Part(p, more) \in Nat
    BY <1>1, <1>2, SofarIs
  <1>5. parsePlain(s, data) = IF Len(body(data)) >= p.content_length THEN x(s, data) ELSE y(s, data)
    BY <1>1, <1>3, PlainForm
  <1>6. parsePlain(t, more) = IF Len(body(more)) >= p.content_length THEN x(t, more) ELSE y(t, more)
    BY <1>1, <1>2, <1>4, PlainForm
  <1>7. ASSUME Len(body(data)) >= p.content_length \/ data = more
        PROVE  Part(p, more) = Part(p, data) /\ body(more) = body(data)
    <2>1. CASE data = more
      BY <2>1
    <2>2. CASE Len(body(data)) >= p.content_length
      <3> DEFINE a == p.already_parse
                 c == p.content_length
                 l == Len(p.body_buf)
                 dl == Len(data)
                 ml == Len(more)
                 k == Part(p, data)
      <3>1. a \in Nat /\ c \in Nat
        BY <1>1, HttpCallIs
      <3>2. dl - a \in Nat /\ c - l \in Nat /\ k = IF c - l <= dl - a THEN c - l ELSE dl - a
        BY <1>1, PartIs
      <3>3. Part(p, more) = IF c - l <= ml - a THEN c - l ELSE ml - a
        BY <1>1, <1>2, PartIs
      <3>4. l + k >= c /\ l \in Nat /\ k \in Nat /\ dl \in Nat /\ ml \in Nat /\ dl <= ml
        BY <1>1, <1>3, <2>2
      <3> HIDE DEF a, c, l, dl, ml, k
      <3>5. Part(p, more) = k /\ a + k <= dl
        BY <3>1, <3>2, <3>3, <3>4
      <3>6. SubSeq(more, a + 1, a + k) = SubSeq(data, a + 1, a + k)
        <4>1. a + 1 \in Nat \ {0} /\ a + k \in Int /\ a + k <= Len(data)
          BY <3>1, <3>4, <3>5 DEF dl
        <4>2. data \in Seq(Symbols) /\ more \in Seq(Symbols)
          BY DEF Text
        <4> QED
          BY <4>1, <4>2, PartStays, ZenonT(30)
      <3> QED
        BY <3>5, <3>6 DEF a, k, Sofar
    <2> QED
      BY <1>7, <2>1, <2>2
  <1>8. ASSUME Part(p, more) = Part(p, data), body(more) = body(data)
        PROVE  Agree(x(s, data), x(t, more)) /\ Agree(y(s, data), y(t, more))
    <2> DEFINE e == at(data)
               f == body(data)
               m == [s.msg EXCEPT !.body = body(data)]
               tag == p.tag
    <2>1. /\ x(s, data) = Moved(s, READY, e, <<>>, m, s.base, s.ret)
          /\ x(t, more) = Moved(t, READY, e, <<>>, m, t.base, s.ret)
          /\ y(s, data) = Moved(s, tag, e, f, s.msg, s.base, WAITING)
          /\ y(t, more) = Moved(t, tag, e, f, s.msg, t.base, WAITING)
      BY <1>8
    <2> HIDE DEF e, f, m, tag, x, y
    <2>2. Agree(Moved(s, READY, e, <<>>, m, s.base, s.ret), Moved(t, READY, e, <<>>, m, t.base, s.ret))
      BY <1>2, MovesAgree
    <2>3. Agree(Moved(s, tag, e, f, s.msg, s.base, WAITING), Moved(t, tag, e, f, s.msg, t.base, WAITING))
      BY <1>2, MovesAgree
    <2> QED
      BY <2>1, <2>2, <2>3
  <1>9. y(s, data).ret = WAITING
    BY MovedIs
  <1> HIDE DEF at, body, x, y
  <1> QED
    BY <1>5, <1>6, <1>7, <1>8, <1>9 DEF Same

\* A chunk that is there in more data.
LEMMA SameChunk ==
    ASSUME NEW data \in Text, NEW more \in Text, Extends(data, more),
           NEW n \in Nat, NEW s \in HttpCalls(n), LineAt(s.parser, data) # -1 \/ data = more
    PROVE  LET p == s.parser IN
           /\ LineAt(p, more) = LineAt(p, data)
           /\ LineAt(p, data) # -1 => /\ SizeAt(p, more) = SizeAt(p, data)
                                      /\ NextAt(p, more) = NextAt(p, data)
           /\ LineAt(p, data) \in Nat /\ SizeAt(p, data) \in Nat /\ NextAt(p, data) <= Len(data)
                => /\ WithChunk(p, more) = WithChunk(p, data)
                   /\ SubSeq(more, NextAt(p, more) - 1, NextAt(p, more))
                         = SubSeq(data, NextAt(p, data) - 1, NextAt(p, data))
  <1> DEFINE p == s.parser
             at == p.already_parse
             len == LineAt(p, data)
             size == SizeAt(p, data)
             next == NextAt(p, data)
             start == at + len + 2
  <1>1. at \in Nat
    BY HttpCallIs
  <1>2. /\ LineAt(p, more) = len
        /\ len # -1 => SubSeq(more, at + 1, at + len) = SubSeq(data, at + 1, at + len)
    <2> HIDE DEF at
    <2>1. CRLF(data, at) # -1 \/ data = more
      BY DEF LineAt, at
    <2>2. /\ CRLF(more, at) = CRLF(data, at)
          /\ CRLF(data, at) # -1 =>
                 SubSeq(more, at + 1, at + CRLF(data, at)) = SubSeq(data, at + 1, at + CRLF(data, at))
      BY <1>1, <2>1, SameLine
    <2> QED
      BY <2>2 DEF LineAt, at
  <1>3. len # -1 => SizeAt(p, more) = size
    BY <1>2 DEF SizeAt
  <1>4. len # -1 => NextAt(p, more) = next
    BY <1>2, <1>3 DEF NextAt
  <1>5. ASSUME len \in Nat, size \in Nat, next <= Len(data)
        PROVE  /\ WithChunk(p, more) = WithChunk(p, data)
               /\ SubSeq(more, next - 1, next) = SubSeq(data, next - 1, next)
    <2>1. next = start + size + 2
      BY DEF NextAt
    <2>2. data \in Seq(Symbols) /\ more \in Seq(Symbols)
      BY DEF Text
    <2>3. Len(data) \in Nat
      BY <2>2, LenProperties
    <2>4. start \in Nat
      <3> HIDE DEF at, len
      <3> QED
        BY <1>1, <1>5
    <2> HIDE DEF start, next, size
    <2>5. /\ start + 1 \in Nat \ {0} /\ start + size \in Int /\ start + size <= Len(data)
          /\ next - 1 \in Nat \ {0} /\ next \in Int
      BY <1>5, <2>1, <2>3, <2>4
    <2>6. SubSeq(more, start + 1, start + size) = SubSeq(data, start + 1, start + size)
      BY <2>2, <2>5, PartStays, ZenonT(30)
    <2>7. SubSeq(more, next - 1, next) = SubSeq(data, next - 1, next)
      BY <1>5, <2>2, <2>5, PartStays
    <2>8. len # -1
      <3> HIDE DEF len
      <3> QED
        BY <1>5
    <2>9. /\ WithChunk(p, data) = p.body_buf \o SubSeq(data, start + 1, start + size)
          /\ WithChunk(p, more) = p.body_buf \o SubSeq(more, start + 1, start + size)
      BY <1>2, <1>3, <2>8 DEF WithChunk, start, size
    <2> QED
      BY <2>6, <2>7, <2>9
  <1>6. len \in Nat => len # -1
    <2> HIDE DEF len
    <2> QED
      OBVIOUS
  <1> HIDE DEF len, size, next
  <1> QED
    BY <1>2, <1>3, <1>4, <1>5, <1>6 DEF len, size, next

\* A chunk.
LEMMA ChunkAgrees ==
    ASSUME NEW data \in Text, NEW more \in Text, Extends(data, more),
           NEW s \in HttpCalls(Len(data)), NEW t \in HttpCalls(Len(more)), Alike(s, t)
    PROVE  Same(parseChunk(s, data), parseChunk(t, more), data, more)
  <1> DEFINE p == s.parser
             at == p.already_parse
             len(d) == LineAt(p, d)
             size(d) == SizeAt(p, d)
             next(d) == NextAt(p, d)
             body(d) == WithChunk(p, d)
             end(d) == SubSeq(d, next(d) - 1, next(d))
             x(u, d) == Moved(u, "TRAILER", at + (len(d) + 2), p.body_buf, s.msg, u.base, s.ret)
             y(u, d) == Moved(u, p.tag, u.base, body(d), s.msg, u.base, ERROR)
             z(u, d) == Moved(u, p.tag, at + (next(d) - at), body(d), s.msg, u.base, s.ret)
  <1>1. Len(data) \in Nat /\ Len(more) \in Nat /\ Len(data) <= Len(more)
    BY LenProperties DEF Text, Extends
  <1>2. p = t.parser /\ s.msg = t.msg /\ s.ret = t.ret
    BY DEF Alike
  <1>3. parseChunk(s, data) =
          IF len(data) = -1 THEN Waits(s)
          ELSE IF len(data) = 0 \/ size(data) = -1 THEN Failed(s)
          ELSE IF next(data) > Len(data) THEN Waits(s)
          ELSE IF size(data) = 0 THEN x(s, data)
          ELSE IF end(data) # EOL THEN y(s, data)
          ELSE z(s, data)
    BY <1>1, ChunkForm
  <1>4. parseChunk(t, more) =
          IF len(more) = -1 THEN Waits(t)
          ELSE IF len(more) = 0 \/ size(more) = -1 THEN Failed(t)
          ELSE IF next(more) > Len(more) THEN Waits(t)
          ELSE IF size(more) = 0 THEN x(t, more)
          ELSE IF end(more) # EOL THEN y(t, more)
          ELSE z(t, more)
    BY <1>1, <1>2, ChunkForm
  <1>5. Agree(Waits(s), Waits(t)) /\ Agree(Failed(s), Failed(t)) /\ Waits(s).ret = WAITING
    BY ReturnsAgree
  <1>6. ASSUME len(more) = len(data) PROVE Agree(x(s, data), x(t, more))
    <2> DEFINE e == at + (len(data) + 2)
               buf == p.body_buf
    <2>1. /\ x(s, data) = Moved(s, "TRAILER", e, buf, s.msg, s.base, s.ret)
          /\ x(t, more) = Moved(t, "TRAILER", e, buf, s.msg, t.base, s.ret)
      BY <1>6
    <2> HIDE DEF e, buf, x
    <2>2. Agree(Moved(s, "TRAILER", e, buf, s.msg, s.base, s.ret),
                Moved(t, "TRAILER", e, buf, s.msg, t.base, s.ret))
      BY <1>2, MovesAgree
    <2> QED
      BY <2>1, <2>2
  <1>7. Agree(y(s, data), y(t, more))
    <2>1. y(s, data).ret = ERROR /\ y(t, more).ret = ERROR
      BY MovedIs
    <2> HIDE DEF y
    <2> QED
      BY <2>1 DEF Agree
  <1>8. ASSUME next(more) = next(data), body(more) = body(data) PROVE Agree(z(s, data), z(t, more))
    <2> DEFINE e == at + (next(data) - at)
               f == body(data)
               tag == p.tag
    <2>1. /\ z(s, data) = Moved(s, tag, e, f, s.msg, s.base, s.ret)
          /\ z(t, more) = Moved(t, tag, e, f, s.msg, t.base, s.ret)
      BY <1>8
    <2> HIDE DEF e, f, tag, z
    <2>2. Agree(Moved(s, tag, e, f, s.msg, s.base, s.ret), Moved(t, tag, e, f, s.msg, t.base, s.ret))
      BY <1>2, MovesAgree
    <2> QED
      BY <2>1, <2>2
  <1>9. ASSUME len(data) # -1 \/ data = more
        PROVE  /\ len(more) = len(data)
               /\ len(data) # -1 => size(more) = size(data) /\ next(more) = next(data)
               /\ len(data) \in Nat /\ size(data) \in Nat /\ next(data) <= Len(data)
                     => body(more) = body(data) /\ end(more) = end(data)
    BY <1>1, <1>9, SameChunk
  <1>10. len(data) = -1 \/ (len(data) \in Nat /\ (size(data) = -1 \/ size(data) \in Nat))
    BY <1>1, ChunkParts
  <1>11. len(data) \in Nat /\ size(data) \in Nat => next(data) \in Int
    <2>1. at \in Nat
      BY <1>1, HttpCallIs
    <2>2. next(data) = at + len(data) + 2 + size(data) + 2
      BY DEF NextAt
    <2> HIDE DEF at, len, size, next
    <2> QED
      BY <2>1, <2>2
  <1> HIDE DEF len, size, next, body, end, x, y, z
  <1>12. CASE len(data) = -1
    BY <1>3, <1>4, <1>5, <1>9, <1>12 DEF Same
  <1>13. CASE len(data) # -1 /\ (len(data) = 0 \/ size(data) = -1)
    BY <1>3, <1>4, <1>5, <1>9, <1>13 DEF Same
  <1>14. CASE len(data) # -1 /\ ~(len(data) = 0 \/ size(data) = -1)
    <2>1. /\ len(more) = len(data) /\ size(more) = size(data) /\ next(more) = next(data)
          /\ next(data) \in Int
      BY <1>9, <1>10, <1>11, <1>14
    <2>2. CASE next(data) > Len(data)
      <3>1. Waits(s).ret = WAITING /\ parseChunk(s, data) = Waits(s)
        BY <1>3, <1>5, <1>14, <2>2
      <3>2. data = more => parseChunk(t, more) = Waits(t)
        BY <1>4, <1>14, <2>1, <2>2
      <3> QED
        BY <1>5, <3>1, <3>2 DEF Same
    <2>3. CASE ~(next(data) > Len(data))
      <3>1. /\ next(data) <= Len(data) /\ ~(next(more) > Len(more))
        BY <1>1, <2>1, <2>3
      <3>2. body(more) = body(data) /\ end(more) = end(data)
        BY <1>9, <1>10, <1>14, <3>1
      <3>3. Agree(x(s, data), x(t, more)) /\ Agree(z(s, data), z(t, more))
        BY <1>6, <1>8, <2>1, <3>2
      <3> QED
        BY <1>3, <1>4, <1>7, <1>14, <2>1, <2>3, <3>1, <3>2, <3>3 DEF Same
    <2> QED
      BY <2>2, <2>3
  <1> QED
    BY <1>12, <1>13, <1>14

\* A trailer line that is there.
LEMMA TrailerAgrees ==
    ASSUME NEW data \in Text, NEW more \in Text, Extends(data, more),
           NEW s \in HttpCalls(Len(data)), NEW t \in HttpCalls(Len(more)), Alike(s, t)
    PROVE  Same(parseTrailer(s, data), parseTrailer(t, more), data, more)
  <1> DEFINE p == s.parser
             at == p.already_parse
             buf == p.body_buf
             tag == p.tag
             full == [s.msg EXCEPT !.body = buf]
             len(d) == LineAt(p, d)
             e(d) == at + (len(d) + 2)
             x(u) == Moved(u, "BODY", at, buf, s.msg, u.base, WAITING)
             y(u) == Moved(u, READY, at + 2, <<>>, full, u.base, s.ret)
             z(u, d) == Moved(u, tag, e(d), buf, s.msg, u.base, s.ret)
  <1>1. Len(data) \in Nat /\ Len(more) \in Nat
    BY LenProperties DEF Text
  <1>2. p = t.parser /\ s.msg = t.msg /\ s.ret = t.ret
    BY DEF Alike
  <1>3. parseTrailer(s, data) =
          IF len(data) = -1 THEN x(s) ELSE IF len(data) = 0 THEN y(s) ELSE z(s, data)
    BY <1>1, TrailerForm
  <1>4. parseTrailer(t, more) =
          IF len(more) = -1 THEN x(t) ELSE IF len(more) = 0 THEN y(t) ELSE z(t, more)
    BY <1>1, <1>2, TrailerForm
  <1>5. len(data) # -1 \/ data = more => len(more) = len(data)
    BY <1>1, SameChunk
  <1>6. x(s).ret = WAITING
    BY MovedIs
  <1>7. Agree(x(s), x(t))
    <2> HIDE DEF at, buf
    <2> QED
      BY <1>2, MovesAgree
  <1>8. Agree(y(s), y(t))
    <2> DEFINE d == at + 2
    <2> HIDE DEF d, full
    <2>1. Agree(Moved(s, READY, d, <<>>, full, s.base, s.ret), Moved(t, READY, d, <<>>, full, t.base, s.ret))
      BY <1>2, MovesAgree
    <2> QED
      BY <2>1 DEF d
  <1>9. len(more) = len(data) => Agree(z(s, data), z(t, more))
    <2> DEFINE d == e(data)
    <2>1. len(more) = len(data) => e(more) = d
      OBVIOUS
    <2> HIDE DEF d, e, buf, tag, len
    <2>2. Agree(Moved(s, tag, d, buf, s.msg, s.base, s.ret), Moved(t, tag, d, buf, s.msg, t.base, s.ret))
      BY <1>2, MovesAgree
    <2> QED
      BY <2>1, <2>2 DEF d
  <1> HIDE DEF len, x, y, z
  <1> QED
    BY <1>3, <1>4, <1>5, <1>6, <1>7, <1>8, <1>9 DEF Same

\* A turn that has what it needs does the same when more data is there.
LEMMA HttpAgrees ==
    ASSUME NEW data \in Text, NEW more \in Text, Extends(data, more),
           NEW s \in HttpCalls(Len(data)), NEW t \in HttpCalls(Len(more)), Alike(s, t)
    PROVE  Same(HttpTurn(s, data), HttpTurn(t, more), data, more)
  <1> DEFINE n == Len(data)
             tag == s.parser.tag
  <1>1. n \in Nat /\ s \in HttpCalls(n) /\ Len(more) \in Nat
    BY LenProperties DEF Text
  <1>2. tag \in {"LINE", "HEADER", "BODY", "TRAILER", READY} /\ s.parser.chunked \in BOOLEAN
    BY <1>1, HttpCallIs
  <1>3. t.parser = s.parser
    BY DEF Alike
  <1>4. CASE tag = "LINE"
    BY <1>3, <1>4, LineAgrees DEF HttpTurn
  <1>5. CASE tag = "HEADER"
    BY <1>3, <1>5, HeaderAgrees DEF HttpTurn
  <1>6. CASE tag = "BODY" /\ s.parser.chunked
    BY <1>3, <1>6, ChunkAgrees DEF HttpTurn
  <1>7. CASE tag = "BODY" /\ ~s.parser.chunked
    BY <1>3, <1>7, PlainAgrees DEF HttpTurn
  <1>8. CASE tag = "TRAILER"
    BY <1>3, <1>8, TrailerAgrees DEF HttpTurn
  <1>9. CASE tag = READY
    <2>1. tag \notin {"LINE", "HEADER", "BODY", "TRAILER"}
      BY <1>9, CodesDiffer
    <2>2. HttpTurn(s, data) = Return(s, READY) /\ HttpTurn(t, more) = Return(t, READY)
      BY <1>3, <2>1 DEF HttpTurn
    <2>3. /\ HttpTurn(s, data) = State(s.parser, s.msg, s.base, READY)
          /\ HttpTurn(t, more) = State(t.parser, t.msg, t.base, READY)
      BY <1>1, <2>2, Returns
    <2> QED
      BY <2>3, ReturnsAgree DEF Same
  <1> QED
    BY <1>2, <1>4, <1>5, <1>6, <1>7, <1>8, <1>9

----------------------------------------------------------------------------
(* HTTP: a call that goes on where the last one waited. *)

\* States of a call on less data are states of a call on more.
LEMMA HttpCallsGrow ==
    ASSUME NEW n \in Nat, NEW k \in Nat, n <= k, NEW s \in HttpCalls(n)
    PROVE  s \in HttpCalls(k)
  <1>1. 0..n \subseteq 0..k
    OBVIOUS
  <1>2. s \in [parser : HttpParsers(n), msg : HttpMsg, base : 0..n, ret : Codes] /\ Sound(s)
    BY DEF HttpCalls
  <1>3. s.parser \in HttpParsers(k)
    BY <1>1, <1>2 DEF HttpParsers
  <1>4. s \in [parser : HttpParsers(k), msg : HttpMsg, base : 0..k, ret : Codes]
    <2> DEFINE P == HttpParsers(n)
               Q == HttpParsers(k)
    <2>1. s \in [parser : P, msg : HttpMsg, base : 0..n, ret : Codes] /\ s.parser \in Q
      BY <1>2, <1>3
    <2> HIDE DEF P, Q
    <2>2. s \in [parser : Q, msg : HttpMsg, base : 0..k, ret : Codes]
      BY <1>1, <2>1
    <2> QED
      BY <2>2 DEF Q
  <1> QED
    BY <1>2, <1>4 DEF HttpCalls

\* The state that the next call begins in.
LEMMA HttpCallAgain ==
    ASSUME NEW n \in Nat, NEW s \in HttpCalls(n), s.ret # ERROR
    PROVE  Call(s.parser, s.msg) \in HttpCalls(n)
  <1> DEFINE p == s.parser
             c == Call(p, s.msg)
  <1>1. /\ p.already_parse \in 0..n /\ s.msg \in HttpMsg /\ PARSING \in Codes
        /\ p \in HttpParsers(n) /\ Sound(s)
    BY HttpCallIs DEF Codes
  <1>2. c.parser = p /\ c.ret = PARSING /\ c.msg = s.msg
    BY DEF Call
  <1>3. c \in [parser : HttpParsers(n), msg : HttpMsg, base : 0..n, ret : Codes]
    <2> HIDE DEF p
    <2> QED
      BY <1>1 DEF Call
  <1> HIDE DEF c
  <1>4. Sound(c)
    BY <1>1, <1>2, CodesDiffer DEF Sound
  <1>5. c \in HttpCalls(n)
    BY <1>3, <1>4 DEF HttpCalls
  <1> QED
    BY <1>5 DEF c

\* Waiting leaves all but a plain body as it is.
LEMMA WaitsAsItIs ==
    ASSUME NEW data \in Text, NEW s \in HttpCalls(Len(data)), s.ret = PARSING,
           s.parser.tag # "TRAILER", ~(s.parser.tag = "BODY" /\ ~s.parser.chunked),
           HttpTurn(s, data).ret = WAITING
    PROVE  HttpTurn(s, data) = Waits(s)
  <1> DEFINE n == Len(data)
             p == s.parser
             tag == p.tag
  <1>1. n \in Nat /\ s \in HttpCalls(n)
    BY LenProperties DEF Text
  <1>2. tag \in {"LINE", "HEADER", "BODY", "TRAILER", READY} /\ p.chunked \in BOOLEAN
    BY <1>1, HttpCallIs
  <1>3. PARSING # WAITING /\ ERROR # WAITING /\ READY # WAITING
    BY CodesDiffer
  <1>4. Failed(s).ret = ERROR
    BY MovedIs DEF Failed
  <1>5. CASE tag = "LINE"
    <2> DEFINE len == CRLF(data, 0)
               res == parseStart(SubSeq(data, 1, len), s.msg)
               at == p.already_parse + (len + 2)
               x == Moved(s, "HEADER", at, p.body_buf, res.msg, at, s.ret)
    <2>1. HttpTurn(s, data) = parseLine(s, data)
      BY <1>5 DEF HttpTurn
    <2>2. parseLine(s, data) = IF len = -1 THEN Waits(s) ELSE IF res.ret = READY THEN x ELSE Failed(s)
      BY <1>1, LineForm
    <2>3. x.ret = PARSING
      BY MovedIs
    <2> HIDE DEF x, len, res
    <2> QED
      BY <1>3, <1>4, <2>1, <2>2, <2>3
  <1>6. CASE tag = "HEADER"
    <2> DEFINE at == p.already_parse
               len == CRLF(data, at)
               field == headerSplit(SubSeq(data, at + 1, at + len))
               z == Members("BODY", at + 2, BodySize(s.msg), IsChunked(p.chunked, s.msg), p.body_buf)
               x == State(z, s.msg, at + 2, s.ret)
               y == Moved(s, p.tag, at + (len + 2), p.body_buf,
                          setHeader(s.msg, field[1], field[2]), s.base, s.ret)
    <2>1. HttpTurn(s, data) = parseHeader(s, data)
      BY <1>6 DEF HttpTurn
    <2>2. parseHeader(s, data) = IF len = -1 THEN Waits(s) ELSE IF len = 0 THEN x
                                 ELSE IF field = <<>> THEN Failed(s) ELSE y
      BY <1>1, HeaderForm
    <2>3. x.ret = PARSING /\ y.ret = PARSING
      BY MovedIs, ReturnedIs
    <2> HIDE DEF x, y, len, field
    <2> QED
      BY <1>3, <1>4, <2>1, <2>2, <2>3
  <1>7. CASE tag = "BODY"
    <2> DEFINE at == p.already_parse
               len == LineAt(p, data)
               size == SizeAt(p, data)
               next == NextAt(p, data)
               x == Moved(s, "TRAILER", at + (len + 2), p.body_buf, s.msg, s.base, s.ret)
               y == Moved(s, p.tag, s.base, WithChunk(p, data), s.msg, s.base, ERROR)
               z == Moved(s, p.tag, at + (next - at), WithChunk(p, data), s.msg, s.base, s.ret)
    <2>1. HttpTurn(s, data) = parseChunk(s, data)
      BY <1>2, <1>7 DEF HttpTurn
    <2>2. parseChunk(s, data) =
            IF len = -1 THEN Waits(s)
            ELSE IF len = 0 \/ size = -1 THEN Failed(s)
            ELSE IF next > Len(data) THEN Waits(s)
            ELSE IF size = 0 THEN x
            ELSE IF SubSeq(data, next - 1, next) # EOL THEN y
            ELSE z
      BY <1>1, ChunkForm
    <2>3. x.ret = PARSING /\ y.ret = ERROR /\ z.ret = PARSING
      BY MovedIs
    <2> HIDE DEF x, y, z, len, size, next
    <2> QED
      BY <1>3, <1>4, <2>1, <2>2, <2>3
  <1>8. CASE tag = READY
    <2>1. tag \notin {"LINE", "HEADER", "BODY", "TRAILER"}
      BY <1>8, CodesDiffer
    <2>2. HttpTurn(s, data) = Return(s, READY)
      BY <2>1 DEF HttpTurn
    <2>3. HttpTurn(s, data) = State(s.parser, s.msg, s.base, READY)
      BY <1>1, <2>2, Returns
    <2>4. HttpTurn(s, data).ret = READY
      BY <2>3, ReturnedIs
    <2> QED
      BY <1>3, <2>4
  <1> QED
    BY <1>2, <1>5, <1>6, <1>7, <1>8

\* Appending, and a text with a part of other data behind it.
Cat(s, t) == s \o t
With(buf, data, a, b) == Cat(buf, SubSeq(data, a + 1, b))

\* Appending is associative.
LEMMA CatAssociative ==
    ASSUME NEW S, NEW s \in Seq(S), NEW t \in Seq(S), NEW u \in Seq(S)
    PROVE  Cat(Cat(s, t), u) = Cat(s, Cat(t, u))
  BY DEF Cat

\* Two adjacent parts, the first one of less data, are one.
LEMMA PartsJoin ==
    ASSUME NEW S, NEW data \in Seq(S), NEW more \in Seq(S), Extends(data, more), NEW buf \in Seq(S),
           NEW a \in Nat, NEW e \in Nat, NEW n \in Nat, a <= e, e <= Len(data), e <= n, n <= Len(more)
    PROVE  With(With(buf, data, a, e), more, e, n) = With(buf, more, a, n)
  <1> DEFINE first == SubSeq(more, a + 1, e)
             rest == SubSeq(more, e + 1, n)
             both == SubSeq(more, a + 1, n)
  <1>1. Len(data) \in Nat /\ Len(more) \in Nat /\ Len(data) <= Len(more)
    BY LenProperties DEF Extends
  <1>2. a + 1 \in Nat \ {0} /\ e + 1 \in Nat \ {0} /\ e <= Len(more)
    BY <1>1
  <1>3. first \in Seq(S)
    BY <1>2, PartType
  <1>4. rest \in Seq(S)
    BY <1>2, PartType
  <1>5. SubSeq(data, a + 1, e) = first
    BY <1>2, PartStays
  <1>6. first \o rest = both
    <2>1. a + 1 \in 1..Len(more) + 1 /\ e \in a + 1 - 1..Len(more) /\ n \in e..Len(more)
      BY <1>1
    <2> QED
      BY <2>1, ConcatAdjacentSubSeq
  <1> HIDE DEF first, rest, both
  <1>7. Cat(Cat(buf, first), rest) = Cat(buf, both)
    <2>1. Cat(first, rest) = both
      BY <1>6 DEF Cat
    <2>2. Cat(Cat(buf, first), rest) = Cat(buf, Cat(first, rest))
      BY <1>3, <1>4, CatAssociative
    <2> QED
      BY <2>1, <2>2
  <1> QED
    BY <1>5, <1>7 DEF rest, both, With

\* A plain body gathered in two calls is what one call gathers.
LEMMA SofarResumes ==
    ASSUME NEW data \in Text, NEW more \in Text, Extends(data, more),
           NEW s \in HttpCalls(Len(data)), s.parser.tag = "BODY", ~s.parser.chunked,
           NEW q, NEW n \in Nat, n <= Len(more), NEW t \in HttpCalls(n), t.parser = q,
           q.tag = "BODY", ~q.chunked,
           q.content_length = s.parser.content_length,
           q.already_parse = s.parser.already_parse + Part(s.parser, data),
           q.body_buf = Sofar(s.parser, data),
           Len(Sofar(s.parser, data)) < s.parser.content_length
    PROVE  /\ q.already_parse + Part(q, more) = s.parser.already_parse + Part(s.parser, more)
           /\ Sofar(q, more) = Sofar(s.parser, more)
  <1> DEFINE p == s.parser
             a == p.already_parse
             c == p.content_length
             l == Len(p.body_buf)
             dl == Len(data)
             ml == Len(more)
             k == Part(p, data)
             j == Part(q, more)
             i == Part(p, more)
  <1>1. data \in Seq(Symbols) /\ more \in Seq(Symbols)
    BY DEF Text
  <1>2. dl \in Nat /\ ml \in Nat /\ dl <= ml /\ dl <= dl
    BY <1>1, LenProperties DEF Extends
  <1>3. s \in HttpCalls(ml)
    BY <1>2, HttpCallsGrow
  <1>4. a \in Nat /\ c \in Nat /\ p.body_buf \in Text
    BY <1>2, HttpCallIs
  <1>5. c - l \in Nat /\ dl - a \in Nat /\ k = IF c - l <= dl - a THEN c - l ELSE dl - a
    BY <1>2, PartIs
  <1>6. i = IF c - l <= ml - a THEN c - l ELSE ml - a
    BY <1>2, <1>3, PartIs
  <1>7. Len(q.body_buf) = l + k /\ l \in Nat /\ k \in Nat /\ l + k < c
    BY <1>2, SofarIs
  <1>8. j = IF c - (l + k) <= ml - (a + k) THEN c - (l + k) ELSE ml - (a + k)
    <2>1. LET p2 == t.parser
              a2 == p2.content_length - Len(p2.body_buf)
              b2 == Len(more) - p2.already_parse
          IN  Part(p2, more) = IF a2 <= b2 THEN a2 ELSE b2
      BY PartIs
    <2> QED
      BY <1>7, <2>1
  <1>9. k = dl - a /\ i = k + j /\ j \in Nat /\ a + k + j <= ml /\ a + k <= dl
    <2> HIDE DEF a, c, l, dl, ml, k, j, i
    <2> QED
      BY <1>2, <1>4, <1>5, <1>6, <1>7, <1>8
  <1>10. With(With(p.body_buf, data, a, a + k), more, a + k, a + k + j)
            = With(p.body_buf, more, a, a + k + j)
    <2> DEFINE buf == p.body_buf
               e == a + k
               m == a + k + j
    <2>1. /\ buf \in Seq(Symbols) /\ a \in Nat /\ e \in Nat /\ m \in Nat
          /\ a <= e /\ e <= Len(data) /\ e <= m /\ m <= Len(more)
      <3>1. buf \in Seq(Symbols)
        BY <1>4 DEF Text
      <3>2. /\ e \in Nat /\ m \in Nat /\ a <= e /\ e <= dl /\ e <= m /\ m <= ml
        <4> HIDE DEF a, k, j, dl, ml
        <4> QED
          BY <1>2, <1>4, <1>7, <1>9
      <3> HIDE DEF a, k, j, buf, e, m
      <3> QED
        BY <1>4, <3>1, <3>2
    <2> HIDE DEF a, e, m, buf
    <2>2. With(With(buf, data, a, e), more, e, m) = With(buf, more, a, m)
      BY <1>1, <2>1, PartsJoin
    <2> QED
      BY <2>2 DEF buf, e, m
  <1>11. a + i = a + k + j
    <2> HIDE DEF a, i, k, j
    <2> QED
      BY <1>4, <1>7, <1>9
  <1>12. Sofar(p, more) = With(p.body_buf, more, a, a + i)
    BY DEF Sofar, With, Cat
  <1>13. Sofar(q, more) = With(With(p.body_buf, data, a, a + k), more, a + k, a + k + j)
    BY DEF Sofar, With, Cat
  <1> HIDE DEF p
  <1> QED
    BY <1>10, <1>11, <1>12, <1>13 DEF p

----------------------------------------------------------------------------
\* A plain body whose end has not come.
LEMMA PlainResumes ==
    ASSUME NEW data \in Text, NEW more \in Text, Extends(data, more),
           NEW s \in HttpCalls(Len(data)), s.ret = PARSING,
           s.parser.tag = "BODY", ~s.parser.chunked,
           NEW r, r = HttpTurn(s, data), r.ret = WAITING
    PROVE  Agree(HttpTurn(Call(r.parser, r.msg), more), HttpTurn(s, more))
  <1> DEFINE p == s.parser
             n == Len(data)
             m == Len(more)
             q == r.parser
             t == Call(q, r.msg)
             at == p.already_parse + Part(p, data)
             body == Sofar(p, data)
  <1>1. n \in Nat /\ m \in Nat /\ n <= m
    BY LenProperties DEF Text, Extends
  <1>2. s \in HttpCalls(n) /\ s \in HttpCalls(m)
    BY <1>1, HttpCallsGrow
  <1>3. PARSING # WAITING /\ ERROR # WAITING /\ READY # WAITING
    BY CodesDiffer
  <1>4. \A x, d : x.parser.tag = "BODY" /\ ~x.parser.chunked => HttpTurn(x, d) = parsePlain(x, d)
    BY DEF HttpTurn
  <1>5. Part(p, data) \in Int /\ Part(p, more) \in Int
    BY <1>1, <1>2, PartIs
  <1>6. r = IF Len(body) >= p.content_length
            THEN Moved(s, READY, at, <<>>, [s.msg EXCEPT !.body = body], s.base, s.ret)
            ELSE Moved(s, p.tag, at, body, s.msg, s.base, WAITING)
    BY <1>1, <1>2, <1>4, <1>5, PlainForm
  <1>7. Moved(s, READY, at, <<>>, [s.msg EXCEPT !.body = body], s.base, s.ret).ret = PARSING
    BY MovedIs
  <1>8. r = Moved(s, p.tag, at, body, s.msg, s.base, WAITING) /\ ~(Len(body) >= p.content_length)
    BY <1>3, <1>6, <1>7
  <1>9. q = Members(p.tag, at, p.content_length, p.chunked, body) /\ r.msg = s.msg
    BY <1>8, MovedIs
  <1>10. /\ q.tag = "BODY" /\ q.already_parse = at /\ q.content_length = p.content_length
         /\ q.chunked = p.chunked /\ q.body_buf = body
    BY <1>9 DEF Members
  <1>11. r \in HttpCalls(n)
    BY HttpLeads
  <1>12. t \in HttpCalls(m)
    <2>1. Call(r.parser, r.msg) \in HttpCalls(n)
      BY <1>1, <1>3, <1>11, HttpCallAgain
    <2> QED
      BY <1>1, <2>1, HttpCallsGrow
  <1>13. t.parser = q /\ t.msg = s.msg /\ t.ret = PARSING
    BY <1>9 DEF Call
  <1>14. Len(body) < p.content_length
    <2>1. Len(body) \in Nat /\ p.content_length \in Nat
      <3>1. q.body_buf \in Text /\ p.content_length \in Nat
        BY <1>1, <1>2, <1>11, HttpCallIs
      <3> QED
        BY <1>10, <3>1, LenProperties DEF Text
    <2> HIDE DEF body, p
    <2> QED
      BY <1>8, <2>1
  <1>15. /\ q.already_parse + Part(q, more) = p.already_parse + Part(p, more)
         /\ Sofar(q, more) = Sofar(p, more)
    <2> HIDE DEF q, t, at
    <2>1. m <= m
      BY <1>1
    <2> QED
      BY <1>1, <1>10, <1>12, <1>13, <1>14, <2>1, SofarResumes DEF at
  <1>16. Part(q, more) \in Int
    <2> HIDE DEF t, q
    <2>1. t.parser.tag = "BODY" /\ ~t.parser.chunked /\ m <= Len(more)
      BY <1>1, <1>10, <1>13
    <2>2. Part(t.parser, more) \in Int
      BY <1>1, <1>12, <2>1, PartIs, SMTT(30)
    <2> QED
      BY <1>13, <2>2
  <1> DEFINE bodym == Sofar(p, more)
             atm == p.already_parse + Part(p, more)
             xs == Moved(s, READY, atm, <<>>, [s.msg EXCEPT !.body = bodym], s.base, s.ret)
             ys == Moved(s, p.tag, atm, bodym, s.msg, s.base, WAITING)
             xt == Moved(t, READY, atm, <<>>, [s.msg EXCEPT !.body = bodym], t.base, t.ret)
             yt == Moved(t, p.tag, atm, bodym, s.msg, t.base, WAITING)
  <1>17. HttpTurn(s, more) = IF Len(bodym) >= p.content_length THEN xs ELSE ys
    BY <1>1, <1>2, <1>4, <1>5, PlainForm
  <1>18. HttpTurn(t, more) = IF Len(bodym) >= p.content_length THEN xt ELSE yt
    <2>1. HttpTurn(t, more) = parsePlain(t, more)
      BY <1>4, <1>10, <1>13
    <2>2. Part(t.parser, more) \in Int
      BY <1>13, <1>16
    <2>3. LET p2 == t.parser
              at2 == p2.already_parse + Part(p2, more)
              body2 == Sofar(p2, more)
          IN  parsePlain(t, more) =
                 IF Len(body2) >= p2.content_length
                 THEN Moved(t, READY, at2, <<>>, [t.msg EXCEPT !.body = body2], t.base, t.ret)
                 ELSE Moved(t, p2.tag, at2, body2, t.msg, t.base, WAITING)
      BY <1>1, <1>12, <2>2, PlainForm
    <2> HIDE DEF t, q
    <2> QED
      BY <1>10, <1>13, <1>15, <2>1, <2>3
  <1>19. /\ xs.ret = PARSING /\ xs.msg = [s.msg EXCEPT !.body = bodym]
         /\ xs.parser = Members(READY, atm, p.content_length, p.chunked, <<>>)
         /\ ys.ret = WAITING /\ ys.msg = s.msg
         /\ ys.parser = Members(p.tag, atm, p.content_length, p.chunked, bodym)
    BY MovedIs
  <1>20. /\ xt.ret = PARSING /\ xt.msg = [s.msg EXCEPT !.body = bodym]
         /\ xt.parser = Members(READY, atm, p.content_length, p.chunked, <<>>)
         /\ yt.ret = WAITING /\ yt.msg = s.msg
         /\ yt.parser = Members(p.tag, atm, p.content_length, p.chunked, bodym)
    <2>1. t.parser.content_length = p.content_length /\ t.parser.chunked = p.chunked /\ t.ret = PARSING
      BY <1>10, <1>13
    <2> HIDE DEF t
    <2> QED
      BY <2>1, MovedIs
  <1> HIDE DEF xs, ys, xt, yt, bodym, atm, t
  <1>21. Agree(HttpTurn(t, more), HttpTurn(s, more))
    BY <1>17, <1>18, <1>19, <1>20 DEF Agree
  <1> QED
    BY <1>21 DEF t

\* The turn that waited, made again by the next call with more data, does what
\* it would have done had that data been there.
LEMMA HttpResumes ==
    ASSUME NEW data \in Text, NEW more \in Text, Extends(data, more),
           NEW s \in HttpCalls(Len(data)), s.ret = PARSING, s.parser.tag # "TRAILER",
           NEW r, r = HttpTurn(s, data), r.ret = WAITING
    PROVE  Agree(HttpTurn(Call(r.parser, r.msg), more), HttpTurn(s, more))
  <1>1. CASE s.parser.tag = "BODY" /\ ~s.parser.chunked
    BY <1>1, PlainResumes
  <1>2. CASE ~(s.parser.tag = "BODY" /\ ~s.parser.chunked)
    <2> DEFINE t == Call(r.parser, r.msg)
    <2>1. Len(data) \in Nat /\ Len(more) \in Nat /\ Len(data) <= Len(more)
      BY LenProperties DEF Text, Extends
    <2>2. r = Waits(s)
      BY <1>2, WaitsAsItIs
    <2>3. r.parser = s.parser /\ r.msg = s.msg
      BY <2>2, ReturnedIs DEF Waits
    <2>4. s.ret # ERROR
      BY CodesDiffer
    <2>5. t \in HttpCalls(Len(data))
      BY <2>1, <2>3, <2>4, HttpCallAgain
    <2>6. t \in HttpCalls(Len(more)) /\ s \in HttpCalls(Len(more))
      BY <2>1, <2>5, HttpCallsGrow
    <2>7. Alike(t, s)
      BY <2>3 DEF Alike, Call
    <2>8. Extends(more, more)
      BY <2>1 DEF Extends
    <2> HIDE DEF t
    <2>9. Same(HttpTurn(t, more), HttpTurn(s, more), more, more)
      BY <2>6, <2>7, <2>8, HttpAgrees
    <2>10. Agree(HttpTurn(t, more), HttpTurn(s, more))
      BY <2>9 DEF Same
    <2> QED
      BY <2>10 DEF t
  <1> QED
    BY <1>1, <1>2

----------------------------------------------------------------------------
(* TLV: what a turn comes to. *)

\* The messages, and the states of a call on n bytes.
TlvMsg == [type : Nat, length : Nat, value : Seq(0..255)]
TlvParsers(n) == [tag : {"TYPE", "LENGTH", "VALUE", READY}, already_parse : 0..n]
TlvCalls(n) == [parser : TlvParsers(n), msg : TlvMsg, base : 0..n, ret : Codes]

\* The first state of a call on the first byte of a message.
LEMMA TlvStart ==
    ASSUME NEW n \in Nat
    PROVE  Call(TlvReset, TlvCleared) \in TlvCalls(n)
  <1>1. TlvReset \in TlvParsers(n)
    BY DEF TlvReset, TlvParsers
  <1>2. TlvCleared \in TlvMsg
    <2>1. <<>> \in Seq(0..255)
      OBVIOUS
    <2> QED
      BY <2>1 DEF TlvCleared, TlvMsg
  <1>3. TlvReset.already_parse \in 0..n
    BY DEF TlvReset
  <1> QED
    BY <1>1, <1>2, <1>3 DEF Call, TlvCalls, Codes

\* The next field and the message with this one.
Taken(s, data) ==
    LET p == s.parser
        end == p.already_parse + Need(p.tag, s.msg)
    IN  State([tag |-> NextTag(p.tag), already_parse |-> end],
              Store(p.tag, s.msg, SubSeq(data, p.already_parse + 1, end)), end, s.ret)

\* A turn by its cases.
LEMMA TlvForm ==
    ASSUME NEW n \in Nat, NEW s \in TlvCalls(n), NEW data
    PROVE  TlvTurn(s, data) =
             IF s.parser.tag = READY THEN State(s.parser, s.msg, s.base, READY)
             ELSE IF Short(s, data) THEN Waits(s)
             ELSE Taken(s, data)
  <1> DEFINE p == s.parser
             end == p.already_parse + Need(p.tag, s.msg)
             q == [tag |-> NextTag(p.tag), already_parse |-> end]
             m == Store(p.tag, s.msg, SubSeq(data, p.already_parse + 1, end))
  <1>1. s \in [parser : {p}, msg : {s.msg}, base : {s.base}, ret : {s.ret}]
    BY DEF TlvCalls
  <1>2. TlvTurn(s, data) =
          IF p.tag = READY THEN Return(s, READY)
          ELSE IF Short(s, data) THEN Return(s, WAITING)
          ELSE Enter(s, q, m)
    BY DEF TlvTurn, TakeField
  <1>3. q.already_parse = end
    OBVIOUS
  <1>4. Taken(s, data) = State(q, m, end, s.ret)
    BY DEF Taken
  <1> HIDE DEF p, q, m, end
  <1>5. Return(s, READY) = State(p, s.msg, s.base, READY)
    BY <1>1, ReturnIs DEF State
  <1>6. Return(s, WAITING) = State(p, s.msg, s.base, WAITING)
    BY <1>1, ReturnIs DEF State
  <1>7. Enter(s, q, m) = State(q, m, end, s.ret)
    BY <1>1, <1>3, EnterIs DEF State
  <1> QED
    BY <1>2, <1>4, <1>5, <1>6, <1>7 DEF p, Waits

\* The field that a state is in: what it needs, and what comes of it.
LEMMA FieldIs ==
    ASSUME NEW n \in Nat, NEW s \in TlvCalls(n), s.parser.tag # READY, NEW bytes \in Seq(0..255)
    PROVE  LET tag == s.parser.tag IN
           /\ Need(tag, s.msg) \in Nat /\ (NextTag(tag) # READY => Need(tag, s.msg) >= 2)
           /\ NextTag(tag) \in {"LENGTH", "VALUE", READY}
           /\ Store(tag, s.msg, bytes) \in TlvMsg
  <1> DEFINE tag == s.parser.tag
             m == s.msg
  <1>1. m \in TlvMsg /\ tag \in {"TYPE", "LENGTH", "VALUE"}
    BY DEF TlvCalls, TlvParsers
  <1>2. HostOrder(bytes) \in Nat
    <2>1. bytes \in Seq(Nat)
      <3>1. 0..255 \subseteq Nat
        OBVIOUS
      <3> DEFINE S == 0..255
      <3>2. bytes \in Seq(S) /\ S \subseteq Nat
        BY <3>1
      <3> HIDE DEF S
      <3> QED
        BY <3>2, SeqMonotonic
    <2> QED
      BY <2>1, NumeralType DEF HostOrder
  <1>3. Need(tag, m) \in Nat /\ (NextTag(tag) # READY => Need(tag, m) >= 2)
    BY <1>1 DEF Need, NextTag, TypeBytes, LengthBytes, TlvMsg
  <1>4. NextTag(tag) \in {"LENGTH", "VALUE", READY}
    BY <1>1 DEF NextTag
  <1>5. Store(tag, m, bytes) \in TlvMsg
    <2>1. CASE tag = "TYPE"
      BY <1>1, <1>2, <2>1 DEF Store, TlvMsg
    <2>2. CASE tag = "LENGTH"
      BY <1>1, <1>2, <2>2 DEF Store, TlvMsg
    <2>3. CASE tag = "VALUE"
      BY <1>1, <2>3 DEF Store, TlvMsg
    <2> QED
      BY <1>1, <2>1, <2>2, <2>3
  <1> QED
    BY <1>3, <1>4, <1>5

\* A turn keeps the type of its state and comes two nearer to the end.
LEMMA TlvLeads ==
    ASSUME NEW data \in Seq(0..255), NEW s \in TlvCalls(Len(data)), s.ret = PARSING
    PROVE  TlvTurn(s, data) \in TlvCalls(Len(data)) /\ Leads(s, TlvTurn(s, data), Len(data))
  <1> DEFINE n == Len(data)
             p == s.parser
             r == TlvTurn(s, data)
  <1>1. n \in Nat /\ s \in TlvCalls(n)
    BY LenProperties
  <1>2. /\ p \in TlvParsers(n) /\ s.msg \in TlvMsg /\ s.base \in 0..n
        /\ p.already_parse \in 0..n /\ p.tag \in {"TYPE", "LENGTH", "VALUE", READY}
    BY <1>1 DEF TlvCalls, TlvParsers
  <1>3. /\ {PARSING, WAITING, READY, ERROR} \subseteq Codes
        /\ PARSING # WAITING /\ READY # PARSING
    BY CodesDiffer DEF Codes
  <1>4. "TRAILER" \notin {"TYPE", "LENGTH", "VALUE", READY}
    BY CodesDiffer
  <1>5. CASE p.tag = READY
    <2>1. r = State(p, s.msg, s.base, READY)
      BY <1>1, <1>5, TlvForm
    <2>2. r.ret = READY /\ r.parser = p
      BY <2>1, ReturnedIs
    <2> HIDE DEF p, n, r
    <2>3. r \in TlvCalls(n)
      BY <1>2, <1>3, <2>1 DEF State, TlvCalls
    <2>4. Leads(s, r, n)
      BY <1>2, <1>3, <1>4, <2>2 DEF Leads
    <2> QED
      BY <2>3, <2>4 DEF n, r
  <1>6. CASE p.tag # READY /\ Short(s, data)
    <2>1. r = State(p, s.msg, s.base, WAITING)
      BY <1>1, <1>6, TlvForm DEF Waits
    <2>2. r.ret = WAITING /\ r.parser = p
      BY <2>1, ReturnedIs
    <2> HIDE DEF p, n, r
    <2>3. r \in TlvCalls(n)
      BY <1>2, <1>3, <2>1 DEF State, TlvCalls
    <2>4. Leads(s, r, n)
      BY <1>2, <1>3, <1>4, <2>2 DEF Leads
    <2> QED
      BY <2>3, <2>4 DEF n, r
  <1>7. CASE p.tag # READY /\ ~Short(s, data)
    <2> DEFINE k == Need(p.tag, s.msg)
               at == p.already_parse
               end == at + k
               bytes == SubSeq(data, at + 1, end)
               to == NextTag(p.tag)
               q == [tag |-> to, already_parse |-> end]
               m == Store(p.tag, s.msg, bytes)
    <2>1. r = State(q, m, end, s.ret)
      BY <1>1, <1>7, TlvForm DEF Taken
    <2>2. n - at >= k
      <3>1. n - at \in Int /\ k \in Int
        <4>1. k \in Nat
          <5>1. <<>> \in Seq(0..255)
            OBVIOUS
          <5> QED
            BY <1>1, <1>7, <5>1, FieldIs
        <4> QED
          BY <1>1, <1>2, <4>1
      <3>2. ~(n - at < k)
        BY <1>7 DEF Short
      <3> HIDE DEF n, at, k
      <3> QED
        BY <3>1, <3>2
    <2>3. bytes \in Seq(0..255)
      <3>1. at + 1 \in Nat \ {0} /\ end \in Int /\ end <= Len(data)
        <4>1. at \in Nat /\ k \in Nat
          <5>1. <<>> \in Seq(0..255)
            OBVIOUS
          <5> QED
            BY <1>1, <1>2, <1>7, <5>1, FieldIs
        <4> HIDE DEF n, at, k
        <4>2. at + 1 \in Nat \ {0} /\ end \in Int /\ end <= n
          BY <1>1, <2>2, <4>1
        <4> QED
          BY <4>2 DEF n
      <3> DEFINE S == 0..255
                 a == at + 1
      <3>2. data \in Seq(S) /\ a \in Nat \ {0} /\ end \in Int /\ end <= Len(data)
        BY <3>1
      <3> HIDE DEF S, a, end
      <3>3. SubSeq(data, a, end) \in Seq(S)
        BY <3>2, PartType
      <3> QED
        BY <3>3 DEF S, a
    <2>4. k \in Nat /\ (to # READY => k >= 2) /\ to \in {"LENGTH", "VALUE", READY} /\ m \in TlvMsg
      <3> HIDE DEF bytes
      <3> QED
        BY <1>1, <1>7, <2>3, FieldIs
    <2>5. r.ret = s.ret /\ r.parser = q /\ q.tag = to /\ q.already_parse = end
      BY <2>1, ReturnedIs
    <2>6. end \in 0..n
      <3> HIDE DEF n, at, k
      <3> QED
        BY <1>1, <1>2, <2>2, <2>4 DEF at
    <2>7. q \in TlvParsers(n)
      <3> HIDE DEF end, to, n
      <3> QED
        BY <2>4, <2>6 DEF TlvParsers
    <2>8. r \in TlvCalls(n)
      <3> HIDE DEF q, m, end, n, r
      <3> QED
        BY <1>3, <2>1, <2>4, <2>6, <2>7 DEF State, TlvCalls
    <2>9. Left(r, n) + 2 <= Left(s, n)
      <3>1. Left(s, n) = n - at + 2
        BY <1>7 DEF Left
      <3>2. Left(r, n) = n - end + IF to = READY THEN 0 ELSE 2
        BY <2>5 DEF Left
      <3>3. at \in Nat
        BY <1>2
      <3> HIDE DEF k, at, n, to
      <3> QED
        BY <1>1, <2>4, <3>1, <3>2, <3>3
    <2>10. Leads(s, r, n)
      <3> HIDE DEF r, n, q, to
      <3> QED
        BY <1>4, <2>4, <2>5, <2>9 DEF Leads
    <2> QED
      BY <2>8, <2>10
  <1> QED
    BY <1>5, <1>6, <1>7

----------------------------------------------------------------------------
(* TLV: more data, and a call that goes on. *)

\* What a field needs is a number.
LEMMA NeedIs ==
    ASSUME NEW n \in Nat, NEW s \in TlvCalls(n), s.parser.tag # READY
    PROVE  Need(s.parser.tag, s.msg) \in Nat /\ s.parser.already_parse \in 0..n
  <1>1. <<>> \in Seq(0..255)
    OBVIOUS
  <1> QED
    BY <1>1, FieldIs DEF TlvCalls, TlvParsers

\* The bytes of a field.
LEMMA FieldStays ==
    ASSUME NEW data \in Seq(0..255), NEW more \in Seq(0..255), Extends(data, more),
           NEW a \in Nat \ {0}, NEW b \in Int, b <= Len(data)
    PROVE  SubSeq(more, a, b) = SubSeq(data, a, b)
  <1> DEFINE S == 0..255
  <1>1. data \in Seq(S) /\ more \in Seq(S)
    OBVIOUS
  <1> HIDE DEF S
  <1> QED
    BY <1>1, PartStays

\* A turn that has the bytes of its field does the same with more behind them.
LEMMA TlvAgrees ==
    ASSUME NEW data \in Seq(0..255), NEW more \in Seq(0..255), Extends(data, more),
           NEW s \in TlvCalls(Len(data)), NEW t \in TlvCalls(Len(more)), Alike(s, t)
    PROVE  Same(TlvTurn(s, data), TlvTurn(t, more), data, more)
  <1> DEFINE p == s.parser
             dl == Len(data)
             ml == Len(more)
             x == TlvTurn(s, data)
             y == TlvTurn(t, more)
  <1>1. dl \in Nat /\ ml \in Nat /\ dl <= ml /\ s \in TlvCalls(dl) /\ t \in TlvCalls(ml)
    BY LenProperties DEF Extends
  <1>2. p = t.parser /\ s.msg = t.msg /\ s.ret = t.ret
    BY DEF Alike
  <1>3. WAITING # READY
    BY CodesDiffer
  <1>4. CASE p.tag = READY
    <2>1. x = State(p, s.msg, s.base, READY) /\ y = State(p, s.msg, t.base, READY)
      BY <1>1, <1>2, <1>4, TlvForm
    <2>2. /\ x.ret = READY /\ x.msg = s.msg /\ x.parser = p
          /\ y.ret = READY /\ y.msg = s.msg /\ y.parser = p
      BY <2>1, ReturnedIs
    <2> QED
      BY <2>2 DEF Same, Agree
  <1>5. CASE p.tag # READY /\ Short(s, data)
    <2>1. x = Waits(s)
      BY <1>1, <1>5, TlvForm
    <2>2. x.ret = WAITING /\ x.msg = s.msg /\ x.parser = p
      BY <2>1, ReturnedIs DEF Waits
    <2>3. ASSUME data = more PROVE Agree(x, y)
      <3>1. Short(t, more)
        BY <1>2, <1>5, <2>3 DEF Short
      <3>2. y = Waits(t)
        BY <1>1, <1>2, <1>5, <3>1, TlvForm
      <3>3. y.ret = WAITING /\ y.msg = t.msg /\ y.parser = t.parser
        BY <3>2, ReturnedIs DEF Waits
      <3> QED
        BY <1>2, <2>2, <3>3 DEF Agree
    <2> QED
      BY <2>2, <2>3 DEF Same
  <1>6. CASE p.tag # READY /\ ~Short(s, data)
    <2> DEFINE at == p.already_parse
               k == Need(p.tag, s.msg)
               end == at + k
               first == at + 1
    <2>1. k \in Nat /\ at \in 0..dl
      BY <1>1, <1>6, NeedIs
    <2>2. ~(dl - at < k)
      BY <1>6 DEF Short
    <2>3. first \in Nat \ {0} /\ end \in Int /\ end <= dl /\ ~(ml - at < k)
      <3> HIDE DEF dl, ml, at, k
      <3> QED
        BY <1>1, <2>1, <2>2
    <2>4. ~Short(t, more)
      BY <1>2, <2>3 DEF Short
    <2>5. SubSeq(more, first, end) = SubSeq(data, first, end)
      <3>1. first \in Nat \ {0} /\ end \in Int /\ end <= Len(data)
        BY <2>3
      <3> HIDE DEF end, first
      <3> QED
        BY <3>1, FieldStays
    <2> DEFINE q == [tag |-> NextTag(p.tag), already_parse |-> end]
               m(d) == Store(p.tag, s.msg, SubSeq(d, first, end))
    <2>6. x = State(q, m(data), end, s.ret)
      BY <1>1, <1>6, TlvForm DEF Taken
    <2>7. y = State(q, m(more), end, s.ret)
      <3>1. y = Taken(t, more)
        BY <1>1, <1>2, <1>6, <2>4, TlvForm
      <3> QED
        BY <1>2, <3>1 DEF Taken
    <2>8. m(data) = m(more)
      <3> HIDE DEF end, first
      <3> QED
        BY <2>5
    <2>9. x = y
      <3> HIDE DEF x, y, q, m, end
      <3> QED
        BY <2>6, <2>7, <2>8
    <2>10. Same(x, y, data, more)
      <3> HIDE DEF x, y
      <3> QED
        BY <2>9 DEF Same, Agree
    <2> QED
      BY <2>10
  <1> QED
    BY <1>4, <1>5, <1>6

\* States of a call on less data are states of a call on more.
LEMMA TlvCallsGrow ==
    ASSUME NEW n \in Nat, NEW k \in Nat, n <= k, NEW s \in TlvCalls(n)
    PROVE  s \in TlvCalls(k)
  <1>1. 0..n \subseteq 0..k
    OBVIOUS
  <1> QED
    BY <1>1 DEF TlvCalls, TlvParsers

\* The state that the next call begins in.
LEMMA TlvCallAgain ==
    ASSUME NEW n \in Nat, NEW s \in TlvCalls(n)
    PROVE  Call(s.parser, s.msg) \in TlvCalls(n)
  <1> DEFINE p == s.parser
  <1>1. p \in TlvParsers(n) /\ s.msg \in TlvMsg /\ p.already_parse \in 0..n /\ PARSING \in Codes
    BY DEF TlvCalls, TlvParsers, Codes
  <1> HIDE DEF p
  <1>2. Call(p, s.msg) \in TlvCalls(n)
    BY <1>1 DEF Call, TlvCalls
  <1> QED
    BY <1>2 DEF p

\* The turn that waited, made again by the next call with more data, does what
\* it would have done had that data been there.
LEMMA TlvResumes ==
    ASSUME NEW data \in Seq(0..255), NEW more \in Seq(0..255), Extends(data, more),
           NEW s \in TlvCalls(Len(data)), s.ret = PARSING,
           NEW r, r = TlvTurn(s, data), r.ret = WAITING
    PROVE  Agree(TlvTurn(Call(r.parser, r.msg), more), TlvTurn(s, more))
  <1> DEFINE t == Call(s.parser, s.msg)
             n == Len(data)
             k == Len(more)
  <1>1. n \in Nat /\ k \in Nat /\ n <= k
    BY LenProperties DEF Extends
  <1>2. s \in TlvCalls(n)
    OBVIOUS
  <1>3. r = Waits(s)
    <2>1. State(s.parser, s.msg, s.base, READY).ret = READY /\ Taken(s, data).ret = PARSING
      BY ReturnedIs DEF Taken
    <2> QED
      BY <1>1, <1>2, <2>1, TlvForm, CodesDiffer
  <1>4. r.parser = s.parser /\ r.msg = s.msg
    BY <1>3, ReturnedIs DEF Waits
  <1>5. t \in TlvCalls(n)
    BY <1>1, <1>2, TlvCallAgain
  <1>6. t \in TlvCalls(k) /\ s \in TlvCalls(k)
    BY <1>1, <1>2, <1>5, TlvCallsGrow
  <1>7. Alike(t, s) /\ Extends(more, more)
    BY <1>1 DEF Alike, Call, Extends
  <1> HIDE DEF t
  <1>8. Same(TlvTurn(t, more), TlvTurn(s, more), more, more)
    BY <1>6, <1>7, TlvAgrees
  <1> QED
    BY <1>4, <1>8 DEF t, Same

----------------------------------------------------------------------------
(* Both protocols. *)

\* The protocols, what a call is given, and the states it goes through.
Protocols == {"TLV", "REQUEST", "RESPONSE"}
Bytes(proto) == IF proto = "TLV" THEN Seq(0..255) ELSE Text
Calls(proto, n) == IF proto = "TLV" THEN TlvCalls(n) ELSE HttpCalls(n)

\* What every state has.
LEMMA CallHas ==
    ASSUME NEW proto \in Protocols, NEW n \in Nat, NEW s \in Calls(proto, n)
    PROVE  /\ s.parser.already_parse \in 0..n /\ s.ret \in Codes
           /\ s.parser.tag = "TRAILER" => proto # "TLV" /\ s.ret = PARSING
  <1>1. CASE proto = "TLV"
    <2>1. s \in TlvCalls(n)
      BY <1>1 DEF Calls
    <2>2. s.parser.tag \in {"TYPE", "LENGTH", "VALUE", READY} /\ s.parser.already_parse \in 0..n /\ s.ret \in Codes
      BY <2>1 DEF TlvCalls, TlvParsers
    <2> QED
      BY <2>2, CodesDiffer
  <1>2. CASE proto # "TLV"
    <2>1. s \in HttpCalls(n)
      BY <1>2 DEF Calls
    <2> QED
      BY <1>2, <2>1, HttpCallIs DEF Sound
  <1> QED
    BY <1>1, <1>2

\* What is given to a call.
LEMMA BytesHave ==
    ASSUME NEW proto \in Protocols
    PROVE  \E S : Bytes(proto) = Seq(S)
  BY DEF Bytes, Text

\* A call on the first byte of a message.
LEMMA CallStarts ==
    ASSUME NEW s, s.proto \in Protocols, NEW n \in Nat
    PROVE  /\ Call(Fresh(s), Empty(s)) \in Calls(s.proto, n)
           /\ Fresh(s).tag # "TRAILER" /\ Fresh(s).already_parse = 0
  <1>1. CASE s.proto = "TLV"
    BY <1>1, TlvStart DEF Fresh, Empty, Calls, TlvReset
  <1>2. CASE s.proto # "TLV"
    <2> DEFINE type == s.proto
    <2>1. type \in Symbols
      BY <1>2 DEF Protocols, Symbols
    <2>2. Fresh(s) = HttpReset /\ Empty(s) = Cleared(type)
      BY <1>2 DEF Fresh, Empty
    <2> HIDE DEF type
    <2>3. Call(HttpReset, Cleared(type)) \in HttpCalls(n)
      BY <2>1, HttpStart
    <2> QED
      BY <1>2, <2>2, <2>3 DEF Calls, HttpReset
  <1> QED
    BY <1>1, <1>2

\* The next call, on as much data at least.
LEMMA CallsAgain ==
    ASSUME NEW proto \in Protocols, NEW n \in Nat, NEW k \in Nat, n <= k, NEW s \in Calls(proto, n)
    PROVE  /\ s \in Calls(proto, k)
           /\ s.ret # ERROR => Call(s.parser, s.msg) \in Calls(proto, k)
  <1>1. CASE proto = "TLV"
    BY <1>1, TlvCallsGrow, TlvCallAgain DEF Calls
  <1>2. CASE proto # "TLV"
    BY <1>2, HttpCallsGrow, HttpCallAgain DEF Calls
  <1> QED
    BY <1>1, <1>2

\* A turn keeps the type of its state and comes nearer to the end.
LEMMA TurnLeads ==
    ASSUME NEW proto \in Protocols, NEW data \in Bytes(proto), NEW s \in Calls(proto, Len(data))
    PROVE  LET r == Turn(proto, s, data) IN
           /\ r \in Calls(proto, Len(data))
           /\ s.ret # PARSING => r = s
           /\ s.ret = PARSING => Leads(s, r, Len(data))
  <1>1. CASE s.ret # PARSING
    BY <1>1 DEF Turn
  <1>2. CASE s.ret = PARSING /\ proto = "TLV"
    BY <1>2, TlvLeads DEF Turn, Calls, Bytes
  <1>3. CASE s.ret = PARSING /\ proto # "TLV"
    BY <1>3, HttpLeads DEF Turn, Calls, Bytes
  <1> QED
    BY <1>1, <1>2, <1>3

\* A turn that does not wait does the same when more data is there.
LEMMA TurnAgrees ==
    ASSUME NEW proto \in Protocols, NEW data \in Bytes(proto), NEW more \in Bytes(proto),
           Extends(data, more),
           NEW s \in Calls(proto, Len(data)), NEW t \in Calls(proto, Len(more)),
           Agree(s, t), s.ret # WAITING
    PROVE  Same(Turn(proto, s, data), Turn(proto, t, more), data, more)
  <1>1. s.ret = t.ret
    BY DEF Agree
  <1>2. CASE s.ret # PARSING
    BY <1>1, <1>2 DEF Turn, Same
  <1>3. CASE s.ret = PARSING
    <2>1. Alike(s, t)
      BY <1>1, <1>3, CodesDiffer DEF Agree, Alike
    <2>2. CASE proto = "TLV"
      BY <1>1, <1>3, <2>1, <2>2, TlvAgrees DEF Turn, Calls, Bytes
    <2>3. CASE proto # "TLV"
      BY <1>1, <1>3, <2>1, <2>3, HttpAgrees DEF Turn, Calls, Bytes
    <2> QED
      BY <2>2, <2>3
  <1> QED
    BY <1>2, <1>3

\* The turn that waited goes on in the next call.
LEMMA TurnResumes ==
    ASSUME NEW proto \in Protocols, NEW data \in Bytes(proto), NEW more \in Bytes(proto),
           Extends(data, more),
           NEW s \in Calls(proto, Len(data)), s.ret = PARSING, s.parser.tag # "TRAILER",
           NEW r, r = Turn(proto, s, data), r.ret = WAITING
    PROVE  Agree(Turn(proto, Call(r.parser, r.msg), more), Turn(proto, s, more))
  <1>1. Call(r.parser, r.msg).ret = PARSING
    BY DEF Call
  <1>2. CASE proto = "TLV"
    BY <1>1, <1>2, TlvResumes DEF Turn, Calls, Bytes
  <1>3. CASE proto # "TLV"
    BY <1>1, <1>3, HttpResumes DEF Turn, Calls, Bytes
  <1> QED
    BY <1>2, <1>3

\* The loop over the trailer lines ends where the empty line is.
LEMMA TrailerEnds ==
    ASSUME NEW proto \in Protocols, NEW data \in Bytes(proto), NEW more \in Bytes(proto),
           Extends(data, more),
           NEW s \in Calls(proto, Len(data)), s.parser.tag = "TRAILER",
           NEW at, at = s.parser.already_parse, at + 2 <= Len(data),
           CRLF(more, at) = 0
    PROVE  Turn(proto, s, data).ret = PARSING /\ Turn(proto, s, data).parser.tag = READY
  <1>1. proto # "TLV" /\ s.ret = PARSING /\ at \in Nat
    <2>1. Len(data) \in Nat
      BY BytesHave, LenProperties
    <2> QED
      BY <2>1, CallHas
  <1>2. data \in Text /\ more \in Text /\ s \in HttpCalls(Len(data)) /\ Len(data) \in Nat
    BY <1>1, LenProperties DEF Bytes, Calls, Text
  <1>3. Turn(proto, s, data) = parseTrailer(s, data)
    <2>1. HttpTurn(s, data) = parseTrailer(s, data)
      BY DEF HttpTurn
    <2> QED
      BY <1>1, <2>1 DEF Turn
  <1>4. CRLF(data, at) = 0
    BY <1>1, <1>2, EmptyLine DEF Text
  <1>5. LineAt(s.parser, data) = 0
    BY <1>4 DEF LineAt
  <1>6. LET p == s.parser
            at2 == p.already_parse
            len == LineAt(p, data)
        IN  parseTrailer(s, data) =
                 IF len = -1 THEN Moved(s, "BODY", at2, p.body_buf, s.msg, s.base, WAITING)
                 ELSE IF len = 0
                 THEN Moved(s, READY, at2 + 2, <<>>, [s.msg EXCEPT !.body = p.body_buf], s.base, s.ret)
                 ELSE Moved(s, p.tag, at2 + (len + 2), p.body_buf, s.msg, s.base, s.ret)
    BY <1>2, TrailerForm
  <1> DEFINE m == [s.msg EXCEPT !.body = s.parser.body_buf]
             x == Moved(s, READY, at + 2, <<>>, m, s.base, s.ret)
  <1>7. parseTrailer(s, data) = x
    BY <1>5, <1>6
  <1>8. x.ret = s.ret /\ x.parser.tag = READY
    <2> HIDE DEF m
    <2> QED
      BY MovedIs
  <1> HIDE DEF x
  <1> QED
    BY <1>1, <1>3, <1>7, <1>8

----------------------------------------------------------------------------
(* A call is a run of turns. *)

\* Turn by turn from s on.
IsRun(f, proto, s, data) ==
    /\ f \in [Nat -> Calls(proto, Len(data))]
    /\ f[0] = s
    /\ \A k \in Nat : f[k + 1] = Turn(proto, f[k], data)

\* There is such a run.
LEMMA RunExists ==
    ASSUME NEW proto \in Protocols, NEW data \in Bytes(proto), NEW s \in Calls(proto, Len(data))
    PROVE  \E f : IsRun(f, proto, s, data)
  <1> DEFINE D == Calls(proto, Len(data))
             g == [k \in Nat |-> [x \in D |-> Turn(proto, x, data)]]
  <1>1. ASSUME NEW x \in D PROVE Turn(proto, x, data) \in D
    BY TurnLeads
  <1>2. s \in D
    OBVIOUS
  <1> HIDE DEF D
  <1>3. g \in [Nat -> [D -> D]]
    BY <1>1
  <1>4. PICK f : Iterated(f, D, g, s)
    <2> HIDE DEF g
    <2> QED
      BY <1>2, <1>3, Iterates
  <1>5. f \in [Nat -> D] /\ f[0] = s
    BY <1>4 DEF Iterated
  <1>6. ASSUME NEW k \in Nat PROVE f[k + 1] = Turn(proto, f[k], data)
    <2>1. f[k] \in D
      BY <1>5
    <2>2. f[k + 1] = g[k][f[k]]
      BY <1>4 DEF Iterated
    <2> QED
      BY <2>1, <2>2
  <1>7. IsRun(f, proto, s, data)
    BY <1>5, <1>6 DEF IsRun, D
  <1> QED
    BY <1>7

\* What the call has come to after k turns.
After(proto, s, data, k) == CHOOSE x : Turns(proto, s, data)[k] = {x}

\* Turns is that run.
LEMMA RunIs ==
    ASSUME NEW proto \in Protocols, NEW data \in Bytes(proto), NEW s \in Calls(proto, Len(data))
    PROVE  /\ After(proto, s, data, 0) = s
           /\ \A k \in Nat : /\ Turns(proto, s, data)[k] = {After(proto, s, data, k)}
                             /\ After(proto, s, data, k) \in Calls(proto, Len(data))
                             /\ After(proto, s, data, k + 1) = Turn(proto, After(proto, s, data, k), data)
  <1> DEFINE Body(a) == [k \in Nat |-> IF k = 0 THEN {s} ELSE {Turn(proto, x, data) : x \in a[k - 1]}]
             after == CHOOSE a : a = Body(a)
  <1>1. PICK f : IsRun(f, proto, s, data)
    BY RunExists
  <1>2. f[0] = s /\ \A k \in Nat : f[k + 1] = Turn(proto, f[k], data) /\ f[k] \in Calls(proto, Len(data))
    BY <1>1 DEF IsRun
  <1> DEFINE h == [k \in Nat |-> {f[k]}]
  <1>3. h = Body(h)
    <2>1. ASSUME NEW k \in Nat, k # 0 PROVE {f[k]} = {Turn(proto, x, data) : x \in h[k - 1]}
      <3>1. k - 1 \in Nat /\ (k - 1) + 1 = k
        BY <2>1
      <3>2. h[k - 1] = {f[k - 1]} /\ f[k] = Turn(proto, f[k - 1], data)
        BY <1>2, <3>1
      <3> HIDE DEF h
      <3> QED
        BY <3>2
    <2>2. ASSUME NEW k \in Nat PROVE h[k] = IF k = 0 THEN {s} ELSE {Turn(proto, x, data) : x \in h[k - 1]}
      <3>1. h[k] = {f[k]}
        OBVIOUS
      <3> HIDE DEF h
      <3> QED
        BY <1>2, <2>1, <3>1
    <2>3. h = [k \in Nat |-> h[k]]
      OBVIOUS
    <2> HIDE DEF h
    <2> QED
      BY <2>2, <2>3
  <1>4. after = Body(after)
    <2> HIDE DEF Body, h
    <2> QED
      BY <1>3
  <1>5. Turns(proto, s, data) = after
    BY DEF Turns
  <1> HIDE DEF after, h
  <1>6. after[0] = {s}
    BY <1>4
  <1>7. ASSUME NEW k \in Nat PROVE after[k + 1] = {Turn(proto, x, data) : x \in after[k]}
    <2>1. k + 1 \in Nat /\ k + 1 # 0 /\ (k + 1) - 1 = k
      OBVIOUS
    <2>2. after[k + 1] = {Turn(proto, x, data) : x \in after[(k + 1) - 1]}
      BY <1>4, <2>1
    <2> QED
      BY <2>1, <2>2
  <1> HIDE DEF Body
  <1> DEFINE T == {k \in Nat : after[k] = {f[k]}}
  <1>8. \A k \in Nat : k \in T
    <2>1. 0 \in T
      BY <1>2, <1>6
    <2>2. ASSUME NEW k \in Nat, k \in T PROVE k + 1 \in T
      <3>1. after[k] = {f[k]} /\ k + 1 \in Nat
        BY <2>2
      <3>2. after[k + 1] = {Turn(proto, x, data) : x \in {f[k]}}
        BY <1>7, <3>1
      <3>3. after[k + 1] = {Turn(proto, f[k], data)}
        BY <3>2
      <3> QED
        BY <1>2, <3>1, <3>3
    <2> HIDE DEF T
    <2> QED
      BY <2>1, <2>2, Upward
  <1>9. ASSUME NEW k \in Nat PROVE after[k] = {f[k]} /\ After(proto, s, data, k) = f[k]
    <2>1. after[k] = {f[k]}
      BY <1>8
    <2>2. \A x : {f[k]} = {x} => x = f[k]
      OBVIOUS
    <2>3. After(proto, s, data, k) = CHOOSE x : after[k] = {x}
      BY <1>5 DEF After
    <2> QED
      BY <2>1, <2>2, <2>3
  <1>10. 0 \in Nat /\ \A k \in Nat : k + 1 \in Nat
    OBVIOUS
  <1> QED
    BY <1>2, <1>5, <1>9, <1>10

\* The turns of a call.
LEMMA TurnsOf ==
    ASSUME NEW proto \in Protocols, NEW data \in Bytes(proto), NEW s \in Calls(proto, Len(data))
    PROVE  \A k \in Nat : /\ After(proto, s, data, k) \in Calls(proto, Len(data))
                          /\ After(proto, s, data, k + 1) = Turn(proto, After(proto, s, data, k), data)
  BY RunIs

\* What a call may have come to after k turns.
LEMMA TurnSetIs ==
    ASSUME NEW proto \in Protocols, NEW data \in Bytes(proto), NEW s \in Calls(proto, Len(data)),
           NEW k \in Nat
    PROVE  /\ Turns(proto, s, data)[k] = {After(proto, s, data, k)}
           /\ After(proto, s, data, k) \in Calls(proto, Len(data))
  BY RunIs

\* The states that a call has come to.
LEMMA StatesOf ==
    ASSUME NEW proto \in Protocols, NEW data \in Bytes(proto), NEW s \in Calls(proto, Len(data)),
           NEW k \in Nat, NEW x \in Turns(proto, s, data)[k]
    PROVE  x = After(proto, s, data, k) /\ x \in Calls(proto, Len(data))
  BY RunIs

\* A call that has returned stays as it is.
LEMMA RunStops ==
    ASSUME NEW proto \in Protocols, NEW data \in Bytes(proto), NEW s \in Calls(proto, Len(data)),
           NEW k \in Nat, After(proto, s, data, k).ret # PARSING
    PROVE  \A j \in Nat : After(proto, s, data, k + j) = After(proto, s, data, k)
  <1> DEFINE x(j) == After(proto, s, data, j)
             T == {j \in Nat : x(k + j) = x(k)}
  <1>1. \A j \in Nat : x(j) \in Calls(proto, Len(data)) /\ x(j + 1) = Turn(proto, x(j), data)
    BY RunIs
  <1>2. \A j \in Nat : x(j).ret # PARSING => x(j + 1) = x(j)
    <2> HIDE DEF x
    <2> QED
      BY <1>1, TurnLeads
  <1>3. x(k).ret # PARSING
    OBVIOUS
  <1> HIDE DEF x
  <1>4. 0 \in T
    <2>1. k + 0 = k
      OBVIOUS
    <2> QED
      BY <2>1
  <1>5. ASSUME NEW j \in Nat, j \in T PROVE j + 1 \in T
    <2>1. x(k + j) = x(k)
      BY <1>5
    <2>2. k + j \in Nat /\ k + (j + 1) = (k + j) + 1 /\ j + 1 \in Nat
      OBVIOUS
    <2>3. x((k + j) + 1) = x(k + j)
      BY <1>2, <1>3, <2>1, <2>2
    <2> QED
      BY <2>1, <2>2, <2>3
  <1>6. \A j \in Nat : j \in T
    <2> HIDE DEF T
    <2> QED
      BY <1>4, <1>5, Upward
  <1> QED
    BY <1>6 DEF x

\* A call returns one thing only.
LEMMA ReturnsOnce ==
    ASSUME NEW proto \in Protocols, NEW data \in Bytes(proto), NEW s \in Calls(proto, Len(data)),
           NEW i \in Nat, NEW k \in Nat,
           After(proto, s, data, i).ret # PARSING, After(proto, s, data, k).ret # PARSING
    PROVE  After(proto, s, data, i) = After(proto, s, data, k)
  <1> DEFINE x(j) == After(proto, s, data, j)
  <1>1. \A j \in Nat : x(i + j) = x(i) /\ x(k + j) = x(k)
    BY RunStops
  <1> HIDE DEF x
  <1>2. i + k = k + i
    OBVIOUS
  <1>3. x(i + k) = x(i) /\ x(k + i) = x(k)
    BY <1>1
  <1>4. x(i) = x(k)
    BY <1>2, <1>3
  <1> QED
    BY <1>4 DEF x

\* Every call returns, within the turns that ParseWith takes.
LEMMA RunEnds ==
    ASSUME NEW proto \in Protocols, NEW data \in Bytes(proto), NEW s \in Calls(proto, Len(data))
    PROVE  /\ Len(data) \div 2 + 2 \in Nat
           /\ After(proto, s, data, Len(data) \div 2 + 2).ret # PARSING
  <1> DEFINE x(j) == After(proto, s, data, j)
             n == Len(data)
             left(j) == Left(x(j), n)
             T == {j \in Nat : x(j).ret = PARSING => left(j) \in Nat /\ left(j) + 2 * j <= n + 2}
  <1>1. n \in Nat
    BY BytesHave, LenProperties
  <1>2. \A j \in Nat : x(j) \in Calls(proto, n) /\ x(j + 1) = Turn(proto, x(j), data)
    BY RunIs
  <1>3. \A j \in Nat : /\ x(j).ret # PARSING => x(j + 1) = x(j)
                       /\ x(j).ret = PARSING => Leads(x(j), x(j + 1), n)
    <2> HIDE DEF x
    <2> QED
      BY <1>2, TurnLeads
  <1>4. \A j \in Nat : x(j).parser.already_parse \in 0..n
    <2> HIDE DEF x, n
    <2> QED
      BY <1>1, <1>2, CallHas
  <1> HIDE DEF x, n
  <1>5. \A j \in Nat : left(j) \in 0..n + 2
    BY <1>1, <1>4 DEF Left
  <1>6. 0 \in T
    BY <1>1, <1>5
  <1>7. ASSUME NEW j \in Nat, j \in T PROVE j + 1 \in T
    <2>1. j + 1 \in Nat
      OBVIOUS
    <2> SUFFICES ASSUME x(j + 1).ret = PARSING PROVE left(j + 1) \in Nat /\ left(j + 1) + 2 * (j + 1) <= n + 2
      BY <2>1
    <2>2. x(j).ret = PARSING
      BY <1>3
    <2>3. left(j + 1) + 2 <= left(j)
      BY <1>3, <2>2 DEF Leads
    <2>4. left(j) + 2 * j <= n + 2
      BY <1>7, <2>2
    <2> HIDE DEF left
    <2>5. left(j) \in Nat /\ left(j + 1) \in Nat
      <3>1. left(j) \in 0..n + 2 /\ left(j + 1) \in 0..n + 2
        BY <1>5, <2>1
      <3> QED
        BY <1>1, <3>1
    <2> QED
      BY <1>1, <2>3, <2>4, <2>5
  <1>8. \A j \in Nat : j \in T
    <2> HIDE DEF T
    <2> QED
      BY <1>6, <1>7, Upward
  <1> DEFINE k == n \div 2 + 2
  <1>9. k \in Nat /\ 2 * k > n + 2
    BY <1>1
  <1>10. x(k).ret # PARSING
    <2> HIDE DEF k, left
    <2> SUFFICES ASSUME x(k).ret = PARSING PROVE FALSE
      OBVIOUS
    <2>1. left(k) \in Nat /\ left(k) + 2 * k <= n + 2
      BY <1>8, <1>9
    <2> QED
      BY <1>1, <1>9, <2>1
  <1> QED
    BY <1>9, <1>10 DEF x, n

----------------------------------------------------------------------------
(* Calls on less and on more data. *)

\* Agreeing is an equivalence.
LEMMA AgreeTransitive ==
    ASSUME NEW x, NEW y, NEW z, Agree(x, y), Agree(y, z)
    PROVE  Agree(x, z) /\ Agree(y, x)
  BY DEF Agree

\* Two runs on the same data that agree once agree from there on.
LEMMA RunsGoAlong ==
    ASSUME NEW proto \in Protocols, NEW data \in Bytes(proto),
           NEW s \in Calls(proto, Len(data)), NEW t \in Calls(proto, Len(data)),
           NEW i \in Nat, NEW j \in Nat, Agree(After(proto, s, data, i), After(proto, t, data, j))
    PROVE  \A k \in Nat : Agree(After(proto, s, data, i + k), After(proto, t, data, j + k))
  <1> DEFINE x(k) == After(proto, s, data, k)
             y(k) == After(proto, t, data, k)
             D == Calls(proto, Len(data))
             T == {k \in Nat : Agree(x(i + k), y(j + k))}
  <1>1. /\ \A k \in Nat : x(k) \in D /\ x(k + 1) = Turn(proto, x(k), data)
        /\ \A k \in Nat : y(k) \in D /\ y(k + 1) = Turn(proto, y(k), data)
    <2>1. \A k \in Nat : x(k) \in D /\ x(k + 1) = Turn(proto, x(k), data)
      BY TurnsOf
    <2>2. \A k \in Nat : y(k) \in D /\ y(k + 1) = Turn(proto, y(k), data)
      BY TurnsOf
    <2> HIDE DEF x, y, D
    <2> QED
      BY <2>1, <2>2
  <1>2. ASSUME NEW a \in D, NEW b \in D, Agree(a, b)
        PROVE  Agree(Turn(proto, a, data), Turn(proto, b, data))
    <2>1. CASE a.ret = WAITING
      <3>1. a.ret # PARSING /\ b.ret # PARSING
        BY <1>2, <2>1, CodesDiffer DEF Agree
      <3> QED
        BY <1>2, <3>1 DEF Turn
    <2>2. CASE a.ret # WAITING
      <3>1. Extends(data, data)
        <4>1. Len(data) \in Nat
          BY BytesHave, LenProperties
        <4> QED
          BY <4>1 DEF Extends
      <3> QED
        BY <1>2, <2>2, <3>1, TurnAgrees DEF Same
    <2> QED
      BY <2>1, <2>2
  <1>3. Agree(x(i), y(j))
    OBVIOUS
  <1> HIDE DEF x, y, D
  <1>4. 0 \in T
    <2>1. i + 0 = i /\ j + 0 = j
      OBVIOUS
    <2> QED
      BY <1>3, <2>1
  <1>5. ASSUME NEW k \in Nat, k \in T PROVE k + 1 \in T
    <2>1. i + k \in Nat /\ j + k \in Nat /\ i + (k + 1) = (i + k) + 1 /\ j + (k + 1) = (j + k) + 1 /\ k + 1 \in Nat
      OBVIOUS
    <2>2. Agree(x(i + k), y(j + k))
      BY <1>5
    <2>3. Agree(x((i + k) + 1), y((j + k) + 1))
      BY <1>1, <1>2, <2>1, <2>2
    <2> QED
      BY <2>1, <2>3
  <1>6. \A k \in Nat : k \in T
    <2> HIDE DEF T
    <2> QED
      BY <1>4, <1>5, Upward
  <1> QED
    BY <1>6 DEF x, y

\* With more data a call does the same, as long as it has not waited.
LEMMA RunStays ==
    ASSUME NEW proto \in Protocols, NEW data \in Bytes(proto), NEW more \in Bytes(proto),
           Extends(data, more), NEW s \in Calls(proto, Len(data))
    PROVE  \A k \in Nat : After(proto, s, data, k).ret # WAITING =>
              Agree(After(proto, s, data, k), After(proto, s, more, k))
  <1> DEFINE z(k) == After(proto, s, data, k)
             y(k) == After(proto, s, more, k)
             C == Calls(proto, Len(data))
             D == Calls(proto, Len(more))
             T == {k \in Nat : z(k).ret # WAITING => Agree(z(k), y(k))}
  <1>1. s \in D
    <2>1. Len(data) \in Nat /\ Len(more) \in Nat /\ Len(data) <= Len(more)
      BY BytesHave, LenProperties DEF Extends
    <2> QED
      BY <2>1, CallsAgain
  <1>2. z(0) = s /\ \A k \in Nat : z(k) \in C /\ z(k + 1) = Turn(proto, z(k), data)
    BY RunIs
  <1>3. y(0) = s /\ \A k \in Nat : y(k) \in D /\ y(k + 1) = Turn(proto, y(k), more)
    BY <1>1, RunIs
  <1>4. ASSUME NEW a \in C, NEW b \in D, a.ret # WAITING => Agree(a, b),
               Turn(proto, a, data).ret # WAITING
        PROVE  Agree(Turn(proto, a, data), Turn(proto, b, more))
    <2>1. a.ret # WAITING
      <3> SUFFICES ASSUME a.ret = WAITING PROVE FALSE
        OBVIOUS
      <3>1. Turn(proto, a, data) = a
        BY CodesDiffer DEF Turn
      <3> QED
        BY <1>4, <3>1
    <2>2. Same(Turn(proto, a, data), Turn(proto, b, more), data, more)
      BY <1>4, <2>1, TurnAgrees
    <2> QED
      BY <1>4, <2>2 DEF Same
  <1> HIDE DEF z, y, C, D
  <1>5. 0 \in T
    BY <1>2, <1>3 DEF Agree
  <1>6. ASSUME NEW k \in Nat, k \in T PROVE k + 1 \in T
    <2>1. k + 1 \in Nat
      OBVIOUS
    <2>2. z(k).ret # WAITING => Agree(z(k), y(k))
      BY <1>6
    <2>3. z(k + 1).ret # WAITING => Agree(z(k + 1), y(k + 1))
      BY <1>2, <1>3, <1>4, <2>2
    <2> QED
      BY <2>1, <2>3
  <1>7. \A k \in Nat : k \in T
    <2> HIDE DEF T
    <2> QED
      BY <1>5, <1>6, Upward
  <1> QED
    BY <1>7 DEF z, y

\* There is a turn that a call waited in.
LEMMA WaitedOnce ==
    ASSUME NEW proto \in Protocols, NEW data \in Bytes(proto), NEW s \in Calls(proto, Len(data)),
           s.ret = PARSING, NEW n \in Nat, After(proto, s, data, n).ret = WAITING
    PROVE  \E j \in Nat : /\ After(proto, s, data, j).ret = PARSING
                          /\ After(proto, s, data, j + 1) = After(proto, s, data, n)
  <1> DEFINE x(k) == After(proto, s, data, k)
             D == Calls(proto, Len(data))
             T == {k \in Nat : x(k).ret = WAITING => \E j \in Nat : x(j).ret = PARSING /\ x(j + 1) = x(k)}
  <1>1. x(0) = s /\ \A k \in Nat : x(k) \in D /\ x(k + 1) = Turn(proto, x(k), data)
    BY RunIs
  <1>2. \A k \in Nat : x(k).ret # PARSING => x(k + 1) = x(k)
    <2> HIDE DEF x
    <2> QED
      BY <1>1 DEF Turn
  <1> HIDE DEF x, D
  <1>3. 0 \in T
    BY <1>1, CodesDiffer
  <1>4. ASSUME NEW k \in Nat, k \in T PROVE k + 1 \in T
    <2>1. k + 1 \in Nat
      OBVIOUS
    <2> SUFFICES ASSUME x(k + 1).ret = WAITING
                 PROVE  \E j \in Nat : x(j).ret = PARSING /\ x(j + 1) = x(k + 1)
      BY <2>1
    <2>2. CASE x(k).ret = PARSING
      BY <2>2
    <2>3. CASE x(k).ret # PARSING
      <3>1. x(k + 1) = x(k)
        BY <1>2, <2>3
      <3> QED
        BY <1>4, <3>1
    <2> QED
      BY <2>2, <2>3
  <1>5. n \in T
    <2> HIDE DEF T
    <2> QED
      BY <1>3, <1>4, Upward
  <1>6. x(n).ret = WAITING
    BY DEF x
  <1>7. \E j \in Nat : x(j).ret = PARSING /\ x(j + 1) = x(n)
    BY <1>5, <1>6
  <1> QED
    BY <1>7 DEF x

----------------------------------------------------------------------------
(* Calls that find no trailer line. *)

\* In a call from s on the loop over the trailer lines begins at the empty line.
Clean(proto, s, data) ==
    \A k \in Nat : LET p == After(proto, s, data, k).parser
                   IN  p.tag = "TRAILER" => CRLF(data, p.already_parse) = 0

\* Then it does so with less data too, and the empty line is there.
LEMMA TrailersFit ==
    ASSUME NEW proto \in Protocols, NEW data \in Bytes(proto), NEW more \in Bytes(proto),
           Extends(data, more), NEW s \in Calls(proto, Len(data)), s.parser.tag # "TRAILER",
           Clean(proto, s, more)
    PROVE  \A k \in Nat : LET p == After(proto, s, data, k).parser
                          IN  p.tag = "TRAILER" =>
                                /\ p.already_parse + 2 <= Len(data)
                                /\ CRLF(more, p.already_parse) = 0
  <1> DEFINE z(k) == After(proto, s, data, k)
             y(k) == After(proto, s, more, k)
             C == Calls(proto, Len(data))
             n == Len(data)
             at(k) == z(k).parser.already_parse
             Gap(k) == CRLF(more, at(k))
             T == {k \in Nat : z(k).parser.tag = "TRAILER" => at(k) + 2 <= n}
  <1>1. z(0) = s /\ \A k \in Nat : z(k) \in C /\ z(k + 1) = Turn(proto, z(k), data)
    BY RunIs
  <1>2. \A k \in Nat : z(k).parser.tag = "TRAILER" => z(k).ret = PARSING
    <2>1. n \in Nat
      BY BytesHave, LenProperties
    <2> HIDE DEF z, n
    <2>2. C = Calls(proto, n)
      BY DEF n
    <2> HIDE DEF C
    <2> QED
      BY <1>1, <2>1, <2>2, CallHas
  <1>3. \A k \in Nat : z(k).parser.tag = "TRAILER" => Gap(k) = 0
    <2> SUFFICES ASSUME NEW k \in Nat, z(k).parser.tag = "TRAILER" PROVE Gap(k) = 0
      OBVIOUS
    <2>1. z(k).ret = PARSING
      BY <1>2
    <2>2. z(k).ret # WAITING => Agree(z(k), y(k))
      BY RunStays
    <2> HIDE DEF z, y
    <2>3. z(k).parser = y(k).parser
      BY <2>1, <2>2, CodesDiffer DEF Agree
    <2>4. y(k).parser.tag = "TRAILER" =>
             CRLF(more, y(k).parser.already_parse) = 0
      BY DEF Clean, y
    <2> QED
      BY <2>3, <2>4
  <1>4. ASSUME NEW a \in C, a.parser.tag = "TRAILER" => a.parser.already_parse + 2 <= n,
               NEW b, b = Turn(proto, a, data), b.parser.tag = "TRAILER", b.ret = PARSING,
               a.parser.tag = "TRAILER" =>
                  CRLF(more, a.parser.already_parse) = 0
        PROVE  b.parser.already_parse + 2 <= n
    <2>1. a.ret = PARSING
      BY <1>4, TurnLeads
    <2>2. a.parser.tag # "TRAILER"
      <3> SUFFICES ASSUME a.parser.tag = "TRAILER" PROVE FALSE
        OBVIOUS
      <3>1. b.parser.tag = READY
        BY <1>4, TrailerEnds
      <3> QED
        BY <1>4, <3>1, CodesDiffer
    <2>3. Leads(a, b, n)
      BY <1>4, <2>1, TurnLeads
    <2> QED
      BY <1>4, <2>2, <2>3 DEF Leads
  <1> HIDE DEF z, y, C, n
  <1>5. 0 \in T
    BY <1>1
  <1>6. ASSUME NEW k \in Nat, k \in T PROVE k + 1 \in T
    <2>1. k + 1 \in Nat
      OBVIOUS
    <2> SUFFICES ASSUME z(k + 1).parser.tag = "TRAILER" PROVE at(k + 1) + 2 <= n
      BY <2>1
    <2>2. z(k + 1).ret = PARSING
      BY <1>2, <2>1
    <2> QED
      BY <1>1, <1>3, <1>4, <1>6, <2>2
  <1>7. \A k \in Nat : k \in T
    <2> HIDE DEF T
    <2> QED
      BY <1>5, <1>6, Upward
  <1> QED
    BY <1>3, <1>7 DEF z, n

----------------------------------------------------------------------------
(* The next call goes on where the last one waited. *)

\* From its first turn on, a call from c on the data does what one from w does
\* from some turn on.
Resumes(proto, c, w, data) ==
    \E n \in Nat : \A k \in Nat : Agree(After(proto, c, data, k + 1), After(proto, w, data, n + (k + 1)))

\* A call that waited on less data is resumed by the next one.
LEMMA WaitingResumes ==
    ASSUME NEW proto \in Protocols, NEW data \in Bytes(proto), NEW more \in Bytes(proto),
           Extends(data, more), NEW s \in Calls(proto, Len(data)), s.ret = PARSING,
           s.parser.tag # "TRAILER", Clean(proto, s, more),
           NEW n \in Nat, NEW r, r = After(proto, s, data, n), r.ret = WAITING
    PROVE  Resumes(proto, Call(r.parser, r.msg), s, more)
  <1> DEFINE z(k) == After(proto, s, data, k)
             y(k) == After(proto, s, more, k)
             C == Calls(proto, Len(data))
             D == Calls(proto, Len(more))
             c == Call(r.parser, r.msg)
  <1>1. Len(data) \in Nat /\ Len(more) \in Nat /\ Len(data) <= Len(more)
    BY BytesHave, LenProperties DEF Extends
  <1>2. \A k \in Nat : z(k) \in C /\ z(k + 1) = Turn(proto, z(k), data)
    BY TurnsOf
  <1>3. s \in D
    BY <1>1, CallsAgain
  <1>4. \A k \in Nat : y(k) \in D /\ y(k + 1) = Turn(proto, y(k), more)
    BY <1>3, TurnsOf
  <1>5. PICK j \in Nat : z(j).ret = PARSING /\ z(j + 1) = r
    BY WaitedOnce
  <1>6. z(j).parser.tag # "TRAILER"
    <2> SUFFICES ASSUME z(j).parser.tag = "TRAILER" PROVE FALSE
      OBVIOUS
    <2> DEFINE at == z(j).parser.already_parse
    <2>1. at + 2 <= Len(data) /\ CRLF(more, at) = 0
      BY TrailersFit
    <2>2. z(j) \in Calls(proto, Len(data)) /\ Turn(proto, z(j), data) = r
      BY <1>2, <1>5
    <2> HIDE DEF z
    <2>3. Turn(proto, z(j), data).ret = PARSING
      BY <2>1, <2>2, TrailerEnds
    <2> QED
      BY <2>2, <2>3, CodesDiffer
  <1>7. z(j) \in Calls(proto, Len(data)) /\ Turn(proto, z(j), data) = r
    BY <1>2, <1>5
  <1>8. c \in D
    <2>1. r \in C
      BY <1>7, TurnLeads
    <2> HIDE DEF z, y
    <2> QED
      BY <1>1, <2>1, CallsAgain, CodesDiffer
  <1>9. Agree(Turn(proto, c, more), Turn(proto, z(j), more))
    <2> HIDE DEF z, y
    <2> QED
      BY <1>5, <1>6, <1>7, TurnResumes
  <1>10. Agree(Turn(proto, z(j), more), y(j + 1))
    <2>1. z(j).ret # WAITING => Agree(z(j), y(j))
      BY RunStays
    <2>2. z(j) \in Calls(proto, Len(more)) /\ y(j) \in Calls(proto, Len(more))
      <3> HIDE DEF z, y
      <3> QED
        BY <1>1, <1>4, <1>7, CallsAgain
    <2>3. Extends(more, more)
      BY <1>1 DEF Extends
    <2>4. y(j + 1) = Turn(proto, y(j), more)
      BY <1>4
    <2> HIDE DEF z, y
    <2>5. z(j).ret # WAITING /\ Agree(z(j), y(j))
      BY <1>5, <2>1, CodesDiffer
    <2>6. Same(Turn(proto, z(j), more), Turn(proto, y(j), more), more, more)
      BY <2>2, <2>3, <2>5, TurnAgrees
    <2> QED
      BY <2>4, <2>6 DEF Same
  <1>11. After(proto, c, more, 1) = Turn(proto, c, more)
    <2>1. 0 \in Nat /\ 0 + 1 = 1
      OBVIOUS
    <2> HIDE DEF c
    <2>2. After(proto, c, more, 0) = c /\ After(proto, c, more, 0 + 1) = Turn(proto, After(proto, c, more, 0), more)
      BY <1>8, <2>1, RunIs
    <2> QED
      BY <2>1, <2>2
  <1>12. Agree(After(proto, c, more, 1), After(proto, s, more, j + 1))
    <2> HIDE DEF z, c
    <2> QED
      BY <1>9, <1>10, <1>11, AgreeTransitive
  <1>13. \A k \in Nat : Agree(After(proto, c, more, 1 + k), After(proto, s, more, (j + 1) + k))
    <2>1. 1 \in Nat /\ j + 1 \in Nat
      OBVIOUS
    <2> HIDE DEF z, y, c
    <2>2. c \in Calls(proto, Len(more)) /\ s \in Calls(proto, Len(more))
      BY <1>3, <1>8
    <2> QED
      BY <1>12, <2>1, <2>2, RunsGoAlong
  <1>14. \A k \in Nat : 1 + k = k + 1 /\ (j + 1) + k = j + (k + 1)
    OBVIOUS
  <1> HIDE DEF c
  <1>15. Resumes(proto, c, s, more)
    BY <1>13, <1>14 DEF Resumes
  <1> QED
    BY <1>15 DEF c

\* A call that goes on where another one does is as clean.
LEMMA ResumesClean ==
    ASSUME NEW proto \in Protocols, NEW data \in Bytes(proto),
           NEW c \in Calls(proto, Len(data)), c.parser.tag # "TRAILER",
           NEW w, Resumes(proto, c, w, data), Clean(proto, w, data)
    PROVE  Clean(proto, c, data)
  <1> DEFINE x(k) == After(proto, c, data, k)
             y(k) == After(proto, w, data, k)
  <1>1. PICK n \in Nat : \A k \in Nat : Agree(x(k + 1), y(n + (k + 1)))
    BY DEF Resumes
  <1>2. x(0) = c /\ \A k \in Nat : x(k) \in Calls(proto, Len(data))
    BY RunIs
  <1>3. \A k \in Nat : x(k).parser.tag = "TRAILER" => x(k).ret = PARSING
    <2>1. Len(data) \in Nat
      BY BytesHave, LenProperties
    <2> HIDE DEF x
    <2> QED
      BY <1>2, <2>1, CallHas
  <1>4. ASSUME NEW k \in Nat, x(k).parser.tag = "TRAILER"
        PROVE  CRLF(data, x(k).parser.already_parse) = 0
    <2>1. k # 0
      BY <1>2, <1>4
    <2>2. k - 1 \in Nat /\ (k - 1) + 1 = k
      BY <2>1
    <2>3. Agree(x((k - 1) + 1), y(n + ((k - 1) + 1)))
      BY <1>1, <2>2
    <2>4. Agree(x(k), y(n + k))
      BY <2>2, <2>3
    <2>5. n + k \in Nat
      OBVIOUS
    <2>6. y(n + k).parser.tag = "TRAILER" =>
             CRLF(data, y(n + k).parser.already_parse) = 0
      BY <2>5 DEF Clean
    <2> HIDE DEF x, y
    <2>7. x(k).ret = PARSING
      BY <1>3, <1>4
    <2>8. x(k).parser = y(n + k).parser
      BY <2>4, <2>7, CodesDiffer DEF Agree
    <2> QED
      BY <1>4, <2>6, <2>8
  <1> QED
    BY <1>4 DEF Clean

\* What a call on part of the data comes to, when it goes on for a call from w:
\* what that one comes to on all of it, or to wait, and the next call goes on.
LEMMA CallGoesOn ==
    ASSUME NEW proto \in Protocols, NEW data \in Bytes(proto), NEW more \in Bytes(proto),
           Extends(data, more), NEW c \in Calls(proto, Len(data)), c.ret = PARSING,
           c.parser.tag # "TRAILER", NEW w \in Calls(proto, Len(more)),
           Resumes(proto, c, w, more), Clean(proto, w, more),
           NEW r, r = After(proto, c, data, Len(data) \div 2 + 2)
    PROVE  /\ r \in Calls(proto, Len(data)) /\ r.ret \in {READY, ERROR, WAITING}
           /\ r.ret # WAITING => Agree(r, After(proto, w, more, Len(more) \div 2 + 2))
           /\ r.ret = WAITING => r.parser.tag # "TRAILER" /\ Resumes(proto, Call(r.parser, r.msg), w, more)
  <1> DEFINE n == Len(data) \div 2 + 2
             m == Len(more) \div 2 + 2
             x(k) == After(proto, c, more, k)
             y(k) == After(proto, w, more, k)
  <1>1. Len(data) \in Nat /\ Len(more) \in Nat /\ Len(data) <= Len(more)
    BY BytesHave, LenProperties DEF Extends
  <1>2. n \in Nat /\ r.ret # PARSING
    BY RunEnds
  <1>3. m \in Nat /\ y(m).ret # PARSING
    BY RunEnds
  <1> HIDE DEF n, m
  <1>4. r = After(proto, c, data, n)
    BY DEF n
  <1>5. r \in Calls(proto, Len(data)) /\ After(proto, c, data, 0) = c
    BY <1>2, <1>4, RunIs
  <1>6. r.ret \in {READY, ERROR, WAITING} /\ (r.parser.tag = "TRAILER" => r.ret = PARSING)
    BY <1>1, <1>2, <1>5, CallHas DEF Codes
  <1>7. n # 0
    BY <1>2, <1>4, <1>5
  <1>8. c \in Calls(proto, Len(more))
    BY <1>1, CallsAgain
  <1>9. PICK i \in Nat : \A k \in Nat : Agree(x(k + 1), y(i + (k + 1)))
    BY DEF Resumes
  <1>10. ASSUME r.ret # WAITING PROVE Agree(r, y(m))
    <2>1. n - 1 \in Nat /\ (n - 1) + 1 = n
      BY <1>2, <1>7
    <2>2. Agree(r, x(n))
      BY <1>2, <1>4, <1>10, RunStays
    <2>3. Agree(x(n), y(i + n))
      <3>1. Agree(x((n - 1) + 1), y(i + ((n - 1) + 1)))
        BY <1>9, <2>1
      <3> QED
        BY <2>1, <3>1
    <2>4. i + n \in Nat
      BY <1>2
    <2>5. y(i + n).ret # PARSING
      <3> HIDE DEF x, y
      <3> QED
        BY <1>2, <2>2, <2>3 DEF Agree
    <2>6. y(i + n) = y(m)
      BY <1>3, <2>4, <2>5, ReturnsOnce
    <2> HIDE DEF x, y
    <2> QED
      BY <2>2, <2>3, <2>6, AgreeTransitive
  <1>11. ASSUME r.ret = WAITING PROVE Resumes(proto, Call(r.parser, r.msg), w, more)
    <2> DEFINE d == Call(r.parser, r.msg)
               v(k) == After(proto, d, more, k)
    <2>1. Clean(proto, c, more)
      BY <1>8, ResumesClean
    <2>2. Resumes(proto, d, c, more)
      BY <1>2, <1>4, <1>11, <2>1, WaitingResumes
    <2> HIDE DEF d
    <2>3. PICK j \in Nat : \A k \in Nat : Agree(v(k + 1), x(j + (k + 1)))
      BY <2>2 DEF Resumes
    <2> HIDE DEF v, x, y
    <2>4. ASSUME NEW k \in Nat PROVE Agree(v(k + 1), y((i + j) + (k + 1)))
      <3>1. j + k \in Nat /\ (j + k) + 1 = j + (k + 1) /\ i + (j + (k + 1)) = (i + j) + (k + 1)
        OBVIOUS
      <3>2. Agree(v(k + 1), x(j + (k + 1)))
        BY <2>3
      <3>3. Agree(x((j + k) + 1), y(i + ((j + k) + 1)))
        BY <1>9, <3>1
      <3>4. Agree(x(j + (k + 1)), y((i + j) + (k + 1)))
        BY <3>1, <3>3
      <3> QED
        BY <3>2, <3>4, AgreeTransitive
    <2>5. i + j \in Nat
      OBVIOUS
    <2>6. Resumes(proto, d, w, more)
      BY <2>4, <2>5 DEF Resumes, v, y
    <2> QED
      BY <2>6 DEF d
  <1> QED
    BY <1>5, <1>6, <1>10, <1>11, CodesDiffer DEF m

----------------------------------------------------------------------------
(* Streams. *)

\* The first state of a call on the first byte of a message.
First(s) == Call(Fresh(s), Empty(s))

\* What is behind a position, and a part of it, are what calls are given.
LEMMA StreamParts ==
    ASSUME NEW s \in Streams, NEW n \in Nat, NEW k \in Nat, n <= k, k <= Len(s.bytes)
    PROVE  /\ s.proto \in Protocols /\ Len(s.bytes) \in Nat
           /\ Rest(s, n) \in Bytes(s.proto) /\ SubSeq(s.bytes, n + 1, k) \in Bytes(s.proto)
           /\ Len(Rest(s, n)) = Len(s.bytes) - n /\ Len(SubSeq(s.bytes, n + 1, k)) = k - n
           /\ Extends(SubSeq(s.bytes, n + 1, k), Rest(s, n))
  <1>1. IsWritten(s)
    BY StreamsAssumption DEF StreamsAssumption
  <1>2. s.proto \in Protocols /\ s.bytes \in Seq(Symbol(s))
    BY <1>1 DEF IsWritten, Protocols
  <1>3. PICK S : Bytes(s.proto) = Seq(S) /\ Symbol(s) \subseteq S
    BY DEF Bytes, Symbol, Text, Symbols
  <1>4. s.bytes \in Seq(S)
    BY <1>2, <1>3, SeqMonotonic
  <1> DEFINE b == s.bytes
             l == Len(b)
             part == SubSeq(b, n + 1, k)
             rest == SubSeq(b, n + 1, l)
  <1>5. l \in Nat
    BY <1>4, LenProperties
  <1>6. n + 1 \in Nat \ {0} /\ k \in Int /\ l \in Int /\ l <= Len(b) /\ k <= Len(b)
    BY <1>5
  <1> DEFINE a == n + 1
  <1> HIDE DEF l, b, a
  <1>7. /\ part \in Seq(S) /\ Len(part) = IF a <= k THEN k - a + 1 ELSE 0
        /\ \A i \in 1..k - a + 1 : part[i] = b[a + i - 1]
    BY <1>4, <1>6, PartType DEF b, a
  <1>8. /\ rest \in Seq(S) /\ Len(rest) = IF a <= l THEN l - a + 1 ELSE 0
        /\ \A i \in 1..l - a + 1 : rest[i] = b[a + i - 1]
    BY <1>4, <1>6, PartType DEF b, a
  <1> HIDE DEF part, rest
  <1>9. Len(part) = k - n /\ Len(rest) = l - n /\ k <= l
    BY <1>5, <1>6, <1>7, <1>8 DEF a, l
  <1>10. Extends(part, rest)
    <2>1. \A i \in 1..Len(part) : i \in 1..k - a + 1 /\ i \in 1..l - a + 1
      BY <1>5, <1>9 DEF a
    <2>2. Len(part) <= Len(rest)
      BY <1>5, <1>9
    <2> QED
      BY <1>7, <1>8, <2>1, <2>2 DEF Extends
  <1>11. Rest(s, n) = rest
    BY DEF Rest, rest, l, b
  <1> QED
    BY <1>2, <1>3, <1>5, <1>7, <1>8, <1>9, <1>10, <1>11 DEF part, b, l

\* Where messages end.
LEMMA EndIs ==
    ASSUME NEW s \in Streams, NEW i \in 0..Len(s.msgs)
    PROVE  /\ Len(s.msgs) \in Nat /\ s.msgs \in Seq(Range(s.msgs))
           /\ End(s, i) \in 0..Len(s.bytes) /\ Len(s.bytes) \in Nat
  <1>1. IsWritten(s)
    BY StreamsAssumption DEF StreamsAssumption
  <1>2. s.msgs \in Seq(Range(s.msgs)) /\ s.bytes \in Seq(Symbol(s))
    BY <1>1 DEF IsWritten
  <1>3. Len(s.msgs) \in Nat /\ Len(s.bytes) \in Nat
    BY <1>2, LenProperties
  <1>4. End(s, i) \in 0..Len(s.bytes)
    BY <1>1 DEF IsWritten
  <1> QED
    BY <1>2, <1>3, <1>4

\* What is behind the i-th message, and the call on it.
LEMMA RestIs ==
    ASSUME NEW s \in Streams, NEW i \in 0..Len(s.msgs), NEW data, data = Rest(s, End(s, i))
    PROVE  s.proto \in Protocols /\ data \in Bytes(s.proto) /\ First(s) \in Calls(s.proto, Len(data))
  <1>1. End(s, i) \in Nat /\ End(s, i) <= Len(s.bytes) /\ End(s, i) <= End(s, i)
    BY EndIs
  <1>2. s.proto \in Protocols /\ data \in Bytes(s.proto)
    BY <1>1, StreamParts
  <1>3. Len(data) \in Nat
    BY <1>2, BytesHave, LenProperties
  <1> QED
    BY <1>2, <1>3, CallStarts DEF First

\* What that call returns.
LEMMA WholeIs ==
    ASSUME NEW s \in Streams, NEW i \in 0..Len(s.msgs), NEW data, data = Rest(s, End(s, i)),
           NEW r, r = After(s.proto, First(s), data, Len(data) \div 2 + 2)
    PROVE  /\ i + 1 <= Len(s.msgs) => /\ r.ret = READY /\ r.msg = s.msgs[i + 1]
                                      /\ End(s, i + 1) = End(s, i) + r.parser.already_parse
           /\ i = Len(s.msgs) => r.ret = IF s.bad THEN ERROR ELSE WAITING
  <1> DEFINE n == Len(data) \div 2 + 2
  <1>1. s.proto \in Protocols /\ data \in Bytes(s.proto) /\ First(s) \in Calls(s.proto, Len(data))
    BY RestIs
  <1>2. n \in Nat
    BY <1>1, RunEnds
  <1>3. Turns(s.proto, First(s), data)[n] = {After(s.proto, First(s), data, n)}
    <2> HIDE DEF n
    <2> QED
      BY <1>1, <1>2, TurnSetIs
  <1>4. Whole(s, i) = {r}
    BY <1>3 DEF Whole, ParseWith, First
  <1>5. IsWritten(s)
    BY StreamsAssumption DEF StreamsAssumption
  <1>6. Len(s.msgs) \in Nat
    BY EndIs
  <1>7. ASSUME i + 1 <= Len(s.msgs)
        PROVE  /\ r.ret = READY /\ r.msg = s.msgs[i + 1]
               /\ End(s, i + 1) = End(s, i) + r.parser.already_parse
    <2>1. i + 1 \in 1..Len(s.msgs) /\ (i + 1) - 1 = i
      BY <1>6, <1>7
    <2>2. \A res \in Whole(s, (i + 1) - 1) :
             /\ res.ret = READY /\ res.msg = s.msgs[i + 1]
             /\ End(s, i + 1) = End(s, (i + 1) - 1) + res.parser.already_parse
      BY <1>5, <2>1 DEF IsWritten
    <2> QED
      BY <1>4, <2>1, <2>2
  <1>8. ASSUME i = Len(s.msgs) PROVE r.ret = IF s.bad THEN ERROR ELSE WAITING
    BY <1>4, <1>5, <1>8 DEF IsWritten
  <1> QED
    BY <1>7, <1>8

\* The calls of a stream without trailer lines find none.
LEMMA UntrailedClean ==
    ASSUME NEW s \in Streams, Untrailed(s), NEW i \in 0..Len(s.msgs),
           NEW data, data = Rest(s, End(s, i))
    PROVE  Clean(s.proto, First(s), data)
  <1> DEFINE n == Len(data) \div 2 + 2
             x(k) == After(s.proto, First(s), data, k)
  <1>1. s.proto \in Protocols /\ data \in Bytes(s.proto) /\ First(s) \in Calls(s.proto, Len(data))
    BY RestIs
  <1>2. n \in Nat /\ x(n).ret # PARSING
    BY <1>1, RunEnds
  <1>3. \A k \in Nat : Turns(s.proto, First(s), data)[k] = {x(k)}
    BY <1>1, TurnSetIs
  <1>4. \A k \in 0..n : \A y \in Turns(s.proto, First(s), data)[k] :
           y.parser.tag = "TRAILER" => CRLF(data, y.parser.already_parse) = 0
    BY DEF Untrailed, First
  <1>5. \A j \in Nat : x(n + j) = x(n)
    BY <1>1, <1>2, RunStops
  <1> HIDE DEF n, x
  <1>6. ASSUME NEW k \in Nat PROVE \E j \in 0..n : x(k) = x(j)
    <2>1. CASE k \in 0..n
      BY <2>1
    <2>2. CASE k \notin 0..n
      <3>1. k - n \in Nat /\ n + (k - n) = k /\ n \in 0..n
        BY <1>2, <2>2
      <3>2. x(n + (k - n)) = x(n)
        BY <1>5, <3>1
      <3> QED
        BY <3>1, <3>2
    <2> QED
      BY <2>1, <2>2
  <1>7. ASSUME NEW k \in Nat, x(k).parser.tag = "TRAILER"
        PROVE  CRLF(data, x(k).parser.already_parse) = 0
    <2>1. PICK j \in 0..n : x(k) = x(j)
      BY <1>6
    <2>2. j \in Nat
      BY <1>2
    <2>3. x(j) \in Turns(s.proto, First(s), data)[j]
      BY <1>3, <2>2
    <2> QED
      BY <1>4, <1>7, <2>1, <2>3
  <1> QED
    BY <1>7 DEF Clean, x

\* There are no trailer lines in a TLV stream.
LEMMA TlvUntrailed ==
    ASSUME NEW s \in Streams, s.proto = "TLV"
    PROVE  Untrailed(s)
  <1> SUFFICES ASSUME NEW i \in 0..Len(s.msgs), NEW data, data = Rest(s, End(s, i)),
                      NEW k \in 0..Len(data) \div 2 + 2, NEW x \in Turns(s.proto, First(s), data)[k]
               PROVE  x.parser.tag # "TRAILER"
    BY DEF Untrailed, First
  <1>1. s.proto \in Protocols /\ data \in Bytes(s.proto) /\ First(s) \in Calls(s.proto, Len(data))
    BY RestIs
  <1>2. k \in Nat /\ Len(data) \in Nat
    <2>1. Len(data) \in Nat
      BY <1>1, BytesHave, LenProperties
    <2> QED
      BY <2>1
  <1>3. x \in Calls(s.proto, Len(data))
    <2> DEFINE proto == s.proto
               w == First(s)
    <2>1. /\ proto \in Protocols /\ data \in Bytes(proto) /\ w \in Calls(proto, Len(data))
          /\ x \in Turns(proto, w, data)[k]
      BY <1>1
    <2> HIDE DEF proto, w
    <2>3. x \in Calls(proto, Len(data))
      BY <1>2, <2>1, StatesOf
    <2> QED
      BY <2>3 DEF proto
  <1> QED
    BY <1>1, <1>2, <1>3, CallHas

----------------------------------------------------------------------------
(* The invariant. *)

Typed ==
    /\ fed \in Nat /\ taken \in Nat /\ taken <= fed /\ fed <= Len(stream.bytes)
    /\ got \in Seq(Range(stream.msgs)) /\ Len(got) <= Len(stream.msgs)

InOrder ==
    /\ \A i \in 1..Len(got) : got[i] = stream.msgs[i]
    /\ taken = End(stream, Len(got))
    /\ ret = ERROR => stream.bad /\ Len(got) = Len(stream.msgs)

\* The next call is one that goes on for a call on everything behind the last
\* message that was found.
GoesOn ==
    /\ Call(parser, msg) \in Calls(stream.proto, fed - taken)
    /\ parser.tag # "TRAILER"
    /\ Resumes(stream.proto, Call(parser, msg), First(stream), Rest(stream, taken))

FeedInv ==
    /\ stream \in Streams
    /\ Untrailed(stream) => Typed /\ InOrder /\ (ret # ERROR => GoesOn)

\* The first call of a message goes on for itself.
LEMMA FirstGoesOn ==
    ASSUME NEW s \in Streams, NEW n \in Nat, NEW data
    PROVE  /\ First(s) \in Calls(s.proto, n) /\ Fresh(s).tag # "TRAILER"
           /\ Resumes(s.proto, First(s), First(s), data)
  <1>1. s.proto \in Protocols
    BY StreamsAssumption DEF StreamsAssumption, IsWritten, Protocols
  <1>2. First(s) \in Calls(s.proto, n) /\ Fresh(s).tag # "TRAILER"
    BY <1>1, CallStarts DEF First
  <1>3. \A k \in Nat : Agree(After(s.proto, First(s), data, k + 1), After(s.proto, First(s), data, 0 + (k + 1)))
    <2>1. \A k \in Nat : 0 + (k + 1) = k + 1
      OBVIOUS
    <2>2. \A x : Agree(x, x)
      BY DEF Agree
    <2> QED
      BY <2>1, <2>2
  <1>4. Resumes(s.proto, First(s), First(s), data)
    <2>1. 0 \in Nat
      OBVIOUS
    <2> QED
      BY <1>3, <2>1 DEF Resumes
  <1> QED
    BY <1>2, <1>4

\* It holds in the beginning.
LEMMA InitFeed == Init => FeedInv
  <1> SUFFICES ASSUME Init PROVE FeedInv
    OBVIOUS
  <1>1. stream \in Streams /\ fed = 0 /\ taken = 0 /\ got = <<>> /\ ret = "new"
        /\ parser = Fresh(stream) /\ msg = Empty(stream)
    BY DEF Init
  <1>2. 0 \in Nat /\ 0 - 0 = 0 /\ 0 <= 0
    OBVIOUS
  <1>3. 0 \in 0..Len(stream.msgs) /\ Len(stream.msgs) \in Nat /\ 0 <= Len(stream.msgs) /\ 0 <= Len(stream.bytes)
    <2>1. Len(stream.msgs) \in Nat /\ Len(stream.bytes) \in Nat
      <3>1. IsWritten(stream)
        BY <1>1, StreamsAssumption DEF StreamsAssumption
      <3> QED
        BY <3>1, LenProperties DEF IsWritten
    <2> QED
      BY <2>1
  <1>4. got \in Seq(Range(stream.msgs)) /\ Len(got) = 0 /\ End(stream, 0) = 0
    BY <1>1, EmptySeq DEF End
  <1>5. Typed
    BY <1>1, <1>2, <1>3, <1>4 DEF Typed
  <1>6. InOrder
    <2>1. 1..0 = {}
      OBVIOUS
    <2>2. "new" # ERROR
      BY DEF ERROR
    <2> QED
      BY <1>1, <1>4, <2>1, <2>2 DEF InOrder
  <1>7. GoesOn
    <2>1. Call(parser, msg) = First(stream)
      BY <1>1 DEF First
    <2> QED
      BY <1>1, <1>2, <2>1, FirstGoesOn DEF GoesOn
  <1> QED
    BY <1>1, <1>5, <1>6, <1>7 DEF FeedInv

\* More data changes nothing of it.
LEMMA DeliverFeed == FeedInv /\ Deliver => FeedInv'
  <1> SUFFICES ASSUME FeedInv, Deliver, Untrailed(stream)
               PROVE  Typed' /\ InOrder' /\ (ret' # ERROR => GoesOn')
    BY DEF FeedInv, Deliver
  <1>1. Typed /\ InOrder /\ GoesOn /\ stream \in Streams
    BY DEF FeedInv, Deliver
  <1>2. /\ ret # ERROR /\ fed < Len(stream.bytes) /\ fed' = fed + 1 /\ ret' = "new"
        /\ UNCHANGED <<stream, taken, parser, msg, got>>
    BY DEF Deliver
  <1>3. Len(stream.bytes) \in Nat /\ stream.proto \in Protocols
    <2>1. taken \in Nat /\ taken <= taken /\ taken <= Len(stream.bytes)
      <3>1. IsWritten(stream)
        BY <1>1, StreamsAssumption DEF StreamsAssumption
      <3>2. Len(stream.bytes) \in Nat
        BY <3>1, LenProperties DEF IsWritten
      <3> QED
        BY <1>1, <3>2 DEF Typed
    <2> QED
      BY <1>1, <2>1, StreamParts
  <1>4. Typed'
    <2>1. fed \in Nat /\ taken \in Nat /\ taken <= fed
      BY <1>1 DEF Typed
    <2>2. fed' \in Nat /\ taken <= fed' /\ fed' <= Len(stream.bytes)
      BY <1>2, <1>3, <2>1
    <2> QED
      BY <1>1, <1>2, <2>2 DEF Typed
  <1>5. InOrder'
    <2>1. "new" # ERROR
      BY DEF ERROR
    <2> QED
      BY <1>1, <1>2, <2>1 DEF InOrder
  <1>6. GoesOn'
    <2> DEFINE c == Call(parser, msg)
               n == fed - taken
               k == fed' - taken
               proto == stream.proto
    <2>1. n \in Nat /\ k \in Nat /\ n <= k
      BY <1>1, <1>2 DEF Typed
    <2>2. c \in Calls(proto, n) /\ proto \in Protocols
      BY <1>1, <1>3 DEF GoesOn
    <2> HIDE DEF c, n, k, proto
    <2>3. c \in Calls(proto, k)
      BY <2>1, <2>2, CallsAgain
    <2> QED
      BY <1>1, <1>2, <2>3 DEF c, k, proto, GoesOn
  <1> QED
    BY <1>4, <1>5, <1>6

\* What a call of parse begins with: all that has come, part of what is behind
\* the last message that was found.
LEMMA CallBegins ==
    ASSUME FeedInv, Untrailed(stream), ret # ERROR,
           NEW i, i = Len(got), NEW all, all = Rest(stream, taken),
           NEW c, c = Call(parser, msg), NEW data, data = Buffer
    PROVE  /\ i \in 0..Len(stream.msgs) /\ Len(stream.msgs) \in Nat /\ taken = End(stream, i)
           /\ stream \in Streams /\ stream.proto \in Protocols
           /\ all \in Bytes(stream.proto) /\ data \in Bytes(stream.proto) /\ Extends(data, all)
           /\ Len(data) = fed - taken /\ c \in Calls(stream.proto, Len(data))
           /\ c.ret = PARSING /\ c.parser.tag # "TRAILER"
           /\ First(stream) \in Calls(stream.proto, Len(all))
           /\ Resumes(stream.proto, c, First(stream), all) /\ Clean(stream.proto, First(stream), all)
  <1>1. Typed /\ InOrder /\ GoesOn /\ stream \in Streams
    BY DEF FeedInv
  <1>2. Len(stream.msgs) \in Nat
    <2>1. IsWritten(stream)
      BY <1>1, StreamsAssumption DEF StreamsAssumption
    <2> QED
      BY <2>1, LenProperties DEF IsWritten
  <1>3. i \in 0..Len(stream.msgs) /\ taken = End(stream, i)
    <2>1. i \in Nat /\ i <= Len(stream.msgs)
      BY <1>1, LenProperties DEF Typed
    <2>2. taken = End(stream, i)
      BY <1>1 DEF InOrder
    <2> QED
      BY <1>2, <2>1, <2>2
  <1>4. /\ stream.proto \in Protocols /\ all \in Bytes(stream.proto)
        /\ First(stream) \in Calls(stream.proto, Len(all))
    BY <1>1, <1>3, RestIs
  <1>5. /\ SubSeq(stream.bytes, taken + 1, fed) \in Bytes(stream.proto)
        /\ Len(SubSeq(stream.bytes, taken + 1, fed)) = fed - taken
        /\ Extends(SubSeq(stream.bytes, taken + 1, fed), Rest(stream, taken))
    <2>1. taken \in Nat /\ fed \in Nat /\ taken <= fed /\ fed <= Len(stream.bytes)
      BY <1>1 DEF Typed
    <2> QED
      BY <1>1, <2>1, StreamParts
  <1>6. data = SubSeq(stream.bytes, taken + 1, fed)
    BY DEF Buffer
  <1>7. data \in Bytes(stream.proto) /\ Extends(data, all) /\ Len(data) = fed - taken
    BY <1>5, <1>6
  <1>8. c \in Calls(stream.proto, Len(data)) /\ Resumes(stream.proto, c, First(stream), all)
    BY <1>1, <1>7 DEF GoesOn
  <1>9. c.ret = PARSING /\ c.parser.tag # "TRAILER"
    BY <1>1 DEF GoesOn, Call
  <1>10. Clean(stream.proto, First(stream), all)
    BY <1>1, <1>3, UntrailedClean
  <1> QED
    BY <1>1, <1>2, <1>3, <1>4, <1>7, <1>8, <1>9, <1>10

\* What it comes to.
LEMMA CallComesTo ==
    ASSUME FeedInv, Untrailed(stream), ret # ERROR,
           NEW i, i = Len(got), NEW all, all = Rest(stream, taken),
           NEW r \in ParseWith(stream.proto, parser, msg, Buffer)
    PROVE  /\ r \in Calls(stream.proto, fed - taken) /\ r.parser.already_parse \in 0..fed - taken
           /\ r.ret \in {READY, ERROR, WAITING}
           /\ r.ret = READY => /\ i + 1 <= Len(stream.msgs) /\ r.msg = stream.msgs[i + 1]
                               /\ End(stream, i + 1) = taken + r.parser.already_parse
           /\ r.ret = ERROR => stream.bad /\ i = Len(stream.msgs)
           /\ r.ret = WAITING => /\ r.parser.tag # "TRAILER"
                                 /\ Resumes(stream.proto, Call(r.parser, r.msg), First(stream), all)
  <1> DEFINE proto == stream.proto
             c == Call(parser, msg)
             data == Buffer
             w == First(stream)
             n == Len(data) \div 2 + 2
             e == After(proto, w, all, Len(all) \div 2 + 2)
             l == Len(stream.msgs)
  <1>1. /\ i \in 0..l /\ l \in Nat /\ taken = End(stream, i)
        /\ stream \in Streams /\ proto \in Protocols
        /\ all \in Bytes(proto) /\ data \in Bytes(proto) /\ Extends(data, all)
        /\ Len(data) = fed - taken /\ c \in Calls(proto, Len(data))
        /\ c.ret = PARSING /\ c.parser.tag # "TRAILER"
        /\ w \in Calls(proto, Len(all))
        /\ Resumes(proto, c, w, all) /\ Clean(proto, w, all)
    BY CallBegins
  <1>2. r \in Turns(proto, c, data)[n]
    BY DEF ParseWith
  <1> HIDE DEF proto, c, data, w, n, l
  <1>3. r = After(proto, c, data, n)
    <2>1. n \in Nat
      BY <1>1, RunEnds DEF n
    <2> QED
      BY <1>1, <1>2, <2>1, StatesOf
  <1>4. /\ r \in Calls(proto, Len(data)) /\ r.ret \in {READY, ERROR, WAITING}
        /\ r.ret # WAITING => Agree(r, e)
        /\ r.ret = WAITING => r.parser.tag # "TRAILER" /\ Resumes(proto, Call(r.parser, r.msg), w, all)
    BY <1>1, <1>3, CallGoesOn DEF n
  <1>5. Len(data) \in Nat
    BY <1>1, BytesHave, LenProperties
  <1>6. r.parser.already_parse \in 0..Len(data)
    BY <1>1, <1>4, <1>5, CallHas
  <1>7. /\ i + 1 <= l => /\ e.ret = READY /\ e.msg = stream.msgs[i + 1]
                         /\ End(stream, i + 1) = End(stream, i) + e.parser.already_parse
        /\ i = l => e.ret = IF stream.bad THEN ERROR ELSE WAITING
    BY <1>1, WholeIs DEF l, proto, w
  <1> HIDE DEF e
  <1>8. i + 1 <= l \/ i = l
    BY <1>1
  <1>9. ASSUME r.ret = READY
        PROVE  /\ i + 1 <= l /\ r.msg = stream.msgs[i + 1]
               /\ End(stream, i + 1) = taken + r.parser.already_parse
    <2>1. e.ret = READY /\ e.parser = r.parser /\ e.msg = r.msg
      BY <1>4, <1>9, CodesDiffer DEF Agree
    <2>2. i # l
      BY <1>7, <2>1, CodesDiffer
    <2> QED
      BY <1>1, <1>7, <1>8, <2>1, <2>2
  <1>10. ASSUME r.ret = ERROR PROVE stream.bad /\ i = l
    <2>1. e.ret = ERROR
      BY <1>4, <1>10, CodesDiffer DEF Agree
    <2>2. i = l
      BY <1>7, <1>8, <2>1, CodesDiffer
    <2> QED
      BY <1>7, <2>1, <2>2, CodesDiffer
  <1> QED
    BY <1>1, <1>4, <1>6, <1>9, <1>10 DEF proto, data, l, w

\* A message was found.
LEMMA FoundKeeps ==
    ASSUME FeedInv, Untrailed(stream), ret # ERROR,
           NEW m, NEW n \in 0..fed - taken, Len(got) + 1 <= Len(stream.msgs),
           m = stream.msgs[Len(got) + 1], End(stream, Len(got) + 1) = taken + n,
           ret' = READY, got' = Append(got, m), taken' = taken + n,
           parser' = Fresh(stream), msg' = Empty(stream), UNCHANGED <<stream, fed>>
    PROVE  (Typed /\ InOrder /\ GoesOn)'
  <1> DEFINE l == Len(stream.msgs)
             i == Len(got)
             M == Range(stream.msgs)
  <1>1. Typed /\ InOrder /\ stream \in Streams
    BY DEF FeedInv
  <1>2. fed \in Nat /\ taken \in Nat /\ taken <= fed /\ fed <= Len(stream.bytes) /\ got \in Seq(M)
    BY <1>1 DEF Typed
  <1>3. i \in Nat /\ l \in Nat /\ i + 1 \in 1..l
    <2>1. i \in Nat
      BY <1>2, LenProperties
    <2>2. l \in Nat
      <3>1. IsWritten(stream)
        BY <1>1, StreamsAssumption DEF StreamsAssumption
      <3> QED
        BY <3>1, LenProperties DEF IsWritten
    <2> QED
      BY <2>1, <2>2
  <1>4. m \in M
    <2>1. stream.msgs \in Seq(M)
      BY <1>1, StreamsAssumption DEF StreamsAssumption, IsWritten
    <2>2. i + 1 \in DOMAIN stream.msgs
      BY <1>3, <2>1, LenProperties
    <2> QED
      BY <2>2 DEF Range
  <1>5. /\ got' \in Seq(M) /\ Len(got') = i + 1
        /\ \A k \in 1..i : got'[k] = got[k]
        /\ got'[i + 1] = m
    <2> HIDE DEF M
    <2> QED
      BY <1>2, <1>4, AppendProperties
  <1>6. taken' \in Nat /\ taken' <= fed
    BY <1>2
  <1>7. Typed'
    BY <1>2, <1>3, <1>5, <1>6 DEF Typed
  <1>8. InOrder'
    <2>1. ASSUME NEW k \in 1..i + 1 PROVE got'[k] = stream.msgs[k]
      <3>1. CASE k = i + 1
        BY <1>5, <3>1
      <3>2. CASE k # i + 1
        <4>1. k \in 1..i
          BY <1>3, <3>2
        <4>2. got[k] = stream.msgs[k]
          BY <1>1, <4>1 DEF InOrder
        <4> QED
          BY <1>5, <4>1, <4>2
      <3> QED
        BY <3>1, <3>2
    <2>2. taken' = End(stream, i + 1)
      OBVIOUS
    <2>3. READY # ERROR
      BY CodesDiffer
    <2> QED
      BY <1>5, <2>1, <2>2, <2>3 DEF InOrder
  <1>9. GoesOn'
    <2>1. fed - (taken + n) \in Nat /\ Call(parser', msg') = First(stream)
      BY <1>2 DEF First
    <2> QED
      BY <1>1, <2>1, FirstGoesOn DEF GoesOn
  <1> QED
    BY <1>7, <1>8, <1>9

\* A call of parse keeps it.
LEMMA ParseFeeds == FeedInv /\ Parse => FeedInv'
  <1> SUFFICES ASSUME FeedInv, Parse, Untrailed(stream)
               PROVE  (Typed /\ InOrder)' /\ (ret' # ERROR => GoesOn')
    BY DEF FeedInv, Parse
  <1>1. Typed /\ InOrder /\ stream \in Streams
    BY DEF FeedInv
  <1>2. PICK r \in ParseWith(stream.proto, parser, msg, Buffer) :
          /\ ret' = r.ret
          /\ IF r.ret = READY
             THEN /\ got' = Append(got, r.msg)
                  /\ taken' = taken + r.parser.already_parse
                  /\ parser' = Fresh(stream)
                  /\ msg' = Empty(stream)
             ELSE /\ parser' = r.parser
                  /\ msg' = r.msg
                  /\ UNCHANGED <<got, taken>>
    BY DEF Parse
  <1>3. ret # ERROR /\ UNCHANGED <<stream, fed>>
    BY DEF Parse
  <1>4. /\ r \in Calls(stream.proto, fed - taken) /\ r.parser.already_parse \in 0..fed - taken
        /\ r.ret \in {READY, ERROR, WAITING}
        /\ r.ret = READY => /\ Len(got) + 1 <= Len(stream.msgs) /\ r.msg = stream.msgs[Len(got) + 1]
                            /\ End(stream, Len(got) + 1) = taken + r.parser.already_parse
        /\ r.ret = ERROR => stream.bad /\ Len(got) = Len(stream.msgs)
        /\ r.ret = WAITING => /\ r.parser.tag # "TRAILER"
                              /\ Resumes(stream.proto, Call(r.parser, r.msg), First(stream), Rest(stream, taken))
    BY <1>3, CallComesTo
  <1>5. CASE r.ret = READY
    BY <1>2, <1>3, <1>4, <1>5, FoundKeeps
  <1>6. CASE r.ret = ERROR
    <2>1. UNCHANGED <<stream, fed, got, taken>> /\ ret' = ERROR
      BY <1>2, <1>3, <1>6, CodesDiffer
    <2>2. Typed'
      BY <1>1, <2>1 DEF Typed
    <2>3. InOrder'
      BY <1>1, <1>4, <1>6, <2>1 DEF InOrder
    <2> QED
      BY <2>1, <2>2, <2>3
  <1>7. CASE r.ret = WAITING
    <2>1. /\ UNCHANGED <<stream, fed, got, taken>> /\ ret' = WAITING
          /\ parser' = r.parser /\ msg' = r.msg
      BY <1>2, <1>3, <1>7, CodesDiffer
    <2>2. Typed'
      BY <1>1, <2>1 DEF Typed
    <2>3. InOrder'
      BY <1>1, <2>1, CodesDiffer DEF InOrder
    <2>4. GoesOn'
      <3> DEFINE n == fed - taken
                 proto == stream.proto
                 c == Call(r.parser, r.msg)
      <3>1. n \in Nat /\ n <= n /\ proto \in Protocols /\ r \in Calls(proto, n)
        <4>1. n \in Nat
          BY <1>1 DEF Typed
        <4>2. proto \in Protocols
          BY <1>1, StreamsAssumption DEF StreamsAssumption, IsWritten, Protocols
        <4> QED
          BY <1>4, <4>1, <4>2
      <3> HIDE DEF n, proto
      <3>2. c \in Calls(proto, n)
        BY <1>7, <3>1, CallsAgain, CodesDiffer
      <3> HIDE DEF c
      <3>3. Call(parser', msg') = c
        BY <2>1 DEF c
      <3> QED
        BY <1>4, <1>7, <2>1, <3>2, <3>3 DEF GoesOn, n, proto, c
    <2> QED
      BY <2>2, <2>3, <2>4
  <1> QED
    BY <1>4, <1>5, <1>6, <1>7

\* The invariant holds, whatever is sent and however it is cut.
THEOREM StreamsAreFollowed == Spec => []FeedInv
  <1>1. Init => FeedInv
    BY InitFeed
  <1>2. FeedInv /\ [Next]_vars => FeedInv'
    <2> SUFFICES ASSUME FeedInv, [Next]_vars PROVE FeedInv'
      OBVIOUS
    <2>1. CASE Deliver
      BY <2>1, DeliverFeed
    <2>2. CASE Parse
      BY <2>2, ParseFeeds
    <2>3. CASE UNCHANGED vars
      BY <2>3 DEF vars, FeedInv, Typed, InOrder, GoesOn
    <2> QED
      BY <2>1, <2>2, <2>3 DEF Next
  <1> QED
    BY <1>1, <1>2, PTL DEF Spec

\* However a stream without trailer lines is cut and however often parse is
\* called, the messages written are found, in order, and only what is malformed
\* is an error.
THEOREM SameMessagesHoweverCut == Spec => [](Untrailed(stream) => SameHoweverCut)
  <1>1. FeedInv => (Untrailed(stream) => SameHoweverCut)
    <2> SUFFICES ASSUME FeedInv, Untrailed(stream) PROVE SameHoweverCut
      OBVIOUS
    <2> DEFINE M == Range(stream.msgs)
               n == Len(got)
    <2>1. Typed /\ InOrder /\ stream \in Streams
      BY DEF FeedInv
    <2>2. stream.msgs \in Seq(M) /\ got \in Seq(M)
      BY <2>1, StreamsAssumption DEF StreamsAssumption, IsWritten, Typed
    <2>3. Extends(got, stream.msgs)
      BY <2>1 DEF Typed, InOrder, Extends
    <2> HIDE DEF M
    <2>4. n \in Nat /\ Len(stream.msgs) \in Nat /\ n <= Len(stream.msgs)
      BY <2>1, <2>2, LenProperties DEF Typed
    <2>5. SubSeq(stream.msgs, 1, n) = SubSeq(got, 1, n)
      <3>1. 1 \in Nat \ {0} /\ n \in Int /\ n <= Len(got)
        BY <2>4
      <3> HIDE DEF n
      <3> QED
        BY <2>2, <2>3, <3>1, PartStays
    <2>6. IsPrefix(got, stream.msgs)
      BY <2>4, <2>5 DEF IsPrefix
    <2>7. ASSUME n = Len(stream.msgs) PROVE got = stream.msgs
      <3>1. \A i \in 1..n : got[i] = stream.msgs[i]
        BY <2>1 DEF InOrder
      <3> QED
        BY <2>2, <2>7, <3>1, SeqEqual
    <2> QED
      BY <2>1, <2>6, <2>7 DEF SameHoweverCut, InOrder
  <1> QED
    BY <1>1, StreamsAreFollowed, PTL

\* A number in the value of a TLV message is read back, whatever its width.
THEOREM NumbersAreReadBack == Spec => []NumbersReadBack
  <1>1. FeedInv => NumbersReadBack
    <2> SUFFICES ASSUME FeedInv, IsTlv, NEW i \in DOMAIN got \cap DOMAIN stream.numbers
                 PROVE  LET number == stream.numbers[i]
                        IN  ZIGZAG_DECODE(VARIANT_DECODE(got[i].value, number.w), number.w) = number.v
      BY DEF NumbersReadBack
    <2>1. stream \in Streams /\ Untrailed(stream)
      BY TlvUntrailed DEF FeedInv, IsTlv
    <2>2. Typed /\ InOrder
      BY <2>1 DEF FeedInv
    <2>3. got[i] = stream.msgs[i]
      <3>1. DOMAIN got = 1..Len(got)
        BY <2>2, LenProperties DEF Typed
      <3> QED
        BY <2>2, <3>1 DEF InOrder
    <2> DEFINE w == stream.numbers[i].w
               v == stream.numbers[i].v
    <2>4. /\ w \in Nat \ {0} /\ v \in Least(w)..Greatest(w) /\ Defined(v, w)
          /\ got[i].value = VARIANT_ENCODE(ZIGZAG_ENCODE(v, w), w, BUFLEN(w))
      BY <2>1, <2>3, StreamsAssumption DEF StreamsAssumption, CarriesNumbers
    <2> HIDE DEF w, v
    <2>5. ZIGZAG_DECODE(VARIANT_DECODE(got[i].value, w), w) = v
      <3>1. w \in Widths /\ BUFLEN(w) \in Nat /\ BUFLEN(w) >= BUFLEN(w)
        <4>1. w \in Widths
          BY <2>4 DEF Widths
        <4>2. BUFLEN(w) \in Nat
          BY <4>1, BuflenFacts
        <4> QED
          BY <4>1, <4>2
      <3>2. ZIGZAG_DECODE(VARIANT_DECODE(VARIANT_ENCODE(ZIGZAG_ENCODE(v, w), w, BUFLEN(w)), w), w) = v
        BY <2>4, <3>1, SignedReadsBack
      <3> QED
        BY <2>4, <3>2
    <2> QED
      BY <2>5 DEF w, v
  <1> QED
    BY <1>1, StreamsAreFollowed, PTL

----------------------------------------------------------------------------
(* Of every stream, those with trailer lines too. *)

\* What is counted as parsed has come.
Counted ==
    /\ stream \in Streams
    /\ fed \in Nat /\ taken \in Nat /\ taken <= fed /\ fed <= Len(stream.bytes)
    /\ ret # ERROR => Call(parser, msg) \in Calls(stream.proto, fed - taken)

\* A call in a state of the receiver returns one thing, of the right type.
LEMMA OneReturn ==
    ASSUME Counted, ret # ERROR
    PROVE  \E r \in Calls(stream.proto, fed - taken) :
              ParseWith(stream.proto, parser, msg, Buffer) = {r} /\ r.ret \in {READY, WAITING, ERROR}
  <1> DEFINE proto == stream.proto
             c == Call(parser, msg)
             data == Buffer
             n == Len(data) \div 2 + 2
             r == After(proto, c, data, n)
  <1>1. /\ proto \in Protocols /\ data \in Bytes(proto) /\ Len(data) = fed - taken
        /\ fed - taken \in Nat
    <2>1. /\ stream \in Streams /\ fed \in Nat /\ taken \in Nat /\ taken <= fed
          /\ fed <= Len(stream.bytes)
      BY DEF Counted
    <2>2. fed - taken \in Nat
      BY <2>1
    <2>3. /\ stream.proto \in Protocols
          /\ SubSeq(stream.bytes, taken + 1, fed) \in Bytes(stream.proto)
          /\ Len(SubSeq(stream.bytes, taken + 1, fed)) = fed - taken
      BY <2>1, StreamParts
    <2> QED
      BY <2>2, <2>3 DEF Buffer
  <1>2. c \in Calls(proto, Len(data)) /\ Len(data) \in Nat
    BY <1>1 DEF Counted
  <1>3. ParseWith(proto, parser, msg, data) = Turns(proto, c, data)[n]
    BY DEF ParseWith
  <1> HIDE DEF proto, c, data
  <1>4. n \in Nat /\ r.ret # PARSING
    BY <1>1, <1>2, RunEnds
  <1>5. Turns(proto, c, data)[n] = {r} /\ r \in Calls(proto, Len(data))
    <2> HIDE DEF n
    <2> QED
      BY <1>1, <1>2, <1>4, RunIs
  <1> HIDE DEF r
  <1>6. r.ret \in Codes
    BY <1>1, <1>2, <1>5, CallHas
  <1>7. r.ret \in {READY, WAITING, ERROR}
    BY <1>4, <1>6 DEF Codes
  <1> QED
    BY <1>1, <1>3, <1>5, <1>7 DEF proto, data

\* It holds in the beginning, and every step keeps it.
LEMMA CountedAlways == Spec => []Counted
  <1>1. Init => Counted
    <2> SUFFICES ASSUME Init PROVE Counted
      OBVIOUS
    <2>1. stream \in Streams /\ fed = 0 /\ taken = 0 /\ parser = Fresh(stream) /\ msg = Empty(stream)
      BY DEF Init
    <2>2. Len(stream.bytes) \in Nat
      <3>1. IsWritten(stream)
        BY <2>1, StreamsAssumption DEF StreamsAssumption
      <3> QED
        BY <3>1, LenProperties DEF IsWritten
    <2>3. Call(parser, msg) \in Calls(stream.proto, 0)
      <3>1. 0 \in Nat /\ Call(parser, msg) = First(stream)
        BY <2>1 DEF First
      <3> QED
        BY <2>1, <3>1, FirstGoesOn
    <2> QED
      BY <2>1, <2>2, <2>3 DEF Counted
  <1>2. Counted /\ [Next]_vars => Counted'
    <2> SUFFICES ASSUME Counted, [Next]_vars PROVE Counted'
      OBVIOUS
    <2>1. /\ stream \in Streams /\ fed \in Nat /\ taken \in Nat /\ taken <= fed
          /\ fed <= Len(stream.bytes)
          /\ ret # ERROR => Call(parser, msg) \in Calls(stream.proto, fed - taken)
      BY DEF Counted
    <2>2. stream.proto \in Protocols /\ Len(stream.bytes) \in Nat
      BY <2>1, StreamParts
    <2>3. CASE Deliver
      <3>1. /\ ret # ERROR /\ fed < Len(stream.bytes) /\ fed' = fed + 1
            /\ UNCHANGED <<stream, taken, parser, msg>>
        BY <2>3 DEF Deliver
      <3> DEFINE n == fed - taken
                 k == fed' - taken
                 proto == stream.proto
                 c == Call(parser, msg)
      <3>2. n \in Nat /\ k \in Nat /\ n <= k /\ c \in Calls(proto, n) /\ proto \in Protocols
        BY <2>1, <2>2, <3>1
      <3> HIDE DEF n, k, proto, c
      <3>3. c \in Calls(proto, k)
        BY <3>2, CallsAgain
      <3>4. fed' \in Nat /\ taken <= fed' /\ fed' <= Len(stream.bytes)
        BY <2>1, <2>2, <3>1
      <3> QED
        BY <2>1, <3>1, <3>3, <3>4 DEF k, proto, c, Counted
    <2>4. CASE Parse
      <3>1. PICK r \in ParseWith(stream.proto, parser, msg, Buffer) :
              /\ ret' = r.ret
              /\ IF r.ret = READY
                 THEN /\ taken' = taken + r.parser.already_parse
                      /\ parser' = Fresh(stream)
                      /\ msg' = Empty(stream)
                 ELSE /\ parser' = r.parser
                      /\ msg' = r.msg
                      /\ taken' = taken
        BY <2>4 DEF Parse
      <3>2. ret # ERROR /\ UNCHANGED <<stream, fed>>
        BY <2>4 DEF Parse
      <3> DEFINE n == fed - taken
                 proto == stream.proto
      <3>3. n \in Nat /\ n <= n /\ proto \in Protocols
        BY <2>1, <2>2
      <3>4. r \in Calls(proto, n)
        BY <3>1, <3>2, OneReturn
      <3> HIDE DEF n, proto
      <3>5. CASE r.ret = READY
        <4>1. r.parser.already_parse \in 0..n
          BY <3>3, <3>4, CallHas
        <4>2. taken' = taken + r.parser.already_parse /\ Call(parser', msg') = First(stream)
          BY <3>1, <3>5 DEF First
        <4>3. taken' \in Nat /\ taken' <= fed /\ fed - taken' \in Nat
          BY <2>1, <4>1, <4>2 DEF n
        <4>4. First(stream) \in Calls(stream.proto, fed - taken')
          BY <2>1, <4>3, FirstGoesOn
        <4> QED
          BY <2>1, <3>2, <4>2, <4>3, <4>4 DEF Counted
      <3>6. CASE r.ret # READY
        <4>1. ret' = r.ret /\ parser' = r.parser /\ msg' = r.msg /\ taken' = taken
          BY <3>1, <3>6
        <4>2. r.ret # ERROR => Call(r.parser, r.msg) \in Calls(proto, n)
          BY <3>3, <3>4, CallsAgain
        <4> QED
          BY <2>1, <3>2, <4>1, <4>2 DEF Counted, proto, n
      <3> QED
        BY <3>5, <3>6
    <2>5. CASE UNCHANGED vars
      BY <2>5 DEF vars, Counted
    <2> QED
      BY <2>3, <2>4, <2>5 DEF Next
  <1> QED
    BY <1>1, <1>2, PTL DEF Spec

\* parse returns on every call, and what it counts as parsed has come.
Returned ==
    /\ taken <= fed /\ fed <= Len(stream.bytes)
    /\ ret # ERROR =>
          /\ parser.already_parse <= fed - taken
          /\ \E r : /\ ParseWith(stream.proto, parser, msg, Buffer) = {r}
                    /\ r.ret \in {READY, WAITING, ERROR}
                    /\ r.parser.already_parse <= fed - taken

\* Every call of parse returns, whatever came and however it was cut, within the
\* turns that ParseWith takes, and never counts more as parsed than it was given.
THEOREM EveryCallReturns == Spec => []Returned
  <1>1. Counted => Returned
    <2> SUFFICES ASSUME Counted PROVE Returned
      OBVIOUS
    <2>1. /\ stream \in Streams /\ fed \in Nat /\ taken \in Nat /\ taken <= fed
          /\ fed <= Len(stream.bytes)
          /\ ret # ERROR => Call(parser, msg) \in Calls(stream.proto, fed - taken)
      BY DEF Counted
    <2>2. stream.proto \in Protocols /\ fed - taken \in Nat
      BY <2>1, StreamParts
    <2>3. ASSUME ret # ERROR
          PROVE  /\ parser.already_parse <= fed - taken
                 /\ \E r : /\ ParseWith(stream.proto, parser, msg, Buffer) = {r}
                           /\ r.ret \in {READY, WAITING, ERROR}
                           /\ r.parser.already_parse <= fed - taken
      <3>1. \A s \in Calls(stream.proto, fed - taken) : s.parser.already_parse <= fed - taken
        BY <2>2, CallHas
      <3>2. Call(parser, msg).parser.already_parse <= fed - taken
        BY <2>1, <2>3, <3>1
      <3>3. parser.already_parse <= fed - taken
        BY <3>2 DEF Call
      <3>4. PICK r \in Calls(stream.proto, fed - taken) :
               ParseWith(stream.proto, parser, msg, Buffer) = {r} /\ r.ret \in {READY, WAITING, ERROR}
        BY <2>3, OneReturn
      <3> QED
        BY <3>1, <3>3, <3>4
    <2> QED
      BY <2>1, <2>3 DEF Returned
  <1> QED
    BY <1>1, CountedAlways, PTL
=============================================================================
