---------------------------- MODULE TxStreamProofs ----------------------------
(* Theorems about TxStream, for every frame that fits in the FIFO of the    *)
(* chip, whatever its size and however it is split in vectors.              *)
EXTENDS TxStream, NatRecursion, NfcTablesProofs, SequenceTheorems

(* The concatenations of the first sequences of a sequence.                 *)
Flattened(s) == LET flatten[i \in 1 .. Len(s)] ==
                        IF i = 1 THEN s[i] ELSE flatten[i - 1] \o s[i]
                IN flatten

LEMMA FlattenSeqIs ==
    \A s : Len(s) # 0 => FlattenSeq(s) = Flattened(s)[Len(s)]
BY DEF FlattenSeq, Flattened

(* The equations of the totals. *)
LEMMA TotalsEquation ==
    ASSUME NEW f \in Seq(Nat)
    PROVE  /\ Totals(f) \in [0 .. Len(f) -> Nat]
           /\ Totals(f)[0] = 0
           /\ \A i \in 1 .. Len(f) : Totals(f)[i] = Totals(f)[i - 1] + f[i]
<1> DEFINE G == [p \in Nat \X Nat |-> IF p[1] + 1 \in 1 .. Len(f)
                                      THEN p[2] + f[p[1] + 1] ELSE p[2]]
<1>1. G \in [Nat \X Nat -> Nat]
  OBVIOUS
<1> HIDE DEF G
<1>2. PICK g \in [Nat -> Nat] : Recurs(g, 0, G)
  BY <1>1, RecursionExists, Zenon
<1> USE DEF G, Recurs
<1> DEFINE h == [i \in 0 .. Len(f) |-> g[i]]
<1>3. Len(f) \in Nat
  OBVIOUS
<1>4. \A i \in 1 .. Len(f) : g[i] = g[i - 1] + f[i]
  <2> TAKE i \in 1 .. Len(f)
  <2>1. i - 1 \in Nat /\ (i - 1) + 1 = i
    BY <1>3
  <2>2. g[i] = G[<<i - 1, g[i - 1]>>]
    BY <1>2, <2>1
  <2>3. <<i - 1, g[i - 1]>> \in Nat \X Nat
    BY <1>2, <2>1
  <2> QED BY <2>1, <2>2, <2>3
<1>5. h = [i \in 0 .. Len(f) |-> IF i = 0 THEN 0 ELSE h[i - 1] + f[i]]
  <2>1. \A i \in 0 .. Len(f) : h[i] = IF i = 0 THEN 0 ELSE h[i - 1] + f[i]
    <3> TAKE i \in 0 .. Len(f)
    <3>1. CASE i = 0
      BY <1>2, <3>1
    <3>2. CASE i # 0
      <4>1. i - 1 \in 0 .. Len(f) /\ i \in 1 .. Len(f)
        BY <1>3, <3>2
      <4> QED BY <1>4, <4>1
    <3> QED BY <3>1, <3>2
  <2> QED BY <2>1
<1>6. Totals(f) = [i \in 0 .. Len(f) |-> IF i = 0 THEN 0 ELSE Totals(f)[i - 1] + f[i]]
  <2> HIDE DEF h
  <2> QED BY <1>5, Zenon DEF Totals
<1>7. /\ Totals(f)[0] = 0
      /\ \A i \in 1 .. Len(f) : Totals(f)[i] = Totals(f)[i - 1] + f[i]
  <2>1. ASSUME NEW T, T = [i \in 0 .. Len(f) |-> IF i = 0 THEN 0 ELSE T[i - 1] + f[i]]
        PROVE  /\ T[0] = 0
               /\ \A i \in 1 .. Len(f) : T[i] = T[i - 1] + f[i]
    <3>1. \A i \in 0 .. Len(f) : T[i] = IF i = 0 THEN 0 ELSE T[i - 1] + f[i]
      BY <2>1, Zenon
    <3>2. 0 \in 0 .. Len(f) /\ \A i \in 1 .. Len(f) : i \in 0 .. Len(f) /\ i # 0
      BY <1>3
    <3> QED BY <3>1, <3>2, Zenon
  <2> QED BY <1>6, <2>1
<1> DEFINE P == {i \in Nat : i <= Len(f) => Totals(f)[i] \in Nat}
<1>8. \A i \in Nat : i \in P
  <2>1. 0 \in P
    BY <1>7
  <2>2. ASSUME NEW i \in Nat, i \in P PROVE i + 1 \in P
    <3>1. CASE i + 1 <= Len(f)
      <4>1. Totals(f)[i] \in Nat /\ f[i + 1] \in Nat
        <5>1. i + 1 \in 1 .. Len(f) /\ i <= Len(f)
          BY <1>3, <3>1
        <5>2. Totals(f)[i] \in Nat
          BY <2>2, <5>1
        <5>3. f[i + 1] \in Nat
          BY <5>1, ElementOfSeq
        <5> QED BY <5>2, <5>3
      <4>2. i + 1 \in 1 .. Len(f) /\ (i + 1) - 1 = i
        BY <1>3, <3>1
      <4>3. Totals(f)[i + 1] = Totals(f)[i] + f[i + 1]
        BY <1>7, <4>2
      <4>4. \A a, b \in Nat : a + b \in Nat
        OBVIOUS
      <4> QED BY <4>1, <4>3, <4>4
    <3> QED BY <1>3, <2>2, <3>1
  <2> HIDE DEF P
  <2> QED BY <2>1, <2>2, SetInduction
<1>9. Totals(f) \in [0 .. Len(f) -> Nat]
  <2>1. \A i \in 0 .. Len(f) : Totals(f)[i] \in Nat
    BY <1>3, <1>8
  <2> QED BY <1>6, <2>1
<1> QED BY <1>7, <1>9

(* The equations of the concatenation of a sequence of sequences. *)
LEMMA FlattenedEquation ==
    ASSUME NEW E, NEW s \in Seq(Seq(E)), Len(s) # 0
    PROVE  /\ Flattened(s) \in [1 .. Len(s) -> Seq(E)]
           /\ Flattened(s)[1] = s[1]
           /\ \A i \in 2 .. Len(s) : Flattened(s)[i] = Flattened(s)[i - 1] \o s[i]
<1> DEFINE G == [p \in Nat \X Seq(E) |-> IF p[1] + 2 \in 1 .. Len(s)
                                         THEN p[2] \o s[p[1] + 2] ELSE p[2]]
<1>0. Len(s) \in Nat /\ 1 \in 1 .. Len(s) /\ \A i \in 1 .. Len(s) : s[i] \in Seq(E)
  BY ElementOfSeq
<1>a. \A a, b \in Seq(E) : a \o b \in Seq(E)
  OBVIOUS
<1>1. G \in [Nat \X Seq(E) -> Seq(E)]
  <2>1. ASSUME NEW p \in Nat \X Seq(E)
        PROVE  (IF p[1] + 2 \in 1 .. Len(s) THEN p[2] \o s[p[1] + 2] ELSE p[2]) \in Seq(E)
    <3>1. p[2] \in Seq(E)
      OBVIOUS
    <3> QED BY <1>0, <1>a, <3>1
  <2> QED BY <2>1
<1> HIDE DEF G
<1>2. PICK g \in [Nat -> Seq(E)] : Recurs(g, s[1], G)
  BY <1>0, <1>1, RecursionExists, Zenon
<1> USE DEF G
<1> DEFINE h == [i \in 1 .. Len(s) |-> g[i - 1]]
<1>3. \A i \in 2 .. Len(s) : g[i - 1] = g[i - 2] \o s[i]
  <2> TAKE i \in 2 .. Len(s)
  <2>1. i - 2 \in Nat /\ (i - 2) + 1 = i - 1 /\ (i - 2) + 2 = i /\ i \in 1 .. Len(s)
    BY <1>0
  <2>2. g[(i - 2) + 1] = G[<<i - 2, g[i - 2]>>]
    BY <1>2, <2>1 DEF Recurs
  <2>3. g[i - 2] \in Seq(E)
    BY <2>1
  <2>4. <<i - 2, g[i - 2]>> \in Nat \X Seq(E)
    BY <2>1, <2>3
  <2>5. G[<<i - 2, g[i - 2]>>] = g[i - 2] \o s[i]
    BY <2>1, <2>4
  <2> QED BY <2>1, <2>2, <2>5
<1>4. h = [i \in 1 .. Len(s) |-> IF i = 1 THEN s[i] ELSE h[i - 1] \o s[i]]
  <2>1. \A i \in 1 .. Len(s) : h[i] = IF i = 1 THEN s[i] ELSE h[i - 1] \o s[i]
    <3> TAKE i \in 1 .. Len(s)
    <3>1. CASE i = 1
      BY <1>2, <3>1 DEF Recurs
    <3>2. CASE i # 1
      <4>1. i \in 2 .. Len(s) /\ i - 1 \in 1 .. Len(s) /\ (i - 1) - 1 = i - 2
        BY <1>0, <3>2
      <4>2. h[i] = g[i - 1] /\ h[i - 1] = g[i - 2]
        BY <4>1
      <4> QED BY <1>3, <3>2, <4>1, <4>2
    <3> QED BY <3>1, <3>2
  <2> QED BY <2>1
<1> HIDE DEF h
<1>5. Flattened(s) = [i \in 1 .. Len(s) |->
                        IF i = 1 THEN s[i] ELSE Flattened(s)[i - 1] \o s[i]]
  BY <1>4, Zenon DEF Flattened
<1>6. /\ Flattened(s)[1] = s[1]
      /\ \A i \in 2 .. Len(s) : Flattened(s)[i] = Flattened(s)[i - 1] \o s[i]
  <2>1. ASSUME NEW T, T = [i \in 1 .. Len(s) |-> IF i = 1 THEN s[i] ELSE T[i - 1] \o s[i]]
        PROVE  T[1] = s[1] /\ \A i \in 2 .. Len(s) : T[i] = T[i - 1] \o s[i]
    <3>1. \A i \in 1 .. Len(s) : T[i] = IF i = 1 THEN s[i] ELSE T[i - 1] \o s[i]
      BY <2>1, Zenon
    <3>2. \A i \in 2 .. Len(s) : i \in 1 .. Len(s) /\ i # 1
      BY <1>0
    <3> QED BY <1>0, <3>1, <3>2, Zenon
  <2> QED BY <1>5, <2>1
<1> DEFINE P == {i \in Nat : i \in 1 .. Len(s) => Flattened(s)[i] \in Seq(E)}
<1>7. \A i \in Nat : i \in P
  <2>1. 0 \in P
    OBVIOUS
  <2>2. ASSUME NEW i \in Nat, i \in P PROVE i + 1 \in P
    <3>1. CASE i = 0
      <4>1. i + 1 = 1
        BY <3>1
      <4>2. Flattened(s)[i + 1] \in Seq(E)
        BY <1>0, <1>6, <4>1
      <4> QED BY <4>2
    <3>2. CASE i # 0 /\ i + 1 <= Len(s)
      <4>1. /\ i + 1 \in 2 .. Len(s) /\ (i + 1) - 1 = i
            /\ i + 1 \in 1 .. Len(s) /\ i \in 1 .. Len(s)
        BY <1>0, <3>2
      <4>2. Flattened(s)[i + 1] = Flattened(s)[i] \o s[i + 1]
        BY <1>6, <4>1
      <4>3. Flattened(s)[i] \in Seq(E) /\ s[i + 1] \in Seq(E)
        BY <1>0, <2>2, <4>1
      <4>4. Flattened(s)[i + 1] \in Seq(E)
        BY <1>a, <4>2, <4>3
      <4> QED BY <4>4
    <3> QED BY <1>0, <2>2, <3>1, <3>2
  <2> HIDE DEF P
  <2> QED BY <2>1, <2>2, SetInduction
<1>8. \A i \in 1 .. Len(s) : Flattened(s)[i] \in Seq(E)
  BY <1>0, <1>7
<1> QED BY <1>5, <1>6, <1>8

(* A frame that fits in the FIFO: only its last vector may end in a broken  *)
(* byte.                                                                    *)
Fitting(f) ==
    /\ f \in Seq(Nat \ {0}) /\ Len(f) # 0
    /\ \A v \in 1 .. Len(f) - 1 : f[v] % 8 = 0
    /\ InBytes(Bits(f)) <= FifoSize

(* A byte is where it lies in the frame, its vector and its index there.   *)
Places == Nat \X Nat

(* The bytes of vector v of frame f, and of its first n vectors. *)
Vector(f, v) == [i \in 1 .. InBytes(f[v]) |-> <<v, i>>]
Pieces(f) == [v \in 1 .. Len(f) |-> Vector(f, v)]
First(f, n) == IF n = 0 THEN <<>> ELSE Flattened(Pieces(f))[n]

LEMMA VectorType ==
    ASSUME NEW f \in Seq(Nat \ {0}), NEW v \in 1 .. Len(f)
    PROVE  /\ f[v] \in Nat \ {0} /\ InBytes(f[v]) \in Nat
           /\ Vector(f, v) \in Seq(Places) /\ Len(Vector(f, v)) = InBytes(f[v])
<1>1. f[v] \in Nat \ {0} /\ v \in Nat
  BY ElementOfSeq
<1>2. InBytes(f[v]) \in Nat
  BY <1>1, SMT DEF InBytes
<1>3. \A i \in 1 .. InBytes(f[v]) : <<v, i>> \in Places
  BY <1>1, <1>2 DEF Places
<1>4. Vector(f, v) \in Seq(Places)
  BY <1>2, <1>3 DEF Vector
<1>5. Len(Vector(f, v)) = InBytes(f[v])
  BY <1>2 DEF Vector
<1> QED BY <1>1, <1>2, <1>4, <1>5

LEMMA FirstEquation ==
    ASSUME NEW f \in Seq(Nat \ {0})
    PROVE  /\ \A n \in 0 .. Len(f) : First(f, n) \in Seq(Places)
           /\ \A n \in 1 .. Len(f) : First(f, n) = First(f, n - 1) \o Vector(f, n)
<1>1. Pieces(f) \in Seq(Seq(Places)) /\ Len(Pieces(f)) = Len(f)
  <2>1. Len(f) \in Nat
    OBVIOUS
  <2>2. \A v \in 1 .. Len(f) : Vector(f, v) \in Seq(Places)
    BY VectorType
  <2> QED BY <2>1, <2>2 DEF Pieces
<1>2. Len(f) \in Nat
  OBVIOUS
<1>3. CASE Len(f) = 0
  BY <1>3 DEF First
<1>4. CASE Len(f) # 0
  <2> DEFINE F == Flattened(Pieces(f))
  <2>1. /\ \A n \in 1 .. Len(f) : F[n] \in Seq(Places)
        /\ F[1] = Pieces(f)[1]
        /\ \A n \in 2 .. Len(f) : F[n] = F[n - 1] \o Pieces(f)[n]
    BY <1>1, <1>4, FlattenedEquation
  <2>2. \A n \in 1 .. Len(f) : Pieces(f)[n] = Vector(f, n)
    BY DEF Pieces
  <2> HIDE DEF F
  <2>3. First(f, 0) = <<>> /\ \A n \in 1 .. Len(f) : First(f, n) = F[n]
    BY DEF First, F
  <2>4. Vector(f, 1) \in Seq(Places)
    BY <1>2, <1>4, <2>1, <2>2
  <2>5. ASSUME NEW n \in 1 .. Len(f)
        PROVE  First(f, n) = First(f, n - 1) \o Vector(f, n)
    <3>1. CASE n = 1
      <4>1. First(f, n) = Vector(f, 1) /\ n - 1 = 0
        BY <2>1, <2>2, <2>3, <3>1
      <4>2. <<>> \o Vector(f, 1) = Vector(f, 1)
        BY <2>4
      <4> QED BY <2>3, <3>1, <4>1, <4>2
    <3>2. CASE n # 1
      <4>1. n \in 2 .. Len(f) /\ n - 1 \in 1 .. Len(f)
        BY <1>2, <3>2
      <4> QED BY <2>1, <2>2, <2>3, <4>1
    <3> QED BY <3>1, <3>2
  <2>6. \A n \in 0 .. Len(f) : First(f, n) \in Seq(Places)
    <3>1. \A n \in 0 .. Len(f) : n = 0 \/ n \in 1 .. Len(f)
      BY <1>2
    <3>2. <<>> \in Seq(Places)
      OBVIOUS
    <3> QED BY <2>1, <2>3, <3>1, <3>2
  <2> QED BY <2>5, <2>6
<1> QED BY <1>3, <1>4

(* The number of bytes of the first vectors: whole ones until the last.    *)
LEMMA Ceiling ==
    ASSUME NEW n \in Nat, NEW m \in Nat
    PROVE  /\ InBytes(n) \in Nat
           /\ m % 8 = 0 => m + n = 8 * (m \div 8) + n
           /\ InBytes(8 * m) = m
           /\ InBytes(8 * m + n) = m + InBytes(n)
           /\ n # 0 => InBytes(n) # 0
           /\ n <= m => InBytes(n) <= InBytes(m)
BY SMT DEF InBytes

LEMMA FirstLength ==
    ASSUME NEW f, Fitting(f)
    PROVE  /\ \A n \in 0 .. Len(f) - 1 : Totals(f)[n] = 8 * Len(First(f, n))
           /\ Len(First(f, Len(f))) = InBytes(Bits(f))
           /\ \A n \in 1 .. Len(f) : Len(First(f, n)) = Len(First(f, n - 1)) + InBytes(f[n])
<1>1. /\ f \in Seq(Nat \ {0}) /\ f \in Seq(Nat) /\ Len(f) \in Nat \ {0}
      /\ \A v \in 1 .. Len(f) - 1 : f[v] % 8 = 0
      /\ \A v \in 1 .. Len(f) : f[v] \in Nat
  <2>1. f \in Seq(Nat \ {0}) /\ Len(f) \in Nat \ {0}
        /\ \A v \in 1 .. Len(f) - 1 : f[v] % 8 = 0
    BY DEF Fitting
  <2>2. \A v \in 1 .. Len(f) : f[v] \in Nat
    BY <2>1, ElementOfSeq
  <2> QED BY <2>1, <2>2
<1>2. /\ \A n \in 0 .. Len(f) : Totals(f)[n] \in Nat
      /\ Totals(f)[0] = 0
      /\ \A n \in 1 .. Len(f) : Totals(f)[n] = Totals(f)[n - 1] + f[n]
  BY <1>1, TotalsEquation
<1>3. /\ \A n \in 0 .. Len(f) : First(f, n) \in Seq(Places)
      /\ \A n \in 1 .. Len(f) : First(f, n) = First(f, n - 1) \o Vector(f, n)
  BY <1>1, FirstEquation
<1>4. ASSUME NEW n \in 1 .. Len(f)
      PROVE  Len(First(f, n)) = Len(First(f, n - 1)) + InBytes(f[n])
  <2>1. Vector(f, n) \in Seq(Places) /\ Len(Vector(f, n)) = InBytes(f[n])
    BY <1>1, VectorType
  <2>2. First(f, n - 1) \in Seq(Places)
    BY <1>1, <1>3
  <2>3. \A a, b \in Seq(Places) : Len(a \o b) = Len(a) + Len(b)
    OBVIOUS
  <2> QED BY <1>3, <2>1, <2>2, <2>3
<1> DEFINE P == {n \in Nat : n <= Len(f) - 1 => Totals(f)[n] = 8 * Len(First(f, n))}
<1>5. \A n \in Nat : n \in P
  <2>1. 0 \in P
    BY <1>2 DEF First
  <2>2. ASSUME NEW n \in Nat, n \in P PROVE n + 1 \in P
    <3>1. CASE n + 1 <= Len(f) - 1
      <4>1. n + 1 \in 1 .. Len(f) - 1 /\ n + 1 \in 1 .. Len(f) /\ (n + 1) - 1 = n
            /\ n <= Len(f) - 1 /\ n \in 0 .. Len(f)
        BY <1>1, <3>1
      <4>2. Totals(f)[n] = 8 * Len(First(f, n)) /\ Len(First(f, n)) \in Nat
        BY <1>3, <2>2, <4>1
      <4>3. f[n + 1] \in Nat /\ f[n + 1] % 8 = 0
        BY <1>1, <4>1
      <4>4. InBytes(f[n + 1]) \in Nat /\ 8 * InBytes(f[n + 1]) = f[n + 1]
        BY <4>3, SMT DEF InBytes
      <4>5. /\ Totals(f)[n + 1] = Totals(f)[n] + f[n + 1]
            /\ Len(First(f, n + 1)) = Len(First(f, n)) + InBytes(f[n + 1])
        BY <1>2, <1>4, <4>1
      <4>6. Totals(f)[n + 1] = 8 * Len(First(f, n + 1))
        <5>1. \A a, b, c, d \in Nat : a = 8 * b /\ 8 * c = d => a + d = 8 * (b + c)
          OBVIOUS
        <5>2. Totals(f)[n] \in Nat
          BY <4>2
        <5>3. Totals(f)[n] + f[n + 1] = 8 * (Len(First(f, n)) + InBytes(f[n + 1]))
          BY <4>2, <4>3, <4>4, <5>1, <5>2
        <5> QED BY <4>5, <5>3
      <4> QED BY <4>6
    <3> QED BY <1>1, <2>2, <3>1
  <2> HIDE DEF P
  <2> QED BY <2>1, <2>2, SetInduction
<1>6. Len(First(f, Len(f))) = InBytes(Bits(f))
  <2> DEFINE L == Len(f)
  <2>1. L \in 1 .. Len(f) /\ L - 1 \in 0 .. Len(f) /\ L - 1 \in Nat /\ L - 1 <= Len(f) - 1
    BY <1>1
  <2>2. Totals(f)[L] = Totals(f)[L - 1] + f[L] /\ Totals(f)[L - 1] = 8 * Len(First(f, L - 1))
    BY <1>2, <1>5, <2>1
  <2>3. Len(First(f, L)) = Len(First(f, L - 1)) + InBytes(f[L])
    BY <1>4, <2>1
  <2>4. Len(First(f, L - 1)) \in Nat /\ f[L] \in Nat
    BY <1>1, <1>3, <2>1
  <2>5. Bits(f) = 8 * Len(First(f, L - 1)) + f[L]
    BY <2>2 DEF Bits
  <2>6. InBytes(Bits(f)) = Len(First(f, L - 1)) + InBytes(f[L])
    BY <2>4, <2>5, Ceiling
  <2> QED BY <2>3, <2>6
<1>7. \A n \in 0 .. Len(f) - 1 : n \in Nat /\ n <= Len(f) - 1
  BY <1>1
<1> QED BY <1>4, <1>5, <1>6, <1>7

(* What is on the way to the chip is the first vectors, as many as the     *)
(* loop of transmit has taken; the counts of the loop are those of the     *)
(* vectors that are left; and the chip stops where the frame ends.         *)
Taken == Len(frame) - len
TxInv ==
    /\ frame \in Frames /\ len \in 0 .. Len(frame)
    /\ air \in Seq(Places) /\ fifo \in Seq(Places)
    /\ air \o fifo = First(frame, Taken)
    /\ bits = Bits(frame) - Totals(frame)[Taken]
    /\ filled = Len(First(frame, Taken))
    /\ announced = InBytes(Bits(frame))
    /\ pc \in {"fill", "wait", "done"}
    /\ pc = "fill" => vec = IF len = 0 THEN Len(frame) ELSE Taken + 1
    /\ len = 0 => sent = Size(Len(frame))
    /\ pc # "fill" => len = 0 /\ vec = Len(frame) /\ txBytes = 0
    /\ "TX" \in status \/ pc = "done" => Len(air) = announced

(* What a frame that fits does to the loop: while bits are left, vectors   *)
(* are, and the next one fits in what is left of the FIFO.                 *)
LEMMA LoopOnFrame ==
    ASSUME NEW f, Fitting(f), NEW n \in 0 .. Len(f)
    PROVE  /\ Len(f) \in Nat \ {0} /\ Bits(f) \in Nat
           /\ Len(First(f, n)) \in Nat /\ Len(First(f, n)) <= InBytes(Bits(f))
           /\ n = Len(f) => Totals(f)[n] = Bits(f)
           /\ n < Len(f) => /\ Totals(f)[n] < Bits(f)
                            /\ Totals(f)[n + 1] = Totals(f)[n] + f[n + 1]
                            /\ Len(First(f, n)) < FifoSize
                            /\ Len(First(f, n)) + InBytes(f[n + 1]) <= FifoSize
<1> DEFINE B(k) == Len(First(f, k))
<1>1. /\ f \in Seq(Nat \ {0}) /\ f \in Seq(Nat) /\ Len(f) \in Nat \ {0}
      /\ \A v \in 1 .. Len(f) : f[v] \in Nat \ {0} /\ InBytes(f[v]) \in Nat \ {0}
  <2>1. f \in Seq(Nat \ {0}) /\ Len(f) \in Nat \ {0}
    BY DEF Fitting
  <2>2. \A v \in 1 .. Len(f) : f[v] \in Nat \ {0} /\ InBytes(f[v]) \in Nat \ {0}
    BY <2>1, VectorType, Ceiling
  <2> QED BY <2>1, <2>2
<1>2. /\ \A k \in 0 .. Len(f) : Totals(f)[k] \in Nat /\ B(k) \in Nat
      /\ \A k \in 1 .. Len(f) : /\ Totals(f)[k] = Totals(f)[k - 1] + f[k]
                                /\ B(k) = B(k - 1) + InBytes(f[k])
  <2>1. \A k \in 0 .. Len(f) : Totals(f)[k] \in Nat /\ B(k) \in Nat
    <3>1. \A k \in 0 .. Len(f) : Totals(f)[k] \in Nat
      BY <1>1, TotalsEquation
    <3>2. \A k \in 0 .. Len(f) : First(f, k) \in Seq(Places)
      BY <1>1, FirstEquation
    <3> QED BY <3>1, <3>2
  <2> QED BY <1>1, <2>1, TotalsEquation, FirstLength
<1>3. B(Len(f)) = InBytes(Bits(f)) /\ InBytes(Bits(f)) <= FifoSize
      /\ InBytes(Bits(f)) \in Nat /\ Bits(f) \in Nat /\ Bits(f) = Totals(f)[Len(f)]
  <2>1. Bits(f) \in Nat /\ Bits(f) = Totals(f)[Len(f)]
    BY <1>1, <1>2 DEF Bits
  <2>2. InBytes(Bits(f)) \in Nat
    BY <2>1, Ceiling
  <2> QED BY <2>1, <2>2, FirstLength DEF Fitting
<1> HIDE DEF B
<1> DEFINE P == {d \in Nat : \A k \in 0 .. Len(f) :
                    k + d = Len(f) => /\ B(k) <= B(Len(f))
                                      /\ k < Len(f) => Totals(f)[k] < Totals(f)[Len(f)]}
<1>4. \A d \in Nat : d \in P
  <2>1. 0 \in P
    BY <1>1, <1>2
  <2>2. ASSUME NEW d \in Nat, d \in P PROVE d + 1 \in P
    <3>1. ASSUME NEW k \in 0 .. Len(f), k + (d + 1) = Len(f)
          PROVE  B(k) <= B(Len(f)) /\ Totals(f)[k] < Totals(f)[Len(f)]
      <4>1. k + 1 \in 0 .. Len(f) /\ (k + 1) + d = Len(f) /\ k + 1 \in 1 .. Len(f)
            /\ (k + 1) - 1 = k /\ (k + 1 = Len(f) \/ k + 1 < Len(f))
        BY <1>1, <3>1
      <4>2. B(k + 1) <= B(Len(f))
            /\ (k + 1 = Len(f) \/ Totals(f)[k + 1] < Totals(f)[Len(f)])
        BY <2>2, <4>1
      <4>3. /\ Totals(f)[k + 1] = Totals(f)[k] + f[k + 1]
            /\ B(k + 1) = B(k) + InBytes(f[k + 1])
        BY <1>2, <4>1
      <4>4. /\ B(k) \in Nat /\ B(k + 1) \in Nat /\ B(Len(f)) \in Nat
            /\ Totals(f)[k] \in Nat /\ Totals(f)[k + 1] \in Nat
            /\ Totals(f)[Len(f)] \in Nat
            /\ f[k + 1] \in Nat \ {0} /\ InBytes(f[k + 1]) \in Nat \ {0}
        BY <1>1, <1>2, <4>1
      <4>5. B(k) <= B(Len(f))
        BY <4>2, <4>3, <4>4
      <4>6. Totals(f)[k] < Totals(f)[k + 1]
        BY <4>3, <4>4
      <4> QED BY <4>2, <4>4, <4>5, <4>6
    <3> QED BY <3>1
  <2> HIDE DEF P
  <2> QED BY <2>1, <2>2, SetInduction
<1>5. \A k \in 0 .. Len(f) : /\ B(k) <= B(Len(f))
                             /\ k < Len(f) => Totals(f)[k] < Totals(f)[Len(f)]
  <2> TAKE k \in 0 .. Len(f)
  <2>1. Len(f) - k \in Nat /\ k + (Len(f) - k) = Len(f)
    BY <1>1
  <2> QED BY <1>4, <2>1
<1>6. ASSUME n < Len(f)
      PROVE  /\ Totals(f)[n] < Bits(f)
             /\ Totals(f)[n + 1] = Totals(f)[n] + f[n + 1]
             /\ B(n) < FifoSize /\ B(n) + InBytes(f[n + 1]) <= FifoSize
  <2>1. n + 1 \in 0 .. Len(f) /\ n + 1 \in 1 .. Len(f) /\ (n + 1) - 1 = n
    BY <1>1, <1>6
  <2>2. /\ Totals(f)[n + 1] = Totals(f)[n] + f[n + 1]
        /\ B(n + 1) = B(n) + InBytes(f[n + 1]) /\ B(n + 1) <= B(Len(f))
    BY <1>2, <1>5, <2>1
  <2>3. /\ B(n) \in Nat /\ B(n + 1) \in Nat /\ InBytes(f[n + 1]) \in Nat \ {0}
    BY <1>1, <1>2, <2>1
  <2> QED BY <1>3, <1>5, <1>6, <2>2, <2>3, FifoAssumption
<1>7. Len(First(f, n)) = B(n)
  BY DEF B
<1> QED BY <1>1, <1>2, <1>3, <1>5, <1>6, <1>7

LEMMA TxInvInit ==
    ASSUME FifoSize <= 4095, \A f \in Frames : Fitting(f), Init
    PROVE  TxInv
<1>1. Fitting(frame) /\ frame \in Frames /\ Len(frame) \in Nat \ {0}
  BY LoopOnFrame DEF Init, Fitting
<1>2. Taken = 0 /\ len = Len(frame) /\ 0 \in 0 .. Len(frame)
  BY <1>1 DEF Init, Taken
<1>3. Bits(frame) \in Nat /\ InBytes(Bits(frame)) <= FifoSize
  BY <1>1, <1>2, LoopOnFrame DEF Fitting
<1>4. Bits(frame) < 32768 /\ InBytes(Bits(frame)) \in Nat
  BY <1>3, FifoAssumption, SMT DEF InBytes
<1>5. Announced(Bits(frame)) = InBytes(Bits(frame))
  <2>1. Announced(Bits(frame)) = (Bits(frame) \div 8) + (IF Bits(frame) % 8 > 0 THEN 1 ELSE 0)
    BY <1>3, <1>4, LengthAnnounced DEF Announced
  <2> QED BY <1>3, <2>1, SMT DEF InBytes
<1>6. Totals(frame)[0] = 0 /\ Bits(frame) = Bits(frame) - Totals(frame)[Taken]
  <2>1. frame \in Seq(Nat)
    BY <1>1 DEF Fitting
  <2> QED BY <1>2, <1>3, <2>1, TotalsEquation
<1>7. First(frame, Taken) = <<>>
  BY <1>2 DEF First
<1> QED BY <1>1, <1>2, <1>3, <1>5, <1>6, <1>7 DEF Init, TxInv

LEMMA Regrouped ==
    ASSUME NEW a \in Seq(Places), NEW b \in Seq(Places),
           NEW c \in Seq(Places)
    PROVE  /\ a \o (b \o c) = (a \o b) \o c /\ b \o c \in Seq(Places)
           /\ Len((a \o b) \o c) = Len(a \o b) + Len(c)
<1>1. b \o c \in Seq(Places) /\ a \o b \in Seq(Places)
  OBVIOUS
<1>2. a \o (b \o c) = (a \o b) \o c
  OBVIOUS
<1>3. Len((a \o b) \o c) = Len(a \o b) + Len(c)
  BY <1>1
<1> QED BY <1>1, <1>2, <1>3

LEMMA HeadMoved ==
    ASSUME NEW a \in Seq(Places), NEW b \in Seq(Places), b # <<>>
    PROVE  /\ Append(a, Head(b)) \in Seq(Places) /\ Tail(b) \in Seq(Places)
           /\ Append(a, Head(b)) \o Tail(b) = a \o b
<1>1. /\ Head(b) \in Places /\ Tail(b) \in Seq(Places)
      /\ b = <<Head(b)>> \o Tail(b)
  OBVIOUS
<1>2. Append(a, Head(b)) = a \o <<Head(b)>> /\ Append(a, Head(b)) \in Seq(Places)
  BY <1>1
<1>3. <<Head(b)>> \in Seq(Places)
  BY <1>1
<1>4. (a \o <<Head(b)>>) \o Tail(b) = a \o (<<Head(b)>> \o Tail(b))
  BY <1>1, <1>3
<1> QED BY <1>1, <1>2, <1>4

LEMMA TxInvStep ==
    ASSUME \A f \in Frames : Fitting(f), TxInv, [Next]_vars
    PROVE  TxInv'
<1> DEFINE n == Taken
           L == Len(frame)
<1>1. /\ Fitting(frame) /\ L \in Nat \ {0} /\ n \in 0 .. L /\ len \in 0 .. L
      /\ n = L - len /\ frame \in Seq(Nat \ {0})
  BY LoopOnFrame DEF TxInv, Fitting, Taken
<1>2. /\ Bits(frame) \in Nat /\ Len(First(frame, n)) \in Nat
      /\ Len(First(frame, n)) <= InBytes(Bits(frame))
      /\ n = L => Totals(frame)[n] = Bits(frame)
      /\ n < L => /\ Totals(frame)[n] < Bits(frame)
                  /\ Totals(frame)[n + 1] = Totals(frame)[n] + frame[n + 1]
                  /\ Len(First(frame, n)) < FifoSize
                  /\ Len(First(frame, n)) + InBytes(frame[n + 1]) <= FifoSize
  BY <1>1, LoopOnFrame
<1>3. /\ Totals(frame) \in [0 .. L -> Nat]
      /\ \A k \in 1 .. L : /\ First(frame, k) = First(frame, k - 1) \o Vector(frame, k)
                           /\ First(frame, k - 1) \in Seq(Places)
                           /\ frame[k] \in Nat \ {0} /\ InBytes(frame[k]) \in Nat
                           /\ Vector(frame, k) \in Seq(Places)
                           /\ Len(Vector(frame, k)) = InBytes(frame[k])
  <2>1. frame \in Seq(Nat)
    BY <1>1
  <2>2. \A k \in 1 .. L : k - 1 \in 0 .. L
    BY <1>1
  <2> QED BY <1>1, <2>1, <2>2, TotalsEquation, FirstEquation, VectorType
<1>4. CASE FillVector
  <2>1. bits > 0 /\ pc = "fill" /\ filled < FifoSize
    BY <1>4 DEF FillVector
  <2>2. n < L /\ len # 0 /\ len \in Nat /\ vec = n + 1 /\ n + 1 \in 1 .. L /\ (n + 1) - 1 = n
    <3>1. n # L
      <4>1. bits = Bits(frame) - Totals(frame)[n]
        BY DEF TxInv
      <4> QED BY <1>2, <2>1, <4>1
    <3>2. n < L /\ len # 0 /\ len \in Nat /\ n + 1 \in 1 .. L /\ (n + 1) - 1 = n
      BY <1>1, <3>1
    <3> QED BY <2>1, <3>2 DEF TxInv
  <2>3. sent' = Size(vec) /\ Size(vec) = InBytes(frame[n + 1])
    <3>1. Size(vec) = InBytes(frame[n + 1]) /\ Size(vec) \in Nat /\ filled = Len(First(frame, n))
      BY <1>3, <2>2 DEF Size, TxInv
    <3>2. Size(vec) <= FifoSize - filled
      BY <1>2, <2>2, <3>1, FifoAssumption
    <3>3. Least(Size(vec), FifoSize - filled) = Size(vec)
      BY <1>2, <3>1, <3>2, FifoAssumption DEF Least
    <3> QED BY <1>4, <3>1, <3>3 DEF FillVector
  <2>4. Part(vec, 0, sent') = Vector(frame, n + 1)
    <3>1. InBytes(frame[n + 1]) \in Nat
      BY <1>3, <2>2
    <3>2. \A i \in 1 .. InBytes(frame[n + 1]) : Byte(vec, 0 + i) = <<n + 1, i>>
      BY <1>1, <2>2, <2>3, <3>1 DEF Byte
    <3> QED BY <2>3, <3>2 DEF Part, Vector
  <2>5. /\ len' = len - 1 /\ frame' = frame /\ air' = air /\ pc' = pc /\ status' = status
        /\ vec' = IF len' > 0 THEN vec + 1 ELSE vec
        /\ announced' = announced
        /\ fifo' = fifo \o Vector(frame, n + 1)
        /\ bits' = bits - frame[n + 1] /\ filled' = filled + sent'
    BY <1>4, <2>2, <2>3, <2>4 DEF FillVector
  <2>6. Taken' = n + 1 /\ len' \in 0 .. L
    BY <1>1, <2>2, <2>5 DEF Taken
  <2>7. /\ fifo' \in Seq(Places) /\ air' \o fifo' = First(frame, n + 1)
        /\ filled' = Len(First(frame, n + 1))
    <3>1. First(frame, n + 1) = First(frame, n) \o Vector(frame, n + 1)
      BY <1>3, <2>2
    <3>2. air \in Seq(Places) /\ fifo \in Seq(Places) /\ air \o fifo = First(frame, n)
      BY DEF TxInv
    <3>3. Vector(frame, n + 1) \in Seq(Places)
          /\ Len(Vector(frame, n + 1)) = InBytes(frame[n + 1])
      BY <1>3, <2>2
    <3>4. /\ air \o (fifo \o Vector(frame, n + 1)) = (air \o fifo) \o Vector(frame, n + 1)
          /\ fifo \o Vector(frame, n + 1) \in Seq(Places)
          /\ Len((air \o fifo) \o Vector(frame, n + 1))
                = Len(air \o fifo) + Len(Vector(frame, n + 1))
      BY <3>2, <3>3, Regrouped
    <3>5. air \o (fifo \o Vector(frame, n + 1)) = First(frame, n + 1)
          /\ fifo \o Vector(frame, n + 1) \in Seq(Places)
          /\ Len(First(frame, n + 1)) = Len(First(frame, n)) + InBytes(frame[n + 1])
      BY <3>1, <3>2, <3>3, <3>4
    <3> QED BY <2>3, <2>5, <3>5 DEF TxInv
  <2>8. bits' = Bits(frame) - Totals(frame)[n + 1]
    <3>1. bits = Bits(frame) - Totals(frame)[n] /\ frame[n + 1] \in Nat /\ Totals(frame)[n] \in Nat
      BY <1>1, <1>3, <2>2 DEF TxInv
    <3>2. \A a, b, c \in Nat : (a - b) - c = a - (b + c)
      OBVIOUS
    <3>3. bits' = Bits(frame) - (Totals(frame)[n] + frame[n + 1])
      BY <1>2, <2>5, <3>1, <3>2
    <3> QED BY <1>2, <2>2, <3>3
  <2>9. vec' = IF len' = 0 THEN L ELSE Taken' + 1
    BY <1>1, <2>2, <2>5, <2>6
  <2>10. len' = 0 => sent' = Size(Len(frame))'
    BY <1>1, <2>2, <2>3, <2>5 DEF Size
  <2> QED BY <2>1, <2>5, <2>6, <2>7, <2>8, <2>9, <2>10 DEF TxInv
<1>5. CASE FillEnd
  <2>1. /\ UNCHANGED <<frame, vec, len, bits, announced, filled, sent, fifo, air, status>>
        /\ pc' = "wait" /\ pc = "fill" /\ ~(bits > 0 /\ filled < FifoSize)
        /\ txBytes' = (Size(vec) + SizeT - sent) % SizeT
    BY <1>5 DEF FillEnd
  <2>2. n = L /\ len = 0 /\ vec = L /\ sent = Size(L)
    <3>1. ~(n < L)
      <4>1. Totals(frame)[n] \in Nat /\ filled = Len(First(frame, n))
            /\ bits = Bits(frame) - Totals(frame)[n]
        BY <1>1, <1>3 DEF TxInv
      <4> QED BY <1>2, <2>1, <4>1
    <3> QED BY <1>1, <2>1, <3>1 DEF TxInv
  <2>3. txBytes' = 0
    <3>1. Size(L) \in Nat
      BY <1>1, <1>3 DEF Size
    <3>2. Size(L) + SizeT - Size(L) = SizeT /\ SizeT \in Nat \ {0}
      BY <3>1, FifoAssumption
    <3> QED BY <2>1, <2>2, <3>2
  <2> QED BY <2>1, <2>2, <2>3 DEF TxInv, Taken, Size
<1>6. CASE Service
  <2>1. /\ len = 0 /\ vec = L /\ txBytes = 0 /\ pc = "wait" /\ pc' \in {"wait", "done"}
        /\ status' = {} /\ (pc' = "done" => "TX" \in status)
        /\ UNCHANGED <<frame, len, bits, announced, filled, sent, air>>
    BY <1>6 DEF Service, TxInv
  <2>2. vec' = vec /\ txBytes' = 0 /\ fifo' = fifo
    <3>1. CASE "FIFO" \in status
      <4>1. Refill(vec, off, 0)
        BY <1>6, <2>1, <3>1 DEF Service, RefillOnFifo
      <4>2. FifoSize - Len(fifo) \in Nat
        <5>1. Len(air \o fifo) = Len(air) + Len(fifo) /\ Len(air) \in Nat /\ Len(fifo) \in Nat
          BY DEF TxInv
        <5>2. Len(air \o fifo) <= FifoSize
          <6>1. air \o fifo = First(frame, n)
            BY DEF TxInv
          <6>2. InBytes(Bits(frame)) <= FifoSize /\ InBytes(Bits(frame)) \in Nat
            BY <1>1, <1>2, Ceiling DEF Fitting
          <6> QED BY <1>2, <6>1, <6>2, FifoAssumption
        <5> QED BY <5>1, <5>2, FifoAssumption
      <4>3. Least(0, FifoSize - Len(fifo)) = 0
        BY <4>2 DEF Least
      <4>4. fifo \o Part(vec, off, 0) = fifo
        BY DEF Part, TxInv
      <4> QED BY <4>1, <4>3, <4>4 DEF Refill
    <3>2. CASE "FIFO" \notin status
      BY <1>6, <2>1, <3>2 DEF Service
    <3> QED BY <3>1, <3>2
  <2> QED BY <2>1, <2>2 DEF TxInv, Taken, Size
<1>7. CASE SendByte
  <2>1. /\ fifo # <<>> /\ Len(air) < announced
        /\ air' = Append(air, Head(fifo)) /\ fifo' = Tail(fifo)
        /\ "TX" \in status' => "TX" \in status \/ Len(air') = announced
        /\ UNCHANGED <<frame, pc, vec, len, bits, announced, filled, sent, off, txBytes>>
    BY <1>7 DEF SendByte
  <2>2. air \in Seq(Places) /\ fifo \in Seq(Places)
    BY DEF TxInv
  <2>3. /\ air' \in Seq(Places) /\ fifo' \in Seq(Places)
        /\ air' \o fifo' = air \o fifo
    BY <2>1, <2>2, HeadMoved
  <2>4. ~("TX" \in status) /\ pc # "done"
    <3>1. Len(air) # announced
      <4>1. Len(air) \in Nat /\ announced \in Nat
        <5>1. InBytes(Bits(frame)) \in Nat /\ announced = InBytes(Bits(frame))
          BY <1>2, Ceiling DEF TxInv
        <5> QED BY <2>2, <5>1
      <4> QED BY <2>1, <4>1
    <3> QED BY <3>1 DEF TxInv
  <2> QED BY <2>1, <2>3, <2>4 DEF TxInv, Taken, Size
<1>8. CASE UNCHANGED vars
  BY <1>8 DEF vars, TxInv, Taken, Size
<1> QED BY <1>4, <1>5, <1>6, <1>7, <1>8 DEF Next

(* The first vectors are a beginning of the frame. *)
LEMMA FirstIsPrefix ==
    ASSUME NEW f, Fitting(f), NEW n \in 0 .. Len(f)
    PROVE  IsPrefix(First(f, n), First(f, Len(f)))
<1>1. f \in Seq(Nat \ {0}) /\ Len(f) \in Nat
  BY DEF Fitting
<1> DEFINE F(k) == First(f, k)
           P == {d \in Nat : n + d <= Len(f) =>
                               /\ Len(F(n)) <= Len(F(n + d))
                               /\ \A i \in 1 .. Len(F(n)) : F(n)[i] = F(n + d)[i]}
<1>2. \A k \in 0 .. Len(f) : F(k) \in Seq(Places)
  BY <1>1, FirstEquation
<1>3. 0 \in P
  <2>1. n + 0 = n /\ Len(F(n)) \in Nat
    BY <1>2
  <2> HIDE DEF F
  <2> QED BY <2>1
<1>4. ASSUME NEW d \in Nat, d \in P PROVE d + 1 \in P
  <2>1. CASE n + (d + 1) <= Len(f)
    <3>1. /\ n + d \in 0 .. Len(f) /\ n + (d + 1) \in 1 .. Len(f)
          /\ (n + (d + 1)) - 1 = n + d /\ n + d <= Len(f)
      BY <1>1, <2>1
    <3>2. F(n + (d + 1)) = F(n + d) \o Vector(f, n + (d + 1))
      BY <1>1, <3>1, FirstEquation
    <3>3. /\ F(n) \in Seq(Places) /\ F(n + d) \in Seq(Places)
          /\ Vector(f, n + (d + 1)) \in Seq(Places)
      BY <1>1, <1>2, <3>1, VectorType
    <3> HIDE DEF F
    <3>4. ASSUME NEW a \in Seq(Places), NEW b \in Seq(Places)
          PROVE  Len(a) <= Len(a \o b) /\ \A i \in 1 .. Len(a) : (a \o b)[i] = a[i]
      OBVIOUS
    <3>5. /\ Len(F(n + d)) <= Len(F(n + (d + 1)))
          /\ \A i \in 1 .. Len(F(n + d)) : F(n + (d + 1))[i] = F(n + d)[i]
      BY <3>2, <3>3, <3>4
    <3>6. /\ Len(F(n)) <= Len(F(n + d))
          /\ \A i \in 1 .. Len(F(n)) : F(n)[i] = F(n + d)[i]
      BY <1>4, <3>1
    <3>7. Len(F(n)) \in Nat /\ Len(F(n + d)) \in Nat /\ Len(F(n + (d + 1))) \in Nat
      BY <1>2, <3>1, <3>3
    <3>8. \A i \in 1 .. Len(F(n)) : i \in 1 .. Len(F(n + d))
      BY <3>6, <3>7
    <3>9. Len(F(n)) <= Len(F(n + (d + 1)))
      BY <3>5, <3>6, <3>7
    <3> QED BY <3>5, <3>6, <3>8, <3>9
  <2> QED BY <1>1, <1>4, <2>1
<1> HIDE DEF F, P
<1>5. Len(f) - n \in Nat /\ n + (Len(f) - n) = Len(f)
  BY <1>1
<1>6. Len(f) - n \in P
  BY <1>3, <1>4, <1>5, SetInduction
<1>7. /\ Len(F(n)) <= Len(F(Len(f)))
      /\ \A i \in 1 .. Len(F(n)) : F(n)[i] = F(Len(f))[i]
  BY <1>1, <1>5, <1>6 DEF P
<1>8. F(n) \in Seq(Places) /\ F(Len(f)) \in Seq(Places)
  BY <1>1, <1>2
<1>9. SubSeq(F(n), 1, Len(F(n))) = SubSeq(F(Len(f)), 1, Len(F(n)))
  BY <1>7, <1>8
<1> QED BY <1>7, <1>9 DEF F, IsPrefix

LEMMA TxInvIntact ==
    ASSUME \A f \in Frames : Fitting(f), TxInv
    PROVE  ContinuousTransmit
<1> DEFINE L == Len(frame)
<1>1. Fitting(frame) /\ L \in Nat \ {0} /\ Taken \in 0 .. L /\ frame \in Seq(Nat \ {0})
  BY LoopOnFrame DEF TxInv, Fitting, Taken
<1>2. Whole = First(frame, L)
  <2>1. Pieces(frame) = [v \in 1 .. L |-> [i \in 1 .. Size(v) |-> <<v, i>>]]
    BY DEF Pieces, Vector, Size
  <2>2. Len(Pieces(frame)) = L
    BY <1>1 DEF Pieces
  <2> QED BY <1>1, <2>1, <2>2, FlattenSeqIs DEF Whole, First
<1>3. IsPrefix(air \o fifo, Whole)
  BY <1>1, <1>2, FirstIsPrefix DEF TxInv
<1>4. ASSUME pc = "done" PROVE air = Whole
  <2>1. /\ len = 0 /\ Len(air) = InBytes(Bits(frame)) /\ air \o fifo = First(frame, Taken)
        /\ air \in Seq(Places) /\ fifo \in Seq(Places)
    BY <1>4 DEF TxInv
  <2>2. Taken = L
    BY <1>1, <2>1 DEF Taken
  <2>3. Len(air \o fifo) = Len(air)
    BY <1>1, <2>1, <2>2, FirstLength
  <2>4. fifo = <<>>
    BY <2>1, <2>3
  <2> QED BY <1>2, <2>1, <2>2, <2>4
<1> QED BY <1>3, <1>4 DEF ContinuousTransmit

(* A frame that fits in the FIFO is sent whole, however it is split in     *)
(* vectors: each byte once, in order, and no byte from outside them; what  *)
(* trf797x_transmit leaves to the refill of trf797x_initiator_transceive,  *)
(* an offset in the last vector and no byte, never makes it read further.  *)
(* The length registers hold no more than 4095 bytes.                      *)
THEOREM FittingFrameIsSent ==
    ASSUME FifoSize <= 4095, \A f \in Frames : Fitting(f)
    PROVE  Spec => []ContinuousTransmit
<1>1. Init => TxInv
  BY TxInvInit
<1>2. TxInv /\ [Next]_vars => TxInv'
  BY TxInvStep
<1>3. TxInv => ContinuousTransmit
  BY TxInvIntact
<1> QED BY <1>1, <1>2, <1>3, PTL DEF Spec
===============================================================================
