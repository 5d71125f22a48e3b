----------------------------- MODULE NatRecursion -----------------------------
(***************************************************************************)
(* Induction on the natural numbers, stated for a set instead of a         *)
(* predicate so that first-order provers can use it, and what it gives:    *)
(* the equations of functions defined by recursion.                        *)
(***************************************************************************)
EXTENDS Integers, TLAPS, WellFoundedInduction

(* A set that holds 0, and with each number the next, holds every number.  *)
LEMMA SetInduction ==
    ASSUME NEW S, 0 \in S, \A n \in Nat : n \in S => n + 1 \in S
    PROVE  \A n \in Nat : n \in S
<1> DEFINE R == OpToRel(<, Nat)
           T == Nat \ S
<1>1. SUFFICES ASSUME T # {} PROVE FALSE
  OBVIOUS
<1>2. \A x, y \in Nat : <<x, y>> \in R <=> x < y
  BY DEF OpToRel
<1>3. IsWellFoundedOn(R, Nat)
  BY NatLessThanWellFounded
<1> HIDE DEF R
<1>4. PICK x \in T : \A y \in T : ~(<<y, x>> \in R)
  BY <1>1, <1>3, WFMin
<1>5. x \in Nat /\ x # 0 /\ x - 1 \in Nat /\ x - 1 < x
  BY <1>4
<1>6. x - 1 \in S
  BY <1>2, <1>4, <1>5
<1>7. x \in S
  BY <1>5, <1>6
<1> QED BY <1>4, <1>7

(* The first values, up to that of n, of the function that begins with b   *)
(* and goes on with G.                                                     *)
Starts(S, b, G, n) ==
    {g \in [0 .. n -> S] : /\ g[0] = b
                           /\ \A i \in 0 .. n - 1 : g[i + 1] = G[<<i, g[i]>>]}

LEMMA StartsExist ==
    ASSUME NEW S, NEW b \in S, NEW G \in [Nat \X S -> S]
    PROVE  \A n \in Nat : Starts(S, b, G, n) # {}
<1> DEFINE P == {n \in Nat : Starts(S, b, G, n) # {}}
<1>1. 0 \in P
  <2>1. [i \in 0 .. 0 |-> b] \in Starts(S, b, G, 0)
    BY DEF Starts
  <2> QED BY <2>1
<1>2. ASSUME NEW n \in Nat, n \in P PROVE n + 1 \in P
  <2>1. PICK g \in Starts(S, b, G, n) : TRUE
    BY <1>2
  <2> DEFINE h == [i \in 0 .. n + 1 |-> IF i <= n THEN g[i] ELSE G[<<n, g[n]>>]]
  <2>2. g \in [0 .. n -> S] /\ g[0] = b
        /\ \A i \in 0 .. n - 1 : g[i + 1] = G[<<i, g[i]>>]
    BY <2>1 DEF Starts
  <2>3. g[n] \in S /\ G[<<n, g[n]>>] \in S
    BY <2>2
  <2>4. h \in [0 .. n + 1 -> S] /\ h[0] = b
    BY <2>2, <2>3
  <2>5. ASSUME NEW i \in 0 .. n PROVE h[i + 1] = G[<<i, h[i]>>]
    <3>1. h[i] = g[i]
      BY <2>5
    <3>2. CASE i = n
      BY <3>1, <3>2
    <3>3. CASE i # n
      BY <2>2, <3>1, <3>3
    <3> QED BY <3>2, <3>3
  <2> HIDE DEF h
  <2>6. \A i \in 0 .. (n + 1) - 1 : h[i + 1] = G[<<i, h[i]>>]
    BY <2>5
  <2>7. h \in Starts(S, b, G, n + 1)
    BY <2>4, <2>6 DEF Starts
  <2> QED BY <2>7
<1> HIDE DEF P
<1>3. \A n \in Nat : n \in P
  BY <1>1, <1>2, SetInduction
<1> QED BY <1>3 DEF P

LEMMA StartsAgree ==
    ASSUME NEW S, NEW b, NEW G, NEW m \in Nat, NEW n \in Nat, m <= n,
           NEW g \in Starts(S, b, G, m), NEW h \in Starts(S, b, G, n)
    PROVE  \A i \in 0 .. m : g[i] = h[i]
<1> DEFINE P == {i \in Nat : i <= m => g[i] = h[i]}
<1>0. /\ g[0] = b /\ h[0] = b
      /\ \A i \in 0 .. m - 1 : g[i + 1] = G[<<i, g[i]>>]
      /\ \A i \in 0 .. n - 1 : h[i + 1] = G[<<i, h[i]>>]
  BY DEF Starts
<1>1. 0 \in P
  BY <1>0
<1>2. ASSUME NEW i \in Nat, i \in P PROVE i + 1 \in P
  <2>1. CASE i + 1 <= m
    <3>1. i \in 0 .. m - 1 /\ i \in 0 .. n - 1 /\ g[i] = h[i]
      BY <1>2, <2>1
    <3>2. g[i + 1] = G[<<i, g[i]>>] /\ h[i + 1] = G[<<i, h[i]>>]
      BY <1>0, <3>1
    <3> QED BY <3>1, <3>2
  <2> QED BY <1>2, <2>1
<1> HIDE DEF P
<1>3. \A i \in Nat : i \in P
  BY <1>1, <1>2, SetInduction
<1> QED BY <1>3 DEF P

(* There is a function that begins with b and goes on with G.              *)
Recurs(f, b, G) == f[0] = b /\ \A n \in Nat : f[n + 1] = G[<<n, f[n]>>]

LEMMA RecursionExists ==
    ASSUME NEW S, NEW b \in S, NEW G \in [Nat \X S -> S]
    PROVE  \E f \in [Nat -> S] : Recurs(f, b, G)
<1> DEFINE start(n) == CHOOSE g \in Starts(S, b, G, n) : TRUE
           f == [n \in Nat |-> start(n)[n]]
<1>1. \A n \in Nat : start(n) \in Starts(S, b, G, n)
  BY StartsExist
<1> HIDE DEF start
<1>2. f \in [Nat -> S]
  <2>1. \A n \in Nat : start(n) \in [0 .. n -> S]
    BY <1>1 DEF Starts
  <2> QED BY <2>1
<1>3. f[0] = b
  BY <1>1 DEF Starts
<1>4. ASSUME NEW n \in Nat PROVE f[n + 1] = G[<<n, f[n]>>]
  <2>1. start(n + 1)[n + 1] = G[<<n, start(n + 1)[n]>>]
    BY <1>1 DEF Starts
  <2>2. start(n)[n] = start(n + 1)[n]
    BY <1>1, StartsAgree
  <2> QED BY <2>1, <2>2
<1> QED BY <1>2, <1>3, <1>4 DEF Recurs
===============================================================================
