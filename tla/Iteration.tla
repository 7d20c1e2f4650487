------------------------------ MODULE Iteration ------------------------------
(***************************************************************************)
(* A counted loop: Iterate(x, c, n) is what n passes of the loop body Step *)
(* make of x; c is what the body reads and does not change, and the body   *)
(* is told the number of the pass.  The theorem says what the recursive    *)
(* function computes, so that nothing else needs to look into it.          *)
(***************************************************************************)
EXTENDS Naturals, WellFoundedInduction

CONSTANT Step(_, _, _)

Iterate(x, c, n) ==
    LET it[k \in Nat] == IF k = 0 THEN x ELSE Step(it[k - 1], c, k)
    IN  it[n]

\* Induction over the natural numbers, for a property given as a set.
LEMMA NatSetInduction ==
    ASSUME NEW T, 0 \in T, \A k \in Nat : k \in T => k + 1 \in T
    PROVE  Nat \subseteq T
<1> DEFINE R == OpToRel(<, Nat)
           B == Nat \ T
<1>1. IsWellFoundedOn(R, Nat)
  BY NatLessThanWellFounded
<1>2. \A m, n \in Nat : n < m => <<n, m>> \in R
  BY DEF OpToRel
<1> HIDE DEF R
<1> SUFFICES ASSUME B # {} PROVE FALSE
  OBVIOUS
<1>3. \E m \in B : \A n \in B : ~(<<n, m>> \in R)
  BY <1>1, WFMin
<1>4. PICK m \in B : \A n \in B : ~(<<n, m>> \in R)
  BY <1>3
<1>5. m \in Nat /\ m # 0 /\ m - 1 \in Nat /\ m - 1 < m
  OBVIOUS
<1>6. m - 1 \in T
  BY <1>2, <1>4, <1>5
<1>7. (m - 1) + 1 = m
  BY <1>5
<1> QED BY <1>4, <1>5, <1>6, <1>7

-----------------------------------------------------------------------------
(* The recursive function exists: it is glued from its finite prefixes.    *)

Prefix(x, c, n, f) ==
    f = [k \in 0 .. n |-> IF k = 0 THEN x ELSE Step(f[k - 1], c, k)]

\* What a prefix is at each argument.
LEMMA PrefixAt ==
    ASSUME NEW x, NEW c, NEW n \in Nat, NEW f, Prefix(x, c, n, f)
    PROVE  /\ f[0] = x
           /\ \A k \in Nat : k + 1 <= n => f[k + 1] = Step(f[k], c, k + 1)
<1>1. 0 \in 0 .. n
  OBVIOUS
<1>2. f[0] = x
  BY <1>1 DEF Prefix
<1>3. ASSUME NEW k \in Nat, k + 1 <= n PROVE f[k + 1] = Step(f[k], c, k + 1)
  <2>1. k + 1 \in 0 .. n /\ (k + 1) - 1 = k /\ k + 1 # 0
    BY <1>3
  <2> QED BY <2>1 DEF Prefix
<1> QED BY <1>2, <1>3

\* There is a prefix of every length.
LEMMA PrefixExists ==
    ASSUME NEW x, NEW c, NEW n \in Nat
    PROVE  \E f : Prefix(x, c, n, f)
<1> DEFINE T == {m \in Nat : \E f : Prefix(x, c, m, f)}
<1>1. 0 \in T
  <2> DEFINE h == [k \in 0 .. 0 |-> x]
  <2>1. h = [k \in 0 .. 0 |-> IF k = 0 THEN x ELSE Step(h[k - 1], c, k)]
    OBVIOUS
  <2> QED BY <2>1 DEF Prefix
<1>2. \A m \in Nat : m \in T => m + 1 \in T
  <2> SUFFICES ASSUME NEW m \in Nat, m \in T PROVE \E f : Prefix(x, c, m + 1, f)
    OBVIOUS
  <2>1. PICK f : Prefix(x, c, m, f)
    OBVIOUS
  <2> DEFINE h == [k \in 0 .. m + 1 |-> IF k = m + 1 THEN Step(f[m], c, m + 1) ELSE f[k]]
  <2>2. ASSUME NEW k \in 0 .. m + 1
        PROVE  h[k] = IF k = 0 THEN x ELSE Step(h[k - 1], c, k)
    <3>1. CASE k = m + 1
      <4>1. k - 1 = m /\ k # 0 /\ m # m + 1 /\ m \in 0 .. m + 1
        BY <3>1
      <4> QED BY <3>1, <4>1
    <3>2. CASE k = 0
      <4>1. k # m + 1
        BY <3>2
      <4> QED BY <2>1, <3>2, <4>1, PrefixAt
    <3>3. CASE k # 0 /\ k # m + 1
      <4>1. /\ k - 1 \in Nat /\ k - 1 \in 0 .. m + 1 /\ k - 1 # m + 1
            /\ (k - 1) + 1 = k /\ (k - 1) + 1 <= m
        BY <3>3
      <4>2. \A j \in Nat : j + 1 <= m => f[j + 1] = Step(f[j], c, j + 1)
        BY <2>1, PrefixAt
      <4>3. f[k] = Step(f[k - 1], c, k)
        BY <4>1, <4>2
      <4> QED BY <3>3, <4>1, <4>3
    <3> QED BY <3>1, <3>2, <3>3
  <2>3. h = [k \in 0 .. m + 1 |-> IF k = 0 THEN x ELSE Step(h[k - 1], c, k)]
    BY <2>2
  <2>4. Prefix(x, c, m + 1, h)
    BY <2>3 DEF Prefix
  <2> QED BY <2>4
<1>3. Nat \subseteq T
  BY <1>1, <1>2, NatSetInduction
<1> QED BY <1>3

\* Two prefixes are equal where both are defined.
LEMMA PrefixesAgree ==
    ASSUME NEW x, NEW c, NEW n \in Nat, NEW m \in Nat,
           NEW f, Prefix(x, c, n, f), NEW h, Prefix(x, c, m, h)
    PROVE  \A k \in Nat : k <= n /\ k <= m => f[k] = h[k]
<1> DEFINE T == {k \in Nat : k <= n /\ k <= m => f[k] = h[k]}
<1>1. 0 \in T
  BY PrefixAt
<1>2. \A k \in Nat : k \in T => k + 1 \in T
  <2> SUFFICES ASSUME NEW k \in Nat, k \in T, k + 1 <= n, k + 1 <= m
               PROVE  f[k + 1] = h[k + 1]
    OBVIOUS
  <2>1. /\ \A j \in Nat : j + 1 <= n => f[j + 1] = Step(f[j], c, j + 1)
        /\ \A j \in Nat : j + 1 <= m => h[j + 1] = Step(h[j], c, j + 1)
    BY PrefixAt
  <2>2. f[k] = h[k]
    OBVIOUS
  <2>3. f[k + 1] = Step(f[k], c, k + 1) /\ h[k + 1] = Step(h[k], c, k + 1)
    BY <2>1
  <2> QED BY <2>2, <2>3
<1>3. Nat \subseteq T
  BY <1>1, <1>2, NatSetInduction
<1> QED BY <1>3

\* A loop of no passes changes nothing, and the last of n + 1 passes is one
\* more execution of the body.
THEOREM IterateStep ==
    ASSUME NEW x, NEW c
    PROVE  /\ Iterate(x, c, 0) = x
           /\ \A n \in Nat : Iterate(x, c, n + 1) = Step(Iterate(x, c, n), c, n + 1)
<1> DEFINE pre == [n \in Nat |-> CHOOSE f : Prefix(x, c, n, f)]
           all == [k \in Nat |-> pre[k][k]]
           it == CHOOSE it : it = [k \in Nat |-> IF k = 0 THEN x ELSE Step(it[k - 1], c, k)]
<1>1. ASSUME NEW n \in Nat PROVE Prefix(x, c, n, pre[n])
  <2>1. \E f : Prefix(x, c, n, f)
    BY PrefixExists
  <2>2. pre[n] = CHOOSE f : Prefix(x, c, n, f)
    OBVIOUS
  <2> HIDE DEF pre
  <2> QED BY <2>1, <2>2
<1> HIDE DEF pre
<1>2. ASSUME NEW k \in Nat
      PROVE  all[k] = IF k = 0 THEN x ELSE Step(all[k - 1], c, k)
  <2>1. Prefix(x, c, k, pre[k])
    BY <1>1
  <2>2. CASE k = 0
    <3> DEFINE f == pre[k]
    <3>1. Prefix(x, c, k, f)
      BY <2>1
    <3> HIDE DEF f
    <3>2. f[0] = x
      BY <3>1, PrefixAt
    <3> QED BY <2>2, <3>2 DEF f
  <2>3. CASE k # 0
    <3>1. k - 1 \in Nat /\ (k - 1) + 1 = k /\ (k - 1) + 1 <= k /\ k - 1 <= k - 1 /\ k - 1 <= k
      BY <2>3
    <3>2. \A j \in Nat : j + 1 <= k => pre[k][j + 1] = Step(pre[k][j], c, j + 1)
      <4> DEFINE f == pre[k]
      <4>1. Prefix(x, c, k, f)
        BY <2>1
      <4> HIDE DEF f
      <4>2. \A j \in Nat : j + 1 <= k => f[j + 1] = Step(f[j], c, j + 1)
        BY <4>1, PrefixAt
      <4> QED BY <4>2 DEF f
    <3>3. Prefix(x, c, k - 1, pre[k - 1])
      BY <1>1, <3>1
    <3>4. \A j \in Nat : j <= k /\ j <= k - 1 => pre[k][j] = pre[k - 1][j]
      <4> DEFINE m == k - 1
                 f == pre[k]
                 h == pre[m]
      <4>1. m \in Nat /\ Prefix(x, c, k, f) /\ Prefix(x, c, m, h)
        BY <2>1, <3>1, <3>3
      <4> HIDE DEF m, f, h
      <4>2. \A j \in Nat : j <= k /\ j <= m => f[j] = h[j]
        BY <4>1, PrefixesAgree
      <4> QED BY <4>2 DEF m, f, h
    <3>5. pre[k][k] = Step(pre[k][k - 1], c, k) /\ pre[k][k - 1] = pre[k - 1][k - 1]
      BY <3>1, <3>2, <3>4
    <3> QED BY <2>3, <3>1, <3>5
  <2> QED BY <2>2, <2>3
<1>3. all = [k \in Nat |-> IF k = 0 THEN x ELSE Step(all[k - 1], c, k)]
  BY <1>2
<1>4. it = [k \in Nat |-> IF k = 0 THEN x ELSE Step(it[k - 1], c, k)]
  <2> HIDE DEF all
  <2> QED BY <1>3
<1>5. \A n \in Nat : Iterate(x, c, n) = it[n]
  BY DEF Iterate
<1> HIDE DEF it
<1>6. it[0] = x
  BY <1>4
<1>7. ASSUME NEW n \in Nat PROVE it[n + 1] = Step(it[n], c, n + 1)
  <2>1. n + 1 \in Nat /\ n + 1 # 0 /\ (n + 1) - 1 = n
    OBVIOUS
  <2> QED BY <1>4, <2>1
<1> QED BY <1>5, <1>6, <1>7
==============================================================================
