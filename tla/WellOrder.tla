----------------------------- MODULE WellOrder -----------------------------
(***************************************************************************)
(* The naturals are well ordered: what that gives the other proofs are a   *)
(* least element, induction over a set, functions defined by recursion,    *)
(* and the laws of powers.                                                 *)
(***************************************************************************)
EXTENDS Powers, WellFoundedInduction, TLAPS

\* The order on the naturals is well founded, with the relation written out.
LEMMA NatLess == IsWellFoundedOn({ss \in Nat \X Nat : ss[1] < ss[2]}, Nat)
  BY NatLessThanWellFounded, Zenon DEF OpToRel

\* A nonempty set of naturals has a least element.
LEMMA LeastNat ==
  ASSUME NEW T \in SUBSET Nat, T # {}
  PROVE  \E x \in T : \A y \in T : x <= y
<1> DEFINE R == {ss \in Nat \X Nat : ss[1] < ss[2]}
<1>1. \E x \in T : \A y \in T : ~ (<<y, x>> \in R)
  <2> HIDE DEF R
  <2>1. IsWellFoundedOn(R, Nat)  BY NatLess DEF R
  <2>. QED  BY <2>1, WFMin, Zenon
<1>2. ASSUME NEW x \in T, NEW y \in T, ~ (<<y, x>> \in R)
      PROVE  x <= y
  BY <1>2
<1>. QED  BY <1>1, <1>2

\* Induction: a set that holds 0 and is closed under successor is Nat.
LEMMA NatSetInduction ==
  ASSUME NEW S \in SUBSET Nat, 0 \in S, \A n \in S : n + 1 \in S
  PROVE  S = Nat
<1> DEFINE T == Nat \ S
<1>1. SUFFICES ASSUME T # {} PROVE FALSE  OBVIOUS
<1>2. PICK x \in T : \A y \in T : x <= y
  <2>1. T \in SUBSET Nat  OBVIOUS
  <2> HIDE DEF T
  <2>. QED  BY <1>1, <2>1, LeastNat
<1>3. x \in Nat /\ x # 0  OBVIOUS
<1>4. x - 1 \in S  BY <1>2, <1>3
<1>5. (x - 1) + 1 \in S  BY <1>4
<1>. QED  BY <1>3, <1>5

\* A function on Nat with a first value and a step from each value to the next.
Recursive(f, D, d, step) ==
  /\ f \in [Nat -> D] /\ f[0] = d
  /\ \A n \in Nat : f[n + 1] = step[n][f[n]]

\* Recursion: there is such a function for every first value and every step.
LEMMA NatRecursion ==
  ASSUME NEW D, NEW d \in D, NEW step \in [Nat -> [D -> D]]
  PROVE  \E f : Recursive(f, D, d, step)
<1> DEFINE Starts(g, n) == /\ g \in [0 .. n -> D]
                           /\ g[0] = d
                           /\ \A i \in 0 .. n : i # 0 => g[i] = step[i - 1][g[i - 1]]
           S == {n \in Nat : \E g : Starts(g, n)}
<1>1. S = Nat
  <2>1. 0 \in S
    <3>1. Starts([i \in 0 .. 0 |-> d], 0)  OBVIOUS
    <3>. QED  BY <3>1
  <2>2. ASSUME NEW n \in S PROVE n + 1 \in S
    <3>1. PICK g : Starts(g, n)  OBVIOUS
    <3>2. step[n] \in [D -> D] /\ g[n] \in D  BY <3>1
    <3> DEFINE h == [i \in 0 .. n + 1 |-> IF i = n + 1 THEN step[n][g[n]] ELSE g[i]]
    <3>3. h \in [0 .. n + 1 -> D]
      <4>1. \A i \in 0 .. n + 1 : i # n + 1 => i \in 0 .. n  OBVIOUS
      <4>. QED  BY <3>1, <3>2, <4>1
    <3>4. h[0] = d  BY <3>1
    <3>5. ASSUME NEW i \in 0 .. n + 1, i # 0 PROVE h[i] = step[i - 1][h[i - 1]]
      <4>1. i - 1 \in 0 .. n /\ i - 1 # n + 1  BY <3>5
      <4>2. h[i - 1] = g[i - 1]  BY <4>1
      <4>3. CASE i = n + 1  BY <4>2, <4>3
      <4>4. CASE i # n + 1
        <5>1. i \in 0 .. n  BY <4>4
        <5>2. h[i] = g[i]  BY <4>4
        <5>. QED  BY <3>1, <3>5, <4>2, <5>1, <5>2
      <4>. QED  BY <4>3, <4>4
    <3>6. Starts(h, n + 1)
      <4> HIDE DEF h
      <4>. QED  BY <3>3, <3>4, <3>5
    <3>7. n + 1 \in Nat  OBVIOUS
    <3> HIDE DEF h, Starts
    <3>. QED  BY <3>6, <3>7
  <2>3. S \in SUBSET Nat  OBVIOUS
  <2> HIDE DEF S
  <2>. QED  BY <2>1, <2>2, <2>3, NatSetInduction
<1>2. ASSUME NEW n \in Nat, NEW g, NEW h, Starts(g, n), Starts(h, n + 1)
      PROVE  h[n] = g[n]
  <2> DEFINE E == {i \in Nat : i <= n => g[i] = h[i]}
  <2>1. 0 \in E  BY <1>2
  <2>2. ASSUME NEW i \in E PROVE i + 1 \in E
    <3>1. SUFFICES ASSUME i + 1 <= n PROVE g[i + 1] = h[i + 1]  OBVIOUS
    <3>2. g[i] = h[i]  BY <3>1
    <3>3. i + 1 \in 0 .. n /\ i + 1 \in 0 .. n + 1 /\ i + 1 # 0 /\ (i + 1) - 1 = i  BY <3>1
    <3>. QED  BY <1>2, <3>2, <3>3
  <2>3. E \in SUBSET Nat  OBVIOUS
  <2>4. E = Nat
    <3> HIDE DEF E
    <3>. QED  BY <2>1, <2>2, <2>3, NatSetInduction
  <2>. QED  BY <2>4
<1> DEFINE Start(n) == CHOOSE g : Starts(g, n)
           f == [n \in Nat |-> Start(n)[n]]
<1>3. ASSUME NEW n \in Nat PROVE Starts(Start(n), n)
  <2>1. \E g : Starts(g, n)  BY <1>1
  <2> HIDE DEF Starts
  <2>. QED  BY <2>1
<1>4. f \in [Nat -> D]
  <2>1. ASSUME NEW n \in Nat PROVE Start(n)[n] \in D
    <3>1. Starts(Start(n), n)  BY <1>3
    <3> HIDE DEF Start
    <3>. QED  BY <3>1
  <2> HIDE DEF Start
  <2>. QED  BY <2>1
<1>5. f[0] = d
  <2>1. Starts(Start(0), 0)  BY <1>3
  <2> HIDE DEF Start
  <2>. QED  BY <2>1
<1>6. ASSUME NEW n \in Nat PROVE f[n + 1] = step[n][f[n]]
  <2>1. Starts(Start(n), n) /\ Starts(Start(n + 1), n + 1)
    <3>1. n + 1 \in Nat  OBVIOUS
    <3> HIDE DEF Starts, Start
    <3>. QED  BY <1>3, <3>1
  <2>2. Start(n + 1)[n] = Start(n)[n]
    <3> HIDE DEF Starts, Start
    <3>. QED  BY <1>2, <2>1
  <2>3. Start(n + 1)[n + 1] = step[n][Start(n + 1)[n]]
    <3>1. n + 1 \in 0 .. n + 1 /\ n + 1 # 0 /\ (n + 1) - 1 = n  OBVIOUS
    <3> HIDE DEF Start
    <3>. QED  BY <2>1, <3>1
  <2> HIDE DEF Start
  <2>. QED  BY <2>2, <2>3
<1> HIDE DEF f
<1>7. Recursive(f, D, d, step)  BY <1>4, <1>5, <1>6 DEF Recursive
<1>. QED  BY <1>7

-----------------------------------------------------------------------------
(* Powers. *)

\* What the recursive definition of Pow computes, and that it is positive.
LEMMA PowDef ==
  ASSUME NEW base \in Nat \ {0}
  PROVE  /\ Pow(base, 0) = 1
         /\ \A n \in Nat : Pow(base, n + 1) = base * Pow(base, n)
         /\ \A n \in Nat : Pow(base, n) \in Nat \ {0}
<1> DEFINE P == Nat \ {0}
           step == [n \in Nat |-> [x \in P |-> base * x]]
<1>1. step \in [Nat -> [P -> P]]
  <2>1. \A x \in P : base * x \in P  OBVIOUS
  <2>. QED  BY <2>1
<1>2. PICK f : Recursive(f, P, 1, step)
  <2> HIDE DEF P, step
  <2>1. 1 \in P  BY DEF P
  <2>. QED  BY <1>1, <2>1, NatRecursion
<1>3. f \in [Nat -> P] /\ f[0] = 1 /\ \A n \in Nat : f[n + 1] = base * f[n]
  BY <1>2 DEF Recursive
<1> DEFINE Is(g) == g = [k \in Nat |-> IF k = 0 THEN 1 ELSE base * g[k - 1]]
           power == CHOOSE g : Is(g)
<1>4. Is(f)
  <2>1. ASSUME NEW k \in Nat, k # 0 PROVE f[k] = base * f[k - 1]
    <3>1. k - 1 \in Nat /\ (k - 1) + 1 = k  BY <2>1
    <3>. QED  BY <1>3, <3>1
  <2>. QED  BY <1>3, <2>1
<1>5. Is(power)
  <2> HIDE DEF Is
  <2>. QED  BY <1>4
<1>6. \A n \in Nat : Pow(base, n) = power[n]  BY DEF Pow
<1> HIDE DEF power
<1>7. power[0] = 1  BY <1>5
<1>8. \A n \in Nat : power[n + 1] = base * power[n]
  <2> TAKE n \in Nat
  <2>1. n + 1 \in Nat /\ n + 1 # 0 /\ (n + 1) - 1 = n  OBVIOUS
  <2>. QED  BY <1>5, <2>1
<1> DEFINE S == {n \in Nat : power[n] \in P}
<1>9. S = Nat
  <2>1. 0 \in S  BY <1>7
  <2>2. ASSUME NEW n \in S PROVE n + 1 \in S  BY <1>8
  <2>3. S \in SUBSET Nat  OBVIOUS
  <2> HIDE DEF S
  <2>. QED  BY <2>1, <2>2, <2>3, NatSetInduction
<1>10. \A n \in Nat : power[n] \in P  BY <1>9
<1> HIDE DEF S
<1>. QED  BY <1>6, <1>7, <1>8, <1>10

\* The digits of a number come in two parts.
LEMMA PowAdd ==
  ASSUME NEW base \in Nat \ {0}, NEW m \in Nat, NEW n \in Nat
  PROVE  Pow(base, m + n) = Pow(base, m) * Pow(base, n)
<1> DEFINE P(k) == Pow(base, k)
           S == {k \in Nat : P(m + k) = P(m) * P(k)}
<1>1. P(0) = 1 /\ \A k \in Nat : P(k + 1) = base * P(k) /\ P(k) \in Nat \ {0}  BY PowDef
<1> HIDE DEF P
<1>2. 0 \in S
  <2>1. m + 0 = m /\ P(m) * 1 = P(m)  BY <1>1
  <2>. QED  BY <1>1, <2>1
<1>3. ASSUME NEW k \in S PROVE k + 1 \in S
  <2>1. k \in Nat /\ k + 1 \in Nat /\ m + k \in Nat /\ m + (k + 1) = (m + k) + 1  OBVIOUS
  <2>2. P(m + k) = P(m) * P(k)  OBVIOUS
  <2>3. P(m + (k + 1)) = base * (P(m) * P(k))  BY <1>1, <2>1, <2>2
  <2>4. P(k + 1) = base * P(k) /\ P(m) \in Nat /\ P(k) \in Nat  BY <1>1, <2>1
  <2>5. \A a, b, c \in Nat : a * (b * c) = b * (a * c)  OBVIOUS
  <2>. QED  BY <2>1, <2>3, <2>4, <2>5
<1>4. S \in SUBSET Nat  OBVIOUS
<1>5. S = Nat
  <2> HIDE DEF S
  <2>. QED  BY <1>2, <1>3, <1>4, NatSetInduction
<1>. QED  BY <1>5 DEF P
=============================================================================
