--------------------------- MODULE IndexInduction ---------------------------
(***************************************************************************)
(* Induction and recursion over an index, stated with sets and functions:  *)
(* a claim is the set of indices where it holds, the step of a recursion   *)
(* is a function.  Both rest on the well-foundedness of the naturals.      *)
(***************************************************************************)
EXTENDS Integers, WellFoundedInduction

Less == {ss \in Nat \X Nat : ss[1] < ss[2]}

\* A set of numbers that is not empty has a least element.
LEMMA Least ==
  ASSUME NEW T, T \subseteq Nat, T # {}
  PROVE  \E x \in T : \A y \in T : x <= y
<1>1. IsWellFoundedOn(Less, Nat)
  BY NatLessThanWellFounded DEF OpToRel, Less
<1>2. PICK x \in T : \A y \in T : ~(<<y, x>> \in Less)
  BY <1>1, WFMin
<1>3. \A y \in T : y < x => <<y, x>> \in Less
  BY DEF Less
<1>4. \A y \in T : ~(y < x)
  BY <1>2, <1>3
<1> QED
  BY <1>4

\* What holds at 0, and at i + 1 when it holds at i, holds up to m.
LEMMA UpTo ==
  ASSUME NEW m \in Nat, NEW T, 0 \in T,
         \A i \in 1 .. m : i - 1 \in T => i \in T
  PROVE  \A i \in 0 .. m : i \in T
<1> SUFFICES ASSUME NEW k \in 0 .. m, k \notin T PROVE FALSE
  OBVIOUS
<1>0. (0 .. m) \ T \subseteq Nat /\ (0 .. m) \ T # {}
  OBVIOUS
<1>1. PICK x \in (0 .. m) \ T : \A y \in (0 .. m) \ T : x <= y
  BY <1>0, Least
<1>2. x # 0 /\ x - 1 \in 0 .. m
  BY <1>1
<1>3. x - 1 \in T
  BY <1>1, <1>2
<1> QED
  BY <1>1, <1>2, <1>3

\* g begins with a and goes on by h
Solves(g, n, a, h) == g[0] = a /\ \A i \in 1 .. n : g[i] = h[<<g[i - 1], i>>]
Solvable(n, S, a, h) == \E g \in [0 .. n -> S] : Solves(g, n, a, h)

\* A recursion over 0 .. m with steps h has a solution.
LEMMA Recursion ==
  ASSUME NEW m \in Nat, NEW S, NEW a \in S, NEW h \in [S \X (1 .. m) -> S]
  PROVE  Solvable(m, S, a, h)
<1> DEFINE T == {n \in 0 .. m : Solvable(n, S, a, h)}
<1>1. 0 \in T
  <2> DEFINE c == [i \in 0 .. 0 |-> a]
  <2>1. c \in [0 .. 0 -> S] /\ Solves(c, 0, a, h)
    BY DEF Solves
  <2> HIDE DEF c
  <2>2. Solvable(0, S, a, h)
    BY <2>1 DEF Solvable
  <2> QED
    BY <2>2
<1>2. ASSUME NEW n \in 1 .. m, n - 1 \in T PROVE n \in T
  <2>1. PICK g \in [0 .. n - 1 -> S] : Solves(g, n - 1, a, h)
    BY <1>2 DEF Solvable
  <2>2. h[<<g[n - 1], n>>] \in S
    OBVIOUS
  <2> DEFINE e == [i \in 0 .. n |-> IF i = n THEN h[<<g[n - 1], n>>] ELSE g[i]]
  <2>3. e \in [0 .. n -> S]
    BY <2>2
  <2>4. /\ e[n] = h[<<g[n - 1], n>>]
        /\ \A i \in 0 .. n - 1 : e[i] = g[i]
    OBVIOUS
  <2> HIDE DEF e
  <2>5. Solves(e, n, a, h)
    BY <2>1, <2>4 DEF Solves
  <2> QED
    BY <2>3, <2>5 DEF Solvable
<1> HIDE DEF T
<1>3. m \in T
  BY <1>1, <1>2, UpTo
<1> QED
  BY <1>3 DEF T

=============================================================================
