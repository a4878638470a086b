----------------------------- MODULE Induction -----------------------------
(***************************************************************************)
(* Induction and recursion along 0 .. N, for the proofs about loops: what  *)
(* holds after any number of turns is proved from the fact that a set of   *)
(* natural numbers has a least element, which is itself proved from the    *)
(* library's theorem that strict inclusion of finite sets is well founded. *)
(***************************************************************************)
EXTENDS Naturals, FiniteSetTheorems, TLAPS

\* The initial segments 0 .. n with n in T are subsets of a finite set; the
\* least of them is that of the least n.
LEMMA LeastElement ==
  ASSUME NEW T \in SUBSET Nat, T # {}
  PROVE  \E x \in T : \A y \in T : x <= y
<1>1. PICK b \in T : TRUE
  OBVIOUS
<1> DEFINE S == 0 .. b
           R == StrictSubsetOrdering(S)
           segments == {U \in SUBSET S : \E n \in T : n <= b /\ U = 0 .. n}
<1>2. IsFiniteSet(S)
  BY FS_Interval, <1>1
<1>3. FiniteSubsetsOf(S) = SUBSET S
  BY <1>2, FS_FiniteSubsetsOfFinite
<1>4. IsWellFoundedOn(R, SUBSET S)
  BY <1>3, FS_StrictSubsetOrderingWellFounded
<1>5. segments \subseteq SUBSET S /\ segments # {}
  <2>1. S \in segments
    BY <1>1
  <2> QED
    BY <2>1
<1> HIDE DEF R
<1>6. PICK U \in segments : \A V \in segments : ~(<<V, U>> \in R)
  <2> HIDE DEF S, segments
  <2> QED
    BY <1>4, <1>5, WFMin
<1>7. PICK n \in T : n <= b /\ U = 0 .. n
  BY <1>6
<1>8. ASSUME NEW m \in T, m < n
      PROVE  FALSE
  <2>1. 0 .. m \in segments
    BY <1>8, <1>7, <1>1
  <2>2. (0 .. m) \subseteq (0 .. n) /\ 0 .. m # 0 .. n
    BY <1>8
  <2>3. <<0 .. m, U>> \in R
    BY <2>1, <2>2, <1>6, <1>7 DEF R, StrictSubsetOrdering
  <2> QED
    BY <2>1, <2>3, <1>6
<1> QED
  BY <1>7, <1>8

\* Induction up to N, for the numbers of a set.
LEMMA UpTo ==
  ASSUME NEW N \in Nat, NEW P \in SUBSET Nat, 0 \in P,
         \A n \in 0 .. N - 1 : n \in P => n + 1 \in P
  PROVE  \A n \in 0 .. N : n \in P
<1> DEFINE T == (0 .. N) \ P
<1> SUFFICES ASSUME T # {}
             PROVE  FALSE
  OBVIOUS
<1>1. PICK x \in T : \A y \in T : x <= y
  <2>1. T \in SUBSET Nat
    OBVIOUS
  <2> HIDE DEF T
  <2> QED
    BY <2>1, LeastElement
<1>2. x # 0 /\ x - 1 \in 0 .. N - 1 /\ x \notin P
  BY <1>1
<1>3. x - 1 \in P
  BY <1>1, <1>2
<1> QED
  BY <1>2, <1>3

Solves(f, N, S, c, step) ==
  /\ f \in [0 .. N -> S]
  /\ f[0] = c
  /\ \A n \in 1 .. N : f[n] = step[n][f[n - 1]]

\* A recursion along 0 .. N has a solution.
LEMMA Recursion ==
  ASSUME NEW N \in Nat, NEW S, NEW c \in S,
         NEW step \in [1 .. N -> [S -> S]]
  PROVE  \E f : Solves(f, N, S, c, step)
<1> DEFINE Upto(f, m) ==
             f[0] = c /\ \A n \in 1 .. m : f[n] = step[n][f[n - 1]]
           P == {m \in 0 .. N : \E f \in [0 .. m -> S] : Upto(f, m)}
<1>1. 0 \in P
  <2> DEFINE f == [n \in 0 .. 0 |-> c]
  <2>1. f \in [0 .. 0 -> S] /\ Upto(f, 0)
    OBVIOUS
  <2>2. 0 \in 0 .. N
    OBVIOUS
  <2> HIDE DEF Upto, f
  <2> QED
    BY <2>1, <2>2
<1>2. ASSUME NEW m \in 0 .. N - 1, m \in P
      PROVE  m + 1 \in P
  <2>1. PICK f \in [0 .. m -> S] : Upto(f, m)
    BY <1>2
  <2> DEFINE new == step[m + 1][f[m]]
  <2>2. m \in Nat /\ m + 1 \in 1 .. N /\ f[m] \in S
    OBVIOUS
  <2>3. new \in S /\ new = step[m + 1][f[m]]
    BY <2>2
  <2> HIDE DEF new
  <2> DEFINE g == [n \in 0 .. m + 1 |-> IF n = m + 1 THEN new ELSE f[n]]
  <2>4. g \in [0 .. m + 1 -> S]
    <3> SUFFICES ASSUME NEW n \in 0 .. m + 1
                 PROVE  (IF n = m + 1 THEN new ELSE f[n]) \in S
      OBVIOUS
    <3>1. n # m + 1 => n \in 0 .. m
      BY <2>2
    <3> QED
      BY <2>3, <3>1
  <2>5. g[m + 1] = new /\ \A n \in 0 .. m : g[n] = f[n]
    BY <2>2
  <2> HIDE DEF g
  <2>6. Upto(g, m + 1)
    <3>1. g[0] = c
      BY <2>1, <2>2, <2>5
    <3>2. ASSUME NEW n \in 1 .. m + 1
          PROVE  g[n] = step[n][g[n - 1]]
      <4>1. CASE n = m + 1
        BY <4>1, <2>2, <2>3, <2>5
      <4>2. CASE n \in 1 .. m
        BY <4>2, <2>1, <2>2, <2>5
      <4> QED
        BY <4>1, <4>2, <2>2
    <3> QED
      BY <3>1, <3>2
  <2>7. m + 1 \in 0 .. N
    BY <2>2
  <2> HIDE DEF Upto
  <2> QED
    BY <2>4, <2>6, <2>7
<1>3. P \in SUBSET Nat
  OBVIOUS
<1> HIDE DEF P
<1>4. N \in P
  <2>1. \A n \in 0 .. N - 1 : n \in P => n + 1 \in P
    BY <1>2
  <2> HIDE DEF Upto
  <2>2. \A n \in 0 .. N : n \in P
    BY <1>1, <1>3, <2>1, UpTo
  <2> QED
    BY <2>2
<1> QED
  BY <1>4 DEF P, Solves
=============================================================================
