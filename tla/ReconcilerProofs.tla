-------------------------- MODULE ReconcilerProofs --------------------------
(***************************************************************************)
(* The safety theorems of Reconciler, in four parts: lemmas about the      *)
(* operators that rewrite the group table (inserting, pruning, relocating, *)
(* marking), first for the two integer fields of a preorder tree alone,    *)
(* then for tables; lemmas about the walk, what each rewriting and each    *)
(* push or pop of a frame does to the chain of open groups, to the         *)
(* boundary the cursor is on and to what a clean group may hide; one       *)
(* inductive invariant, one lemma per action that keeps it, and each       *)
(* property as a consequence; and the refinement of CompositionTree, what  *)
(* each rewriting does to the maps of the abstract tree and one lemma per  *)
(* action that it is a step of that tree.                                  *)
(***************************************************************************)
EXTENDS Reconciler, SequenceTheorems, WellFoundedInduction, TLAPS

-----------------------------------------------------------------------------
(* The table.                                                              *)

(* P and Z are the parent and size fields of n groups.                     *)
Arrays(n, P, Z) == \A i \in 1..n : P[i] \in Nat /\ Z[i] \in Nat

(* PreorderTree on the two fields alone.                                   *)
Tree(n, P, Z) ==
  /\ \A i \in 1..n : i + Z[i] <= n
  /\ \A i \in 1..n :
       IF i = 1 THEN P[i] = 1 /\ Z[i] = n - 1
       ELSE P[i] \in 1..(i - 1) /\ i <= P[i] + Z[P[i]]
  /\ \A i, j \in 1..n : i < j /\ j <= i + Z[i] =>
       P[j] >= i /\ j + Z[j] <= i + Z[i]

(* c is a boundary between two children of p: AtBoundary on the sizes      *)
(* alone.                                                                  *)
Place(n, Z, p, c) ==
         p < c /\
         c <= p + 1 + Z[p] /\
         \A i \in (p+1)..(c-1) : i + Z[i] < c

(* Q, Y are P, Z after a childless group is inserted at c below p.         *)
Inserted(n, P, Z, Q, Y, p, c) ==
         /\ Q[c] = p /\ Y[c] = 0
         /\ \A i \in 1..(c-1) : Q[i] = P[i]
         /\ \A i \in 1..(c-1) : Y[i] = IF i <= p /\ p <= i + Z[i] THEN Z[i] + 1 ELSE Z[i]
         /\ \A i \in c..n : Q[i+1] = IF P[i] >= c THEN P[i] + 1 ELSE P[i]
         /\ \A i \in c..n : Y[i+1] = Z[i]

(* Inserting a childless group on a boundary and growing every group above *)
(* it (session.c:1305-1342) leaves a preorder tree.                        *)
LEMMA InsertTree ==
  ASSUME NEW n \in Nat, NEW P, NEW Z, Arrays(n, P, Z), Tree(n, P, Z),
         NEW Q, NEW Y, NEW p \in 1..n, NEW c \in Nat, Place(n, Z, p, c),
         Inserted(n, P, Z, Q, Y, p, c)
  PROVE  Arrays(n+1, Q, Y) /\ Tree(n+1, Q, Y)
<1>a. c \in 2..(n + 1)
  BY DEF Tree, Place, Arrays
<1>c. \A i \in 1..(c-1) : IF i <= p /\ p <= i + Z[i] THEN c <= i + 1 + Z[i] ELSE i + Z[i] < c
  <2> SUFFICES ASSUME NEW i \in 1..(c-1)
               PROVE  IF i <= p /\ p <= i + Z[i] THEN c <= i + 1 + Z[i] ELSE i + Z[i] < c
    OBVIOUS
  <2>1. i \in 1..n /\ Z[i] \in Nat /\ Z[p] \in Nat BY <1>a DEF Arrays
  <2>2. CASE i <= p /\ p <= i + Z[i]
    <3>1. p + Z[p] <= i + Z[i] BY <2>1, <2>2, SMTT(30) DEF Tree
    <3> QED BY <3>1, <2>1, <2>2 DEF Place
  <2>3. CASE i <= p /\ ~(p <= i + Z[i]) BY <2>1, <2>3 DEF Place
  <2>4. CASE p < i BY <2>1, <2>4 DEF Place
  <2> QED BY <2>1, <2>2, <2>3, <2>4
<1>d. Arrays(n+1, Q, Y)
  <2> SUFFICES ASSUME NEW i \in 1..(n+1) PROVE Q[i] \in Nat /\ Y[i] \in Nat BY DEF Arrays
  <2>1. CASE i < c BY <1>a, <2>1 DEF Arrays, Inserted
  <2>2. CASE i = c BY <1>a, <2>2 DEF Arrays, Inserted
  <2>3. CASE i > c 
     <3>1. PICK j \in c..n : i = j + 1 BY <1>a, <2>3
     <3>2. P[j] \in Nat /\ Z[j] \in Nat BY <3>1, <1>a DEF Arrays
     <3> QED BY <3>1, <3>2, <1>a DEF Inserted
  <2> QED BY <2>1, <2>2, <2>3, <1>a
<1>1. ASSUME NEW i \in 1..(n+1) PROVE i + Y[i] <= n+1
  <2>1. CASE i < c BY <1>a, <2>1 DEF Tree, Arrays, Inserted
  <2>2. CASE i = c BY <1>a, <2>2 DEF Inserted
  <2>3. CASE i > c 
     <3>1. PICK j \in c..n : i = j + 1 BY <1>a, <2>3
     <3>2. j + Z[j] <= n /\ Z[j] \in Nat BY <3>1, <1>a DEF Arrays, Tree
     <3> QED BY <3>1, <3>2, <1>a DEF Inserted
  <2> QED BY <2>1, <2>2, <2>3, <1>a
<1>2. ASSUME NEW i \in 1..(n+1) PROVE
       IF i = 1 THEN Q[i] = 1 /\ Y[i] = n 
       ELSE Q[i] \in 1..(i - 1) /\ i <= Q[i] + Y[Q[i]]
  <2>1. CASE i < c 
     <3>1. Q[i] = P[i] /\ (i = 1 => Y[i] = Z[i]+1) /\ i \in 1..n
        BY <1>a, <2>1 DEF Inserted, Tree, Arrays
     <3>2. i # 1 => Y[P[i]] \in {Z[P[i]], Z[P[i]]+1} /\ Z[P[i]] \in Nat
        BY <1>a, <2>1 DEF Inserted, Tree, Arrays
     <3> QED BY <3>1, <3>2 DEF Tree
  <2>2. CASE i = c 
     <3>1. Q[i] = p /\ Y[p] = Z[p]+1 /\ Z[p] \in Nat
        BY <1>a, <2>2 DEF Inserted, Place, Arrays
     <3> QED BY <3>1, <1>a, <2>2 DEF Place
  <2>3. CASE i > c 
     <3>1. PICK j \in c..n : i = j + 1 BY <1>a, <2>3
     <3>2. P[j] \in 1..(j-1) /\ j <= P[j] + Z[P[j]] /\ Z[P[j]] \in Nat
        BY <3>1, <1>a DEF Arrays, Tree
     <3>3. CASE P[j] >= c
       <4>1. Q[i] = P[j]+1 /\ Y[Q[i]] = Z[P[j]] BY <3>1, <3>2, <3>3 DEF Inserted
       <4> QED BY <4>1, <3>1, <3>2, <3>3
     <3>4. CASE P[j] < c
       <4>1. Q[i] = P[j] BY <3>1, <3>2, <3>4 DEF Inserted
       <4>2. Y[P[j]] = Z[P[j]]+1 BY <3>1, <3>2, <3>4, <1>c DEF Inserted
       <4> QED BY <4>1, <4>2, <3>1, <3>2, <3>4
     <3> QED BY <3>3, <3>4, <3>2
  <2> QED BY <2>1, <2>2, <2>3
<1>3. ASSUME NEW i \in 1..(n+1), NEW j \in 1..(n+1), i < j, j <= i + Y[i] PROVE
       Q[j] >= i /\ j + Y[j] <= i + Y[i]
  <2>1. CASE j < c
     <3>1. i \in 1..n /\ j \in 1..n /\ j <= i + Z[i] /\ Q[j] = P[j] /\ Z[j] \in Nat /\ Z[i] \in Nat
       BY <1>a, <1>c, <1>3, <2>1 DEF Inserted, Arrays
     <3>2. P[j] >= i /\ j + Z[j] <= i + Z[i] BY <3>1, <1>3 DEF Tree
     <3>3. CASE j <= p /\ p <= j + Z[j] 
        BY <3>1, <3>2, <3>3, <1>3, <2>1, <1>a DEF Inserted
     <3>4. CASE ~(j <= p /\ p <= j + Z[j]) 
        BY <3>1, <3>2, <3>4, <1>3, <2>1, <1>a DEF Inserted
     <3> QED BY <3>3, <3>4
  <2>2. CASE j = c
     <3>1. Y[j] = 0 /\ Q[j] = p /\ Z[i] \in Nat BY <1>a, <1>3, <2>2 DEF Inserted, Arrays
     <3>2. i <= p BY <3>1, <1>a, <1>3, <2>2, <1>c DEF Inserted
     <3> QED BY <3>1, <3>2, <1>3
  <2>3. CASE j > c
     <3>1. PICK k \in c..n : j = k + 1 BY <1>a, <2>3
     <3>2. P[k] \in 1..(k-1) /\ Z[k] \in Nat /\ Y[j] = Z[k] /\ Q[j] = (IF P[k] >= c THEN P[k]+1 ELSE P[k])
       BY <1>a, <3>1 DEF Inserted, Arrays, Tree
     <3>3. CASE i < c
       <4>1. Z[i] \in Nat /\ Y[i] = Z[i] + 1 BY <3>3, <3>1, <1>a, <1>3, <1>c DEF Inserted, Arrays
       <4>2. P[k] >= i /\ k + Z[k] <= i + Z[i] BY <4>1, <3>1, <3>2, <3>3, <1>3, <1>a DEF Tree
       <4> QED BY <4>1, <4>2, <3>1, <3>2
     <3>4. CASE i = c BY <3>1, <3>2, <3>4, <1>3 DEF Inserted
     <3>5. CASE i > c
       <4>1. PICK h \in c..n : i = h + 1 BY <1>a, <3>5
       <4>2. Y[i] = Z[h] /\ Z[h] \in Nat /\ h \in 1..n /\ k \in 1..n BY <4>1, <3>1, <1>a DEF Inserted, Arrays
       <4>3. P[k] >= h /\ k + Z[k] <= h + Z[h] BY <4>1, <4>2, <3>1, <3>2, <1>3, <1>a DEF Tree
       <4> QED BY <4>1, <4>2, <4>3, <3>1, <3>2
     <3> QED BY <3>3, <3>4, <3>5
  <2> QED BY <2>1, <2>2, <2>3, <1>3
<1> QED BY <1>d, <1>1, <1>2, <1>3 DEF Tree

(* Where group i was before the k groups from r on were removed.           *)
Before(i, r, k) == IF i < r THEN i ELSE i + k

(* Q, Y are P, Z after the k groups from r on are removed.                 *)
Removed(n, P, Z, Q, Y, r, k) ==
         /\ \A i \in 1..(r-1) : Q[i] = P[i]
         /\ \A i \in 1..(r-1) : Y[i] = IF r <= i + Z[i] THEN Z[i] - k ELSE Z[i]
         /\ \A i \in (r+k)..n : Q[i-k] = IF P[i] >= r+k THEN P[i] - k ELSE P[i]
         /\ \A i \in (r+k)..n : Y[i-k] = Z[i]

(* Removing a whole subtree and shrinking every group above it             *)
(* (session.c:1059-1102) leaves a preorder tree, and subtrees keep covering*)
(* what they covered.                                                      *)
LEMMA RemoveTree ==
  ASSUME NEW n \in Nat, NEW P, NEW Z, Arrays(n, P, Z), Tree(n, P, Z),
         NEW Q, NEW Y, NEW r \in 2..n, NEW k, k = 1 + Z[r],
         Removed(n, P, Z, Q, Y, r, k)
  PROVE  /\ n - k \in Nat
         /\ Arrays(n - k, Q, Y)
         /\ \A i, j \in 1..(n - k) : i < j /\ j <= i + Y[i] =>
              Before(i, r, k) < Before(j, r, k) /\ Before(j, r, k) <= Before(i, r, k) + Z[Before(i, r, k)]
         /\ Tree(n - k, Q, Y)
<1>a. k \in Nat \ {0} /\ n - k \in Nat /\ r + k <= n + 1 /\ r - 1 <= n - k
  BY DEF Tree, Arrays
<1>b. \A i \in 1..n : i < r \/ i >= r + k => IF i < r /\ r <= i + Z[i] THEN Z[i] >= k /\ r + k <= i + 1 + Z[i]
                           ELSE i + Z[i] < r \/ i >= r + k
  BY <1>a DEF Tree, Arrays
<1>z. \A i \in 1..n : Z[i] \in Nat /\ P[i] \in Nat /\ i + Z[i] <= n
  BY DEF Arrays, Tree
<1>p. \A i \in 2..n : P[i] \in 1..(i-1) /\ i <= P[i] + Z[P[i]]
  BY DEF Tree
<1>t. \A i, j \in 1..n : i < j /\ j <= i + Z[i] => P[j] >= i /\ j + Z[j] <= i + Z[i]
  BY DEF Tree
<1>o. ASSUME NEW i \in 1..(n-k)
      PROVE  /\ Before(i, r, k) \in 1..n
             /\ Y[i] = IF i < r /\ r <= i + Z[i] THEN Z[i] - k ELSE Z[Before(i, r, k)]
             /\ Q[i] = IF P[Before(i, r, k)] >= r+k THEN P[Before(i, r, k)] - k ELSE P[Before(i, r, k)]
  <2>1. CASE i < r
    <3>1. P[i] < r BY <1>p, <1>a, <2>1 DEF Tree
    <3>2. Q[i] = P[i] /\ Y[i] = IF r <= i + Z[i] THEN Z[i] - k ELSE Z[i] BY <2>1, <1>a DEF Removed
    <3> QED BY <1>a, <2>1, <1>z, <3>1, <3>2 DEF Before
  <2>2. CASE i >= r
    <3>1. i + k \in (r+k)..n /\ (i + k) - k = i BY <1>a, <2>2
    <3>2. Q[i] = (IF P[i+k] >= r+k THEN P[i+k] - k ELSE P[i+k]) /\ Y[i] = Z[i+k] BY <3>1 DEF Removed
    <3> QED BY <2>2, <1>a, <3>1, <3>2 DEF Before
  <2> QED BY <2>1, <2>2, <1>a
<1>q. ASSUME NEW i \in 2..(n-k)
      PROVE  P[Before(i, r, k)] < r \/ P[Before(i, r, k)] >= r + k
  <2>1. CASE i < r BY <1>a, <2>1, <1>z, <1>p DEF Before
  <2>2. CASE i >= r
    <3>1. i + k \in (r+k)..n BY <1>a, <2>2
    <3>2. ~(P[i+k] >= r /\ P[i+k] < r+k)
      <4>1. SUFFICES ASSUME P[i+k] >= r /\ P[i+k] < r+k PROVE FALSE OBVIOUS
      <4>2. P[i+k] \in 1..n /\ i+k <= P[i+k] + Z[P[i+k]] BY <1>p, <1>a, <3>1
      <4>3. CASE P[i+k] = r BY <4>2, <4>3, <3>1, <1>a, <1>z
      <4>4. CASE P[i+k] > r
        <5>1. P[i+k] + Z[P[i+k]] <= r + Z[r] BY <1>t, <4>1, <4>2, <4>4, <1>a, <1>z
        <5> QED BY <5>1, <4>2, <3>1, <1>a, <1>z
      <4> QED BY <4>1, <4>3, <4>4, <4>2
    <3> QED BY <2>2, <3>1, <3>2, <1>a, <1>z DEF Before
  <2> QED BY <2>1, <2>2, <1>a
<1>1. Arrays(n-k, Q, Y)
  <2> SUFFICES ASSUME NEW i \in 1..(n-k) PROVE Q[i] \in Nat /\ Y[i] \in Nat BY DEF Arrays
  <2> QED BY <1>a, <1>o, <1>b, <1>z DEF Before
<1>2. ASSUME NEW i \in 1..(n-k) PROVE i + Y[i] <= n-k
  <2>1. CASE i < r BY <1>a, <1>o, <1>b, <1>z, <2>1 DEF Before
  <2>2. CASE i >= r BY <1>a, <1>o, <1>z, <2>2 DEF Before
  <2> QED BY <2>1, <2>2, <1>a
<1>3. ASSUME NEW i \in 1..(n-k) PROVE
       IF i = 1 THEN Q[i] = 1 /\ Y[i] = n - k - 1
       ELSE Q[i] \in 1..(i - 1) /\ i <= Q[i] + Y[Q[i]]
  <2>1. CASE i = 1 BY <1>a, <2>1 DEF Removed, Tree
  <2>2. CASE i # 1 /\ i < r
     <3>1. Q[i] = P[i] /\ P[i] \in 1..(i-1) /\ i <= P[i] + Z[P[i]] BY <1>a, <2>2, <1>p DEF Removed
     <3>2. P[i] < r /\ Y[P[i]] = IF r <= P[i] + Z[P[i]] THEN Z[P[i]] - k ELSE Z[P[i]]
        BY <3>1, <2>2, <1>a DEF Removed
     <3>3. r <= P[i] + Z[P[i]] => i <= P[i] + Z[P[i]] - k
       BY <1>t, <1>b, <3>1, <3>2, <1>a, <1>z, <2>2
     <3> QED BY <3>1, <3>2, <3>3, <2>2
  <2>3. CASE i # 1 /\ i >= r
     <3>0. Before(i, r, k) = i + k /\ i + k \in 2..n BY <2>3, <1>a DEF Before
     <3>1. P[i+k] \in 1..(i+k-1) /\ i+k <= P[i+k] + Z[P[i+k]] BY <1>p, <3>0
     <3>2. CASE P[i+k] < r
       <4>1. Q[i] = P[i+k] /\ Y[P[i+k]] = Z[P[i+k]] - k BY <3>0, <3>1, <3>2, <1>o, <2>3, <1>a, <1>z
       <4> QED BY <4>1, <3>1, <3>2, <2>3, <1>a, <1>z
     <3>3. CASE P[i+k] >= r+k
       <4>1. Q[i] = P[i+k]-k /\ Q[i] \in r..(n-k) /\ Before(Q[i], r, k) = P[i+k]
         BY <3>0, <3>1, <3>3, <1>o, <2>3, <1>a, <1>z DEF Before
       <4>2. Y[Q[i]] = Z[P[i+k]] BY <4>1, <1>o, <1>a
       <4> QED BY <4>1, <4>2, <3>1, <3>3, <2>3, <1>a, <1>z
     <3> QED BY <3>2, <3>3, <1>q, <3>0, <2>3
  <2> QED BY <2>1, <2>2, <2>3
<1>4. ASSUME NEW i \in 1..(n-k), NEW j \in 1..(n-k), i < j, j <= i + Y[i]
      PROVE  /\ Before(i, r, k) < Before(j, r, k)
             /\ Before(j, r, k) <= Before(i, r, k) + Z[Before(i, r, k)]
  <2>1. CASE i < r BY <1>4, <1>a, <1>o, <1>b, <1>z, <2>1 DEF Before
  <2>2. CASE i >= r BY <1>4, <1>a, <1>o, <1>b, <1>z, <2>2 DEF Before
  <2> QED BY <2>1, <2>2, <1>a
<1>5. ASSUME NEW i \in 1..(n-k), NEW j \in 1..(n-k), i < j, j <= i + Y[i] PROVE
       Q[j] >= i /\ j + Y[j] <= i + Y[i]
  <2>0. PICK I, J \in 1..n : I = Before(i, r, k) /\ J = Before(j, r, k) BY <1>o
  <2>1. I < J /\ J <= I + Z[I] BY <1>4, <1>5, <2>0
  <2>2. P[J] >= I /\ J + Z[J] <= I + Z[I] BY <2>1, <1>t
  <2>3. /\ Q[j] = IF P[J] >= r+k THEN P[J] - k ELSE P[J]
        /\ Y[i] = IF i < r /\ r <= i + Z[i] THEN Z[i] - k ELSE Z[I]
        /\ Y[j] = IF j < r /\ r <= j + Z[j] THEN Z[j] - k ELSE Z[J]
        /\ P[J] < r \/ P[J] >= r + k
     BY <1>o, <2>0, <1>q, <1>5
  <2>4. CASE i >= r BY <2>0, <2>1, <2>2, <2>3, <2>4, <1>5, <1>a, <1>z DEF Before
  <2>5. CASE i < r /\ j >= r BY <2>0, <2>1, <2>2, <2>3, <2>5, <1>5, <1>a, <1>z, <1>b DEF Before
  <2>6. CASE i < r /\ j < r
    <3>1. I = i /\ J = j BY <2>0, <2>6 DEF Before
    <3>2. r <= i + Z[i] => r + k <= i + 1 + Z[i] BY <1>b, <2>6, <3>1, <1>a
    <3>3. ~(r <= j + Z[j]) => j + Y[j] < r BY <2>3, <3>1, <2>6, <1>z
    <3>4. r <= j + Z[j] => r <= i + Z[i] /\ r + k <= j + 1 + Z[j] BY <1>b, <2>2, <2>6, <3>1, <1>z, <1>a
    <3>5. j + Y[j] <= i + Y[i] BY <3>1, <3>2, <3>3, <3>4, <2>2, <2>3, <2>6, <1>z, <1>a
    <3> QED BY <2>2, <2>3, <3>1, <3>5, <2>6, <1>z
  <2> QED BY <2>4, <2>5, <2>6, <1>5, <1>a
<1> QED BY <1>a, <1>1, <1>2, <1>3, <1>4, <1>5 DEF Tree

(* Q, Y are P, Z after the k groups from m on are moved down to c.         *)
Moved(n, P, Z, Q, Y, m, c, k) ==
  \A i \in 1..n : /\ Q[i] = MovedTo(P[MovedFrom(i, m, c, k)], m, c, k)
                  /\ Y[i] = Z[MovedFrom(i, m, c, k)]

(* Moving the subtree of a later sibling to the cursor with parents        *)
(* renumbered (session.c:1244-1269) leaves a preorder tree, and subtrees   *)
(* keep covering what they covered.                                        *)
LEMMA MoveTree ==
  ASSUME NEW n \in Nat, NEW P, NEW Z, Arrays(n, P, Z), Tree(n, P, Z),
         NEW Q, NEW Y, NEW p \in 1..n, NEW c \in Nat, Place(n, Z, p, c),
         NEW m \in c..n, P[m] = p, \A i \in c..(m-1) : i + Z[i] < m,
         NEW k, k = 1 + Z[m], Moved(n, P, Z, Q, Y, m, c, k)
  PROVE  /\ Arrays(n, Q, Y)
         /\ \A i \in 1..n : MovedFrom(i, m, c, k) \in 1..n
         /\ \A i, j \in 1..n : i < j /\ j <= i + Y[i] =>
              /\ MovedFrom(i, m, c, k) < MovedFrom(j, m, c, k)
              /\ MovedFrom(j, m, c, k) <= MovedFrom(i, m, c, k) + Z[MovedFrom(i, m, c, k)]
         /\ Tree(n, Q, Y)
<1>z. \A i \in 1..n : Z[i] \in Nat /\ P[i] \in Nat /\ i + Z[i] <= n
  BY DEF Arrays, Tree
<1>p. \A i \in 2..n : P[i] \in 1..(i-1) /\ i <= P[i] + Z[P[i]]
  BY DEF Tree
<1>t. \A i, j \in 1..n : i < j /\ j <= i + Z[i] => P[j] >= i /\ j + Z[j] <= i + Z[i]
  BY DEF Tree
<1>1. P[1] = 1 /\ Z[1] = n - 1 
  BY DEF Tree
<1>a. k \in Nat \ {0} /\ m + k <= n + 1 /\ c \in 2..n /\ p < c /\ m + k <= p + 1 + Z[p]
  BY <1>z, <1>p, <1>t DEF Place
<1>b. \A i \in 1..n : IF i <= p /\ c <= i + Z[i] THEN m + k <= i + 1 + Z[i]
                      ELSE IF i < c THEN i + Z[i] < c
                      ELSE IF i < m THEN i + Z[i] < m
                      ELSE IF i < m + k THEN i + Z[i] < m + k
                      ELSE TRUE
  <2> SUFFICES ASSUME NEW i \in 1..n 
      PROVE IF i <= p /\ c <= i + Z[i] THEN m + k <= i + 1 + Z[i]
                      ELSE IF i < c THEN i + Z[i] < c
                      ELSE IF i < m THEN i + Z[i] < m
                      ELSE IF i < m + k THEN i + Z[i] < m + k
                      ELSE TRUE OBVIOUS
  <2>1. CASE i <= p /\ c <= i + Z[i]
    <3>1. CASE i = p BY <2>1, <3>1, <1>a, <1>z
    <3>2. CASE i < p
      <4>1. p + Z[p] <= i + Z[i] BY <2>1, <3>2, <1>a, <1>t, <1>z
      <4> QED BY <2>1, <4>1, <1>a, <1>z
    <3> QED BY <3>1, <3>2, <2>1
  <2>2. CASE p < i /\ i < c BY <2>2, <1>a, <1>z DEF Place
  <2>3. CASE i >= c /\ i < m BY <2>3, <1>a, <1>z
  <2>4. CASE i >= m /\ i < m + k
    <3>1. CASE i = m BY <2>4, <3>1, <1>a, <1>z
    <3>2. CASE i > m
      <4>1. i + Z[i] <= m + Z[m] BY <2>4, <3>2, <1>a, <1>t, <1>z
      <4> QED BY <2>4, <4>1, <1>a, <1>z
    <3> QED BY <3>1, <3>2, <2>4
  <2> QED BY <2>1, <2>2, <2>3, <2>4, <1>a, <1>z
<1>f. \A i \in 1..n : MovedFrom(i, m, c, k) \in 1..n /\ MovedTo(MovedFrom(i, m, c, k), m, c, k) = i
  BY <1>a DEF MovedFrom, MovedTo
<1>g. \A i \in 1..n : MovedTo(i, m, c, k) \in 1..n /\ MovedFrom(MovedTo(i, m, c, k), m, c, k) = i
  BY <1>a DEF MovedFrom, MovedTo
<1>h. \A i \in 1..n : Q[MovedTo(i, m, c, k)] = MovedTo(P[i], m, c, k) /\ Y[MovedTo(i, m, c, k)] = Z[i]
  BY <1>g DEF Moved
<1>2. Arrays(n, Q, Y)
  <2> SUFFICES ASSUME NEW i \in 1..n PROVE Q[i] \in Nat /\ Y[i] \in Nat BY DEF Arrays
  <2>1. PICK j \in 1..n : i = MovedTo(j, m, c, k) BY <1>f
  <2>2. P[j] \in 1..n BY <1>p, <1>1
  <2> QED BY <2>1, <2>2, <1>h, <1>g, <1>z
<1>3. ASSUME NEW i \in 1..n, NEW j \in 1..n
      PROVE  LET I == MovedTo(i, m, c, k) J == MovedTo(j, m, c, k) IN
             (I < J /\ J <= I + Z[i]) <=> (i < j /\ j <= i + Z[i])
  <2>1. CASE i < c 
    <3>1. CASE i <= p /\ c <= i + Z[i] BY <2>1, <3>1, <1>b, <1>a, <1>z DEF MovedTo
    <3>2. CASE i + Z[i] < c BY <2>1, <3>2, <1>b, <1>a, <1>z DEF MovedTo
    <3> QED BY <3>1, <3>2, <1>b, <2>1, <1>a, <1>z
  <2>2. CASE i >= c /\ i < m 
    <3>1. i + Z[i] < m BY <2>2, <1>b, <1>a
    <3> QED BY <3>1, <2>2, <1>a, <1>z DEF MovedTo
  <2>3. CASE i >= m /\ i < m + k 
    <3>1. i + Z[i] < m + k BY <2>3, <1>b, <1>a
    <3> QED BY <3>1, <2>3, <1>a, <1>z DEF MovedTo
  <2>4. CASE i >= m + k BY <2>4, <1>b, <1>a, <1>z DEF MovedTo
  <2> QED BY <2>1, <2>2, <2>3, <2>4, <1>a
<1>4. ASSUME NEW i \in 1..n PROVE MovedTo(i, m, c, k) + Z[i] <= n
  BY <1>b, <1>a, <1>z DEF MovedTo
<1>5. ASSUME NEW i \in 1..n PROVE
       IF i = 1 THEN Q[i] = 1 /\ Y[i] = n - 1
       ELSE Q[i] \in 1..(i - 1) /\ i <= Q[i] + Y[Q[i]]
  <2>1. PICK j \in 1..n : i = MovedTo(j, m, c, k) BY <1>f
  <2>2. i = 1 <=> j = 1 BY <2>1, <1>a DEF MovedTo
  <2>3. CASE i = 1 
    <3>1. Q[i] = MovedTo(P[1], m, c, k) /\ Y[i] = Z[1] BY <1>h, <2>1, <2>2, <2>3
    <3> QED BY <2>3, <3>1, <1>1, <1>a DEF MovedTo
  <2>4. CASE i # 1
    <3>1. P[j] \in 1..n /\ P[j] < j /\ j <= P[j] + Z[P[j]] BY <2>2, <2>4, <1>p
    <3>2. MovedTo(P[j], m, c, k) < i /\ i <= MovedTo(P[j], m, c, k) + Z[P[j]]
      BY <1>3, <2>1, <3>1
    <3>3. Q[i] = MovedTo(P[j], m, c, k) /\ Q[i] \in 1..n /\ Y[Q[i]] = Z[P[j]] 
      BY <1>h, <2>1, <3>1, <1>g
    <3> QED BY <3>2, <3>3, <2>4
  <2> QED BY <2>3, <2>4
<1>6. ASSUME NEW i \in 1..n, NEW j \in 1..n, i < j, j <= i + Y[i]
      PROVE  /\ MovedFrom(i, m, c, k) < MovedFrom(j, m, c, k)
             /\ MovedFrom(j, m, c, k) <= MovedFrom(i, m, c, k) + Z[MovedFrom(i, m, c, k)]
  <2>1. PICK I, J \in 1..n : i = MovedTo(I, m, c, k) /\ j = MovedTo(J, m, c, k) BY <1>f
  <2>2. Y[i] = Z[I] BY <2>1, <1>h
  <2>3. I < J /\ J <= I + Z[I] BY <1>3, <1>6, <2>1, <2>2
  <2> QED BY <2>3, <2>1, <1>g
<1>7. ASSUME NEW i \in 1..n, NEW j \in 1..n, i < j, j <= i + Y[i]
      PROVE  Q[j] >= i /\ j + Y[j] <= i + Y[i]
  <2>1. PICK I, J \in 1..n : i = MovedTo(I, m, c, k) /\ j = MovedTo(J, m, c, k) BY <1>f
  <2>2. Y[i] = Z[I] /\ Y[j] = Z[J] /\ Q[j] = MovedTo(P[J], m, c, k) BY <2>1, <1>h
  <2>3. I < J /\ J <= I + Z[I] BY <1>3, <1>7, <2>1, <2>2
  <2>4. P[J] \in 1..n /\ P[J] >= I /\ J + Z[J] <= I + Z[I] /\ P[J] < J BY <2>3, <1>t, <1>p
  <2>5. MovedTo(P[J], m, c, k) >= MovedTo(I, m, c, k)
    <3>1. CASE P[J] = I BY <3>1, <1>g
    <3>2. CASE P[J] # I
      <4>z. Z[I] \in Nat BY <1>z
      <4>0. I < P[J] /\ P[J] <= I + Z[I] BY <3>2, <2>3, <2>4, <4>z
      <4>1. MovedTo(I, m, c, k) < MovedTo(P[J], m, c, k) BY <4>0, <2>4, <1>3
      <4> QED BY <4>1, <1>g, <2>4
    <3> QED BY <3>1, <3>2
  <2>7. MovedTo(J, m, c, k) + Z[J] <= MovedTo(I, m, c, k) + Z[I]
    <3>1. CASE I < c
      <4>1. CASE J < c \/ J >= m BY <2>3, <2>4, <3>1, <4>1, <1>a, <1>z DEF MovedTo
      <4>2. CASE J >= c /\ J < m
        <5>1. c <= I + Z[I] BY <2>3, <4>2, <1>z, <1>a
        <5>2. m + k <= I + 1 + Z[I] BY <1>b, <5>1, <3>1, <1>z, <1>a
        <5>3. J + Z[J] < m BY <4>2
        <5> QED BY <5>2, <5>3, <3>1, <4>2, <1>a, <1>z DEF MovedTo
      <4> QED BY <4>1, <4>2, <1>a
    <3>2. CASE I >= c /\ I < m
      <4>1. I + Z[I] < m BY <3>2
      <4> QED BY <2>3, <2>4, <3>2, <4>1, <1>a, <1>z DEF MovedTo
    <3>3. CASE I >= m BY <2>3, <2>4, <3>3, <1>a, <1>z, <1>b DEF MovedTo
    <3> QED BY <3>1, <3>2, <3>3, <1>a
  <2> QED BY <2>1, <2>2, <2>5, <2>7
<1> QED BY <1>2, <1>4, <1>5, <1>6, <1>7, <1>f DEF Tree, Moved

(* x is a child of p at or after the boundary c.                           *)
SiblingFrom(n, P, Z, p, c, x) ==
  /\ x \in c..(p + Z[p])
  /\ P[x] = p
  /\ \A i \in c..(x - 1) : i + Z[i] < x

(* A boundary inside the subtree of p is where a child of p starts, so the *)
(* sibling search starts on a child.                                       *)
LEMMA CursorIsSibling ==
  ASSUME NEW n \in Nat, NEW P, NEW Z, Arrays(n, P, Z), Tree(n, P, Z),
         NEW p \in 1..n, NEW c \in Nat, Place(n, Z, p, c), c <= p + Z[p]
  PROVE  SiblingFrom(n, P, Z, p, c, c)
<1>1. c \in 2..n /\ p < c /\ Z[p] \in Nat BY DEF Place, Arrays, Tree
<1>2. P[c] >= p /\ P[c] \in 1..(c-1) /\ c <= P[c] + Z[P[c]]
  BY <1>1 DEF Tree
<1>3. ASSUME P[c] > p PROVE FALSE
  <2>1. P[c] \in (p+1)..(c-1) /\ P[c] \in 1..n BY <1>1, <1>2, <1>3
  <2>2. P[c] + Z[P[c]] < c BY <2>1 DEF Place
  <2>3. Z[P[c]] \in Nat BY <2>1 DEF Arrays
  <2> QED BY <1>1, <1>2, <2>1, <2>2, <2>3
<1> QED BY <1>1, <1>2, <1>3 DEF SiblingFrom

(* Hopping over the subtree of a child of p (session.c:1241) lands on the  *)
(* next child of p or past the last one.                                   *)
LEMMA NextIsSibling ==
  ASSUME NEW n \in Nat, NEW P, NEW Z, Arrays(n, P, Z), Tree(n, P, Z),
         NEW p \in 1..n, NEW c \in Nat, Place(n, Z, p, c), 
         NEW x, SiblingFrom(n, P, Z, p, c, x), 
         x + 1 + Z[x] <= p + Z[p]
  PROVE  SiblingFrom(n, P, Z, p, c, x + 1 + Z[x])
<1>1. c \in 2..n /\ x \in c..n /\ p < c /\ Z[p] \in Nat /\ Z[x] \in Nat /\ P[x] = p
  BY DEF Place, Arrays, Tree, SiblingFrom
<1> DEFINE y == x + 1 + Z[x]
<1>2. y \in 2..n /\ y > x /\ y \in c..(p + Z[p]) BY <1>1 DEF Tree
<1>3. P[y] >= p /\ P[y] \in 1..(y-1) /\ y <= P[y] + Z[P[y]]
  BY <1>1, <1>2 DEF Tree
<1>4. ASSUME NEW i \in (p+1)..(y-1) PROVE i + Z[i] < y
  <2>0. Z[i] \in Nat BY <1>1, <1>2 DEF Arrays
  <2>1. CASE i < c BY <2>1, <1>1, <1>2, <2>0 DEF Place
  <2>2. CASE i >= c /\ i < x BY <2>2, <1>1, <1>2, <2>0 DEF SiblingFrom
  <2>3. CASE i = x BY <2>3, <1>1, <1>2
  <2>4. CASE x < i 
    <3>1. i + Z[i] <= x + Z[x] BY <2>4, <1>1, <1>2, <2>0 DEF Tree
    <3> QED BY <3>1, <1>1, <2>0
  <2> QED BY <2>1, <2>2, <2>3, <2>4, <1>1, <1>2
<1>5. ASSUME P[y] > p PROVE FALSE
  <2>1. P[y] \in (p+1)..(y-1) /\ P[y] \in 1..n BY <1>1, <1>2, <1>3, <1>5
  <2>2. P[y] + Z[P[y]] < y BY <2>1, <1>4
  <2>3. Z[P[y]] \in Nat BY <2>1 DEF Arrays
  <2> QED BY <1>1, <1>2, <1>3, <2>1, <2>2, <2>3
<1>6. P[y] = p BY <1>3, <1>5, <1>1
<1>7. \A i \in c..(y - 1) : i + Z[i] < y BY <1>4, <1>1
<1> HIDE DEF y
<1>8. SiblingFrom(n, P, Z, p, c, y) BY <1>2, <1>6, <1>7 DEF SiblingFrom
<1> QED BY <1>8 DEF y

(* The place past the subtree of a child of p is a boundary of p.          *)
LEMMA PlaceAfterChild ==
  ASSUME NEW n \in Nat, NEW P, NEW Z, Arrays(n, P, Z), Tree(n, P, Z),
         NEW x \in 2..n, NEW p, p = P[x]
  PROVE  /\ p \in 1..(x - 1)
         /\ x + 1 + Z[x] \in 2..(n + 1)
         /\ Place(n, Z, p, x + 1 + Z[x])
<1>1. p \in 1..(x - 1) /\ p \in 1..n /\ x <= p + Z[p] /\ Z[x] \in Nat /\ Z[p] \in Nat
  BY DEF Tree, Arrays
<1>2. x + Z[x] <= p + Z[p] /\ x + Z[x] <= n
  BY <1>1 DEF Tree
<1>3. ASSUME NEW i \in (p + 1)..(x + Z[x]) PROVE i + Z[i] < x + 1 + Z[x]
  <2>1. i \in 1..n /\ Z[i] \in Nat BY <1>1, <1>2 DEF Arrays
  <2>2. CASE i < x
    <3>1. ASSUME x <= i + Z[i] PROVE FALSE
      <4>1. P[x] >= i BY <2>1, <2>2, <3>1 DEF Tree
      <4> QED BY <4>1, <1>1
    <3> QED BY <3>1, <2>1, <2>2, <1>1
  <2>3. CASE i = x BY <2>3, <1>1
  <2>4. CASE i > x
    <3>1. i + Z[i] <= x + Z[x] BY <2>1, <2>4 DEF Tree
    <3> QED BY <3>1, <2>1, <1>1
  <2> QED BY <2>2, <2>3, <2>4, <2>1
<1>4. (x + 1 + Z[x]) - 1 = x + Z[x] BY <1>1
<1> QED BY <1>1, <1>2, <1>3, <1>4 DEF Place

(* Every nonempty set of naturals has a least element.                     *)
LEMMA LeastExists ==
  ASSUME NEW S, S \subseteq Nat, S # {}
  PROVE  \E x \in S : \A y \in S : x <= y
<1>1. PICK x \in S : \A y \in S : ~ (<<y, x>> \in OpToRel(<, Nat))
  BY NatLessThanWellFounded, WFMin
<1>2. OpToRel(<, Nat) = {ss \in Nat \X Nat : ss[1] < ss[2]}
  BY DEF OpToRel
<1>3. \A y \in S : ~ (<<y, x>> \in {ss \in Nat \X Nat : ss[1] < ss[2]})
  BY <1>1, <1>2
<1>4. ASSUME NEW y \in S PROVE x <= y
  <2>1. x \in Nat /\ y \in Nat
    OBVIOUS
  <2>2. <<y, x>> \in Nat \X Nat /\ <<y, x>>[1] = y /\ <<y, x>>[2] = x
    BY <2>1
  <2>3. ~(y < x)
    BY <1>3, <2>1, <2>2
  <2> QED BY <2>1, <2>3
<1> QED BY <1>4

(* Least picks it: the first match of the scans over the table.            *)
LEMMA LeastIs ==
  ASSUME NEW S, S \subseteq Nat, S # {}
  PROVE  Least(S) \in S /\ \A y \in S : Least(S) <= y
BY LeastExists DEF Least

(* A function on 1..n is a sequence of length n.                           *)
LEMMA SeqOfFcn ==
  ASSUME NEW S, NEW n \in Nat, NEW f \in [1..n -> S]
  PROVE  f \in Seq(S) /\ Len(f) = n /\ DOMAIN f = 1..n
OBVIOUS

(* The fields of the groups of a table.                                    *)
LEMMA TableType ==
  ASSUME NEW gs \in Seq(Group)
  PROVE  /\ Len(gs) \in Nat
         /\ DOMAIN gs = 1..Len(gs)
         /\ \A i \in 1..Len(gs) :
              /\ gs[i] \in Group
              /\ gs[i].size \in Nat
              /\ gs[i].parent \in Nat
              /\ gs[i].key \in Keys /\ gs[i].id \in Nat
              /\ gs[i].inv \in BOOLEAN /\ gs[i].cont \in BOOLEAN
<1>1. Len(gs) \in Nat /\ DOMAIN gs = 1..Len(gs)
  BY LenProperties
<1>2. \A i \in 1..Len(gs) : gs[i] \in Group
  BY ElementOfSeq
<1> QED BY <1>1, <1>2 DEF Group

(* A set closed under parents, starting at p and linked by them, is exactly*)
(* what climbing from p meets.                                             *)
LEMMA ClimbIs ==
  ASSUME NEW gs, NEW n \in Nat, DOMAIN gs = 1..n,
         NEW p \in 1..n, NEW C \in SUBSET (1..p), p \in C,
         \A x \in C : gs[x].parent \in C,
         \A x, y \in C : x < y => x <= gs[y].parent /\ gs[y].parent < y
  PROVE  Climb(gs, p) = C
<1>1. Climb(gs, p) \subseteq C
  <2>1. C \in SUBSET DOMAIN gs
    OBVIOUS
  <2>2. \A x \in Climb(gs, p) : x \in C
    BY <2>1 DEF Climb
  <2> QED BY <2>2
<1>2. ASSUME NEW x \in C, NEW S \in SUBSET DOMAIN gs,
             p \in S, \A y \in S : gs[y].parent \in S, x \notin S
      PROVE  FALSE
  <2> DEFINE X == {y \in S \cap C : x < y}
  <2>1. p \in X /\ X \subseteq Nat
    BY <1>2
  <2>2. PICK y \in X : \A z \in X : y <= z
    BY <2>1, LeastExists
  <2>3. gs[y].parent \in S \cap C /\ x <= gs[y].parent /\ gs[y].parent < y
    BY <1>2
  <2>4. gs[y].parent # x /\ gs[y].parent \in Nat /\ x \in Nat /\ y \in Nat
    BY <1>2, <2>3
  <2>5. gs[y].parent \in X
    BY <2>3, <2>4
  <2> QED BY <2>2, <2>3, <2>4, <2>5
<1>3. C \subseteq Climb(gs, p)
  BY <1>2 DEF Climb
<1> QED BY <1>1, <1>3

(* The parent fields of a table.                                           *)
Par(gs) == [i \in DOMAIN gs |-> gs[i].parent]

(* The size fields of a table.                                             *)
Siz(gs) == [i \in DOMAIN gs |-> gs[i].size]

(* A table is a preorder tree exactly when its two fields are.             *)
LEMMA TableTree ==
  ASSUME NEW gs \in Seq(Group)
  PROVE  /\ Arrays(Len(gs), Par(gs), Siz(gs))
         /\ PreorderTree(gs) <=> Tree(Len(gs), Par(gs), Siz(gs))
         /\ \A i \in 1..Len(gs) : Par(gs)[i] = gs[i].parent /\ Siz(gs)[i] = gs[i].size
<1>1. DOMAIN gs = 1..Len(gs) /\ Len(gs) \in Nat BY TableType
<1>2. \A i \in 1..Len(gs) : /\ Par(gs)[i] = gs[i].parent /\ Siz(gs)[i] = gs[i].size
                            /\ gs[i].parent \in Nat /\ gs[i].size \in Nat
  BY TableType, <1>1 DEF Par, Siz
<1>3. Arrays(Len(gs), Par(gs), Siz(gs)) BY <1>2 DEF Arrays
<1>4. ASSUME PreorderTree(gs) PROVE Tree(Len(gs), Par(gs), Siz(gs)) 
  <2>1. \A i \in 1..Len(gs) : i + Siz(gs)[i] <= Len(gs) BY <1>4, <1>1, <1>2 DEF PreorderTree
  <2>2. ASSUME NEW i \in 1..Len(gs)
        PROVE IF i = 1 THEN Par(gs)[i] = 1 /\ Siz(gs)[i] = Len(gs) - 1
       ELSE Par(gs)[i] \in 1..(i - 1) /\ i <= Par(gs)[i] + Siz(gs)[Par(gs)[i]]
    <3>1. CASE i = 1 BY <3>1, <1>4, <1>1, <1>2 DEF PreorderTree
    <3>2. CASE i # 1
      <4>1. gs[i].parent \in 1..(i - 1) /\ i <= gs[i].parent + gs[gs[i].parent].size
        BY <3>2, <1>4, <1>1 DEF PreorderTree
      <4> QED BY <4>1, <3>2, <1>2, <1>1
    <3> QED BY <3>1, <3>2
  <2>3. ASSUME NEW i \in 1..Len(gs), NEW j \in 1..Len(gs), i < j, j <= i + Siz(gs)[i]
        PROVE  Par(gs)[j] >= i /\ j + Siz(gs)[j] <= i + Siz(gs)[i]
    <3>1. /\ Par(gs)[j] = gs[j].parent /\ Siz(gs)[j] = gs[j].size
          /\ Siz(gs)[i] = gs[i].size
      BY <1>2
    <3>2. gs[j].parent >= i /\ j + gs[j].size <= i + gs[i].size
      BY <2>3, <3>1, <1>4, <1>1 DEF PreorderTree
    <3> QED BY <3>1, <3>2
  <2> QED BY <2>1, <2>2, <2>3 DEF Tree
<1>5. ASSUME Tree(Len(gs), Par(gs), Siz(gs)) PROVE PreorderTree(gs)
  <2>1. \A i \in 1..Len(gs) : i + gs[i].size <= Len(gs) BY <1>5, <1>1, <1>2 DEF Tree
  <2>2. ASSUME NEW i \in 1..Len(gs)
        PROVE IF i = 1 THEN gs[i].parent = 1 /\ gs[i].size = Len(gs) - 1
       ELSE gs[i].parent \in 1..(i - 1) /\ i <= gs[i].parent + gs[gs[i].parent].size
    BY <1>5, <1>1, <1>2 DEF Tree
  <2>3. \A i, j \in 1..Len(gs) : i < j /\ j <= i + gs[i].size =>
       gs[j].parent >= i /\ j + gs[j].size <= i + gs[i].size
    BY <1>5, <1>1, <1>2 DEF Tree
  <2> QED BY <2>1, <2>2, <2>3, <1>1 DEF PreorderTree
<1> QED BY <1>2, <1>3, <1>4, <1>5

(* The groups whose interval covers p.                                     *)
Covering(gs, p) == {a \in 1..p : p <= a + gs[a].size}

(* The groups covering p are linked by their parents.                      *)
LEMMA CoveringClosed ==
  ASSUME NEW gs \in Seq(Group), PreorderTree(gs), NEW p \in 1..Len(gs)
  PROVE  /\ Covering(gs, p) \in SUBSET (1..p)
         /\ p \in Covering(gs, p)
         /\ \A x \in Covering(gs, p) : gs[x].parent \in Covering(gs, p)
         /\ \A x, y \in Covering(gs, p) :
              x < y => x <= gs[y].parent /\ gs[y].parent < y
<1> DEFINE C == {a \in 1..p : p <= a + gs[a].size}
<1>1. Len(gs) \in Nat /\ DOMAIN gs = 1..Len(gs)
  BY TableType
<1>2. C \in SUBSET (1..p) /\ p \in C
  BY TableType
<1>3. ASSUME NEW x \in C PROVE gs[x].parent \in C /\ gs[x].parent <= x
  <2>1. x \in 1..Len(gs) /\ gs[x].size \in Nat /\ gs[x].parent \in Nat BY TableType
  <2>2. CASE x = 1 BY <1>1, <2>1, <2>2 DEF PreorderTree
  <2>3. CASE x # 1
    <3>1. gs[x].parent \in 1..(x-1) /\ x <= gs[x].parent + gs[gs[x].parent].size
      BY <1>1, <2>1, <2>3 DEF PreorderTree
    <3>0. gs[x].parent \in 1..Len(gs) /\ gs[x].parent < x BY <3>1, <2>1, <1>1
    <3>3. gs[gs[x].parent].size \in Nat BY TableType, <3>0
    <3>2. x + gs[x].size <= gs[x].parent + gs[gs[x].parent].size
      BY <1>1, <2>1, <3>1, <3>0 DEF PreorderTree
    <3>4. x \in 1..p /\ p <= x + gs[x].size /\ p \in Nat BY <1>1
    <3>5. gs[x].parent \in 1..p BY <3>1, <3>4
    <3>6. p <= gs[x].parent + gs[gs[x].parent].size BY <3>2, <3>3, <3>4, <3>5, <2>1
    <3> QED BY <3>0, <3>5, <3>6, <3>4
  <2> QED BY <2>2, <2>3
<1>4. ASSUME NEW x \in C, NEW y \in C, x < y
      PROVE  x <= gs[y].parent /\ gs[y].parent < y
  <2>1. x \in 1..Len(gs) /\ y \in 2..Len(gs) /\ y <= x + gs[x].size /\ gs[x].size \in Nat
    BY <1>1, <1>4, TableType
  <2>0. y \in DOMAIN gs /\ x \in DOMAIN gs /\ y # 1 BY <1>1, <2>1
  <2>2. gs[y].parent >= x BY <2>0, <2>1, <1>4 DEF PreorderTree
  <2>3. gs[y].parent \in 1..(y-1) BY <2>0 DEF PreorderTree
  <2> QED BY <2>2, <2>3, <2>1
<1> QED BY <1>2, <1>3, <1>4 DEF Covering

(* In a preorder tree, climbing parentIndex from p meets exactly the groups*)
(* whose interval covers p: the loops that fix up groupSize touch the right*)
(* groups.                                                                 *)
LEMMA ClimbCovers ==
  ASSUME NEW gs \in Seq(Group), PreorderTree(gs), NEW p \in 1..Len(gs)
  PROVE  Climb(gs, p) = Covering(gs, p)
<1>1. Len(gs) \in Nat /\ DOMAIN gs = 1..Len(gs)
  BY TableType
<1> QED BY <1>1, CoveringClosed, ClimbIs

(* What writing parentIndex changes and keeps.                             *)
LEMMA FieldsParent ==
  ASSUME NEW g \in Group, NEW q \in Nat
  PROVE  /\ WithParent(g, q) \in Group
         /\ WithParent(g, q).parent = q /\ WithParent(g, q).size = g.size
         /\ WithParent(g, q).inv = g.inv /\ WithParent(g, q).cont = g.cont
BY DEF WithParent, Group

(* What writing groupSize changes and keeps.                               *)
LEMMA FieldsSize ==
  ASSUME NEW g \in Group, NEW q \in Nat
  PROVE  /\ WithSize(g, q) \in Group
         /\ WithSize(g, q).size = q /\ WithSize(g, q).parent = g.parent
         /\ WithSize(g, q).inv = g.inv /\ WithSize(g, q).cont = g.cont
BY DEF WithSize, Group

(* What raising flags changes and keeps.                                   *)
LEMMA FieldsMarked ==
  ASSUME NEW g \in Group, NEW v \in BOOLEAN, NEW w \in BOOLEAN
  PROVE  /\ Marked(g, v, w) \in Group
         /\ Marked(g, v, w).size = g.size /\ Marked(g, v, w).parent = g.parent
         /\ Marked(g, v, w).inv = (g.inv \/ v)
         /\ Marked(g, v, w).cont = (g.cont \/ w)
BY DEF Marked, Group

(* What clearing both flags changes and keeps.                             *)
LEMMA FieldsSettled ==
  ASSUME NEW g \in Group
  PROVE  /\ Settled(g) \in Group
         /\ Settled(g).size = g.size /\ Settled(g).parent = g.parent
         /\ ~Settled(g).inv /\ ~Settled(g).cont
BY DEF Settled, Group

(* The groups strictly above r are those before it that cover it.          *)
LEMMA ClimbAbove ==
  ASSUME NEW gs \in Seq(Group), PreorderTree(gs), NEW r \in 2..Len(gs)
  PROVE  /\ gs[r].parent \in 1..(r-1)
         /\ Climb(gs, gs[r].parent) = {a \in 1..(r - 1) : r <= a + gs[a].size}
<1>1. Len(gs) \in Nat /\ DOMAIN gs = 1..Len(gs)
  BY TableType
<1>2. gs[r].parent \in 1..(r-1) /\ r <= gs[r].parent + gs[gs[r].parent].size
  BY <1>1 DEF PreorderTree
<1> DEFINE q == gs[r].parent
<1>3. q \in 1..Len(gs) /\ gs[q].size \in Nat BY <1>2, <1>1, TableType
<1>4. ASSUME NEW a \in 1..q, q <= a + gs[a].size PROVE r <= a + gs[a].size
  <2>1. a \in 1..Len(gs) /\ gs[a].size \in Nat BY <1>3, TableType
  <2>2. CASE a = q BY <2>2, <1>2
  <2>3. CASE a < q
    <3>1. q + gs[q].size <= a + gs[a].size BY <2>1, <2>3, <1>4, <1>1, <1>3 DEF PreorderTree
    <3> QED BY <3>1, <1>2, <1>3, <2>1
  <2> QED BY <2>2, <2>3, <1>3
<1>5. ASSUME NEW a \in 1..(r-1), r <= a + gs[a].size PROVE a <= q /\ q <= a + gs[a].size
  <2>1. a \in 1..Len(gs) /\ gs[a].size \in Nat BY <1>1, TableType
  <2>0. a \in DOMAIN gs /\ r \in DOMAIN gs /\ a < r BY <1>1, <2>1
  <2>2. gs[r].parent >= a BY <2>0, <1>5 DEF PreorderTree
  <2> QED BY <2>1, <2>2, <1>2, <1>5, <1>3
<1>6. Covering(gs, q) = {a \in 1..(r - 1) : r <= a + gs[a].size}
  BY <1>4, <1>5, <1>2, <1>3 DEF Covering
<1> QED BY <1>6, <1>2, <1>3, ClimbCovers

(* The table after CelsEnterComposable inserts a group at the cursor.      *)
LEMMA InsertFacts ==
  ASSUME NEW gs \in Seq(Group), PreorderTree(gs), NEW p \in 1..Len(gs), NEW c \in Nat,
         Place(Len(gs), Siz(gs), p, c), NEW k \in Keys, NEW id \in Nat,
         NEW hs, hs = InsertGroup(gs, c, p, k, id)
  PROVE  /\ hs \in Seq(Group)
         /\ Len(hs) = Len(gs) + 1
         /\ c \in 2..Len(hs)
         /\ PreorderTree(hs)
         /\ hs[c].parent = p /\ hs[c].size = 0 /\ ~hs[c].inv /\ ~hs[c].cont
         /\ \A i \in 1..(c - 1) :
              /\ hs[i].parent = gs[i].parent
              /\ hs[i].inv = gs[i].inv /\ hs[i].cont = gs[i].cont
              /\ hs[i].size = IF i <= p /\ p <= i + gs[i].size
                              THEN gs[i].size + 1 ELSE gs[i].size
         /\ \A i \in c..Len(gs) :
              /\ hs[i + 1].inv = gs[i].inv /\ hs[i + 1].cont = gs[i].cont
              /\ hs[i + 1].size = gs[i].size
<1> DEFINE n == Len(gs)
           os == OpenAt(gs, c, NewGroup(k, id, p))
<1>1. n \in Nat /\ DOMAIN gs = 1..n BY TableType
<1>2. p < c /\ c \in 2..(n+1)
  <2>1. p + gs[p].size <= n /\ gs[p].size \in Nat BY <1>1, TableType DEF PreorderTree
  <2>2. p < c /\ c <= p + 1 + gs[p].size BY TableTree DEF Place
  <2> QED BY <2>1, <2>2, <1>1
<1>3. DOMAIN os = 1..(n+1) BY <1>1 DEF OpenAt
<1>4. \A i \in 1..(c-1) : os[i] = gs[i] BY <1>1, <1>2 DEF OpenAt
<1>5. os[c] = NewGroup(k, id, p) BY <1>1, <1>2 DEF OpenAt
<1>6. ASSUME NEW i \in c..n
      PROVE  os[i+1] = WithParent(gs[i], IF gs[i].parent >= c THEN gs[i].parent + 1 ELSE gs[i].parent)
  <2>1. i + 1 \in 1..(n+1) /\ i + 1 # c /\ ~(i + 1 < c) /\ (i + 1) - 1 = i BY <1>1, <1>2
  <2> QED BY <2>1 DEF OpenAt
<1>7. Climb(os, p) = Covering(gs, p)
  <2> DEFINE C == Covering(gs, p)
  <2>1. p \in 1..(n+1) /\ n + 1 \in Nat BY <1>1
  <2>2. C \in SUBSET (1..p) /\ p \in C BY CoveringClosed
  <2>3. \A x \in C : x \in 1..(c-1) BY <2>2, <1>2
  <2>4. \A x \in C : os[x] = gs[x] BY <1>4, <2>3
  <2>5. \A x \in C : os[x].parent \in C BY <2>4, CoveringClosed
  <2>6. \A x, y \in C : x < y => x <= os[y].parent /\ os[y].parent < y
    BY <2>4, CoveringClosed
  <2> HIDE DEF os, n, C
  <2>7. Climb(os, p) = C BY <2>1, <2>2, <2>5, <2>6, <1>3, ClimbIs
  <2> QED BY <2>7 DEF C
<1>8. hs = Grow(os, Covering(gs, p))
  BY <1>7 DEF InsertGroup
<1>9. DOMAIN hs = 1..(n+1) /\ \A i \in 1..(n+1) :
         hs[i] = IF i \in Covering(gs, p) THEN WithSize(os[i], os[i].size + 1) ELSE os[i]
  BY <1>8, <1>3 DEF Grow
<1>10. Covering(gs, p) \subseteq 1..(c-1) BY <1>2 DEF Covering
<1>11. ASSUME NEW i \in 1..(c - 1)
       PROVE  /\ hs[i] \in Group
              /\ hs[i].parent = gs[i].parent
              /\ hs[i].inv = gs[i].inv /\ hs[i].cont = gs[i].cont
              /\ hs[i].size = IF i <= p /\ p <= i + gs[i].size
                              THEN gs[i].size + 1 ELSE gs[i].size
  <2>1. i \in 1..n /\ i \in 1..(n+1) /\ os[i] = gs[i] BY <1>1, <1>2, <1>4
  <2>2. gs[i] \in Group /\ gs[i].size + 1 \in Nat BY <2>1, TableType
  <2>3. CASE i \in Covering(gs, p)
    <3>1. hs[i] = WithSize(gs[i], gs[i].size + 1) BY <2>1, <2>3, <1>9
    <3>2. i <= p /\ p <= i + gs[i].size BY <2>3 DEF Covering
    <3>3. /\ WithSize(gs[i], gs[i].size + 1) \in Group
          /\ WithSize(gs[i], gs[i].size + 1).size = gs[i].size + 1
          /\ WithSize(gs[i], gs[i].size + 1).parent = gs[i].parent
          /\ WithSize(gs[i], gs[i].size + 1).inv = gs[i].inv
          /\ WithSize(gs[i], gs[i].size + 1).cont = gs[i].cont
      BY <2>2, FieldsSize
    <3> QED BY <3>1, <3>2, <3>3
  <2>4. CASE i \notin Covering(gs, p)
    <3>1. hs[i] = gs[i] BY <2>1, <2>4, <1>9
    <3> QED BY <3>1, <2>2, <2>4 DEF Covering
  <2> QED BY <2>3, <2>4
<1>12. /\ hs[c] \in Group
       /\ hs[c].parent = p /\ hs[c].size = 0 /\ ~hs[c].inv /\ ~hs[c].cont
  <2>1. hs[c] = NewGroup(k, id, p) BY <1>9, <1>10, <1>5, <1>2
  <2> QED BY <2>1, <1>1 DEF NewGroup, Group
<1>13. ASSUME NEW i \in c..n
       PROVE  /\ hs[i + 1] \in Group
              /\ hs[i + 1].inv = gs[i].inv /\ hs[i + 1].cont = gs[i].cont
              /\ hs[i + 1].size = gs[i].size
              /\ hs[i + 1].parent = IF gs[i].parent >= c THEN gs[i].parent + 1
                                    ELSE gs[i].parent
  <2>1. i \in 1..n /\ i + 1 \in 1..(n+1) /\ i + 1 \notin Covering(gs, p)
    BY <1>1, <1>2, <1>10
  <2>2. hs[i + 1] = os[i + 1] BY <2>1, <1>9
  <2>3. gs[i] \in Group /\ gs[i].parent \in Nat BY <2>1, TableType
  <2>4. PICK q \in Nat : q = IF gs[i].parent >= c THEN gs[i].parent + 1 ELSE gs[i].parent
    BY <2>3
  <2>5. os[i + 1] = WithParent(gs[i], q) BY <2>4, <1>6
  <2> HIDE DEF os
  <2>6. hs[i + 1] = WithParent(gs[i], q) BY <2>2, <2>5
  <2>7. /\ WithParent(gs[i], q) \in Group
        /\ WithParent(gs[i], q).parent = q /\ WithParent(gs[i], q).size = gs[i].size
        /\ WithParent(gs[i], q).inv = gs[i].inv /\ WithParent(gs[i], q).cont = gs[i].cont
    BY <2>3, FieldsParent
  <2> QED BY <2>4, <2>6, <2>7
<1>14. hs \in [1..(n+1) -> Group]
  <2>1. hs = [i \in 1..(n+1) |-> hs[i]] BY <1>8, <1>3 DEF Grow
  <2>2. ASSUME NEW i \in 1..(n+1) PROVE hs[i] \in Group
    <3>1. CASE i < c BY <3>1, <1>11
    <3>2. CASE i = c BY <3>2, <1>12
    <3>3. CASE i > c 
      <4>1. i - 1 \in c..n /\ (i - 1) + 1 = i BY <3>3, <1>2, <1>1
      <4> QED BY <4>1, <1>13
    <3> QED BY <3>1, <3>2, <3>3, <1>2
  <2> HIDE DEF n
  <2> QED BY <2>1, <2>2
<1>15. hs \in Seq(Group) /\ Len(hs) = n + 1
  BY <1>14, <1>1, SeqOfFcn
<1>16. Inserted(n, Par(gs), Siz(gs), Par(hs), Siz(hs), p, c)
  <2>1. \A i \in 1..n : Par(gs)[i] = gs[i].parent /\ Siz(gs)[i] = gs[i].size BY TableTree
  <2>2. \A i \in 1..(n+1) : Par(hs)[i] = hs[i].parent /\ Siz(hs)[i] = hs[i].size BY TableTree, <1>15
  <2>3. \A i \in 1..(c-1) : i \in 1..n /\ i \in 1..(n+1) BY <1>1, <1>2
  <2>4. \A i \in c..n : i \in 1..n /\ i + 1 \in 1..(n+1) BY <1>1, <1>2
  <2> HIDE DEF n, os
  <2>5. Par(hs)[c] = p /\ Siz(hs)[c] = 0 BY <2>2, <1>12, <1>2
  <2>6. \A i \in 1..(c-1) : Par(hs)[i] = Par(gs)[i]
                /\ Siz(hs)[i] = IF i <= p /\ p <= i + Siz(gs)[i] THEN Siz(gs)[i] + 1 ELSE Siz(gs)[i]
    BY <2>1, <2>2, <2>3, <1>11
  <2>7. \A i \in c..n : Par(hs)[i+1] = (IF Par(gs)[i] >= c THEN Par(gs)[i] + 1 ELSE Par(gs)[i])
                /\ Siz(hs)[i+1] = Siz(gs)[i]
    BY <2>1, <2>2, <2>4, <1>13
  <2> QED BY <2>5, <2>6, <2>7 DEF Inserted
<1>17. PreorderTree(hs)
  <2>1. Tree(n, Par(gs), Siz(gs)) /\ Arrays(n, Par(gs), Siz(gs)) BY TableTree
  <2>2. Tree(n + 1, Par(hs), Siz(hs)) BY <2>1, <1>1, <1>16, InsertTree
  <2> QED BY <2>2, <1>15, TableTree
<1> QED BY <1>2, <1>11, <1>12, <1>13, <1>15, <1>17

(* The groups behind a pruned subtree move k places towards the front.     *)
LEMMA Backward ==
  ASSUME NEW n \in Nat, NEW r \in Nat \ {0}, NEW k \in Nat, NEW i \in (r + k)..n
  PROVE  i \in 1..n /\ i - k \in 1..(n - k) /\ (i - k) + k = i /\ ~(i - k < r)
OBVIOUS

(* A subtree of k groups at m ends inside a table of n.                    *)
LEMMA PastLast ==
  ASSUME NEW n \in Nat, NEW m \in Nat, NEW u \in Nat, m + u <= n, NEW k, k = 1 + u
  PROVE  k \in Nat \ {0} /\ m + k <= n + 1
OBVIOUS

(* Pruning the root empties the table.                                     *)
LEMMA PruneRoot ==
  ASSUME NEW gs \in Seq(Group), PreorderTree(gs), Len(gs) >= 1
  PROVE  PruneSubtree(gs, 1) = <<>>
<1>1. Len(gs) \in Nat /\ 1 \in DOMAIN gs /\ gs[1].size = Len(gs) - 1
  BY TableType DEF PreorderTree
<1>2. Shrink(gs, {}, 1 + gs[1].size) = gs
  <2>1. DOMAIN gs = 1..Len(gs) /\ gs = [i \in 1..Len(gs) |-> gs[i]] BY LenProperties
  <2> QED BY <2>1 DEF Shrink
<1>3. PruneSubtree(gs, 1) = CloseUp(gs, 1, Len(gs))
  BY <1>1, <1>2 DEF PruneSubtree
<1>4. CloseUp(gs, 1, Len(gs)) \in [1..0 -> Group]
  BY <1>1 DEF CloseUp
<1>5. CloseUp(gs, 1, Len(gs)) \in Seq(Group) /\ Len(CloseUp(gs, 1, Len(gs))) = 0
  BY <1>4, SeqOfFcn
<1> QED BY <1>3, <1>5, EmptySeq

(* The table after CelsPruneSubtree of a group that is not the root.       *)
LEMMA PruneFacts ==
  ASSUME NEW gs \in Seq(Group), PreorderTree(gs), NEW r \in 2..Len(gs),
         NEW hs, hs = PruneSubtree(gs, r), NEW k, k = 1 + gs[r].size
  PROVE  /\ k \in Nat \ {0}
         /\ r + k <= Len(gs) + 1
         /\ hs \in Seq(Group)
         /\ Len(hs) = Len(gs) - k
         /\ PreorderTree(hs)
         /\ \A i \in 1..(r - 1) :
              /\ hs[i].parent = gs[i].parent
              /\ hs[i].size = IF r <= i + gs[i].size THEN gs[i].size - k ELSE gs[i].size
         /\ \A i \in 1..Len(hs) :
              /\ Before(i, r, k) \in 1..Len(gs)
              /\ hs[i].inv = gs[Before(i, r, k)].inv
              /\ hs[i].cont = gs[Before(i, r, k)].cont
         /\ \A i, j \in 1..Len(hs) : i < j /\ j <= i + hs[i].size =>
              /\ Before(i, r, k) < Before(j, r, k)
              /\ Before(j, r, k) <= Before(i, r, k) + gs[Before(i, r, k)].size
<1> DEFINE n == Len(gs)
           A == {a \in 1..(r - 1) : r <= a + gs[a].size}
           os == Shrink(gs, A, k)
<1>1. n \in Nat /\ DOMAIN gs = 1..n /\ r \in 2..n BY TableType
<1>2. k \in Nat \ {0} /\ r + k <= n + 1 /\ n - k \in Nat /\ r - 1 <= n - k
  <2>1. gs[r].size \in Nat /\ r + gs[r].size <= n BY <1>1, TableType DEF PreorderTree
  <2> QED BY <2>1, <1>1
<1>3. hs = CloseUp(os, r, k)
  <2>1. Climb(gs, gs[r].parent) = A BY ClimbAbove
  <2>2. r > 1 BY <1>1
  <2> HIDE DEF A
  <2> QED BY <2>1, <2>2 DEF PruneSubtree
<1>4. ASSUME NEW i \in 1..n
      PROVE  os[i] = IF i \in A THEN WithSize(gs[i], gs[i].size - k) ELSE gs[i]
  BY <1>1 DEF Shrink
<1>5. DOMAIN os = 1..n BY <1>1 DEF Shrink
<1>6. ASSUME NEW i \in A PROVE gs[i].size - k \in Nat
  <2>0. i \in 1..n /\ i < r /\ r <= i + gs[i].size BY <1>1
  <2>1. gs[i].size \in Nat /\ gs[r].size \in Nat BY <2>0, <1>1, TableType
  <2>2. r + gs[r].size <= i + gs[i].size BY <1>1, <2>0 DEF PreorderTree
  <2> QED BY <2>0, <2>1, <2>2, <1>1
<1>7. ASSUME NEW i \in 1..n
      PROVE  /\ os[i] \in Group /\ os[i].parent = gs[i].parent
             /\ os[i].inv = gs[i].inv /\ os[i].cont = gs[i].cont
             /\ os[i].size = IF i \in A THEN gs[i].size - k ELSE gs[i].size
  <2>1. gs[i] \in Group BY TableType
  <2>2. CASE i \in A
    <3>1. PICK q \in Nat : q = gs[i].size - k BY <1>6, <2>2
    <3>2. os[i] = WithSize(gs[i], q) BY <3>1, <1>4, <2>2
    <3>3. /\ WithSize(gs[i], q) \in Group /\ WithSize(gs[i], q).size = q
          /\ WithSize(gs[i], q).parent = gs[i].parent
          /\ WithSize(gs[i], q).inv = gs[i].inv /\ WithSize(gs[i], q).cont = gs[i].cont
      BY <2>1, FieldsSize
    <3> HIDE DEF os, A
    <3> QED BY <3>1, <3>2, <3>3, <2>2
  <2>3. CASE i \notin A
    <3>1. os[i] = gs[i] BY <1>4, <2>3
    <3> HIDE DEF os, A
    <3> QED BY <3>1, <2>1, <2>3
  <2> QED BY <2>2, <2>3
<1>8. os \in Seq(Group) /\ Len(os) = n
  <2>1. os = [i \in 1..n |-> os[i]] BY <1>1 DEF Shrink
  <2> HIDE DEF os, n
  <2>2. os \in [1..n -> Group] BY <2>1, <1>7
  <2> QED BY <2>2, <1>1, SeqOfFcn
<1>9. DOMAIN hs = 1..(n - k) /\ \A i \in 1..(n - k) :
        hs[i] = IF i < r THEN os[i]
                ELSE WithParent(os[i + k],
                       IF os[i + k].parent >= r + k THEN os[i + k].parent - k
                       ELSE os[i + k].parent)
  <2> HIDE DEF os
  <2> QED BY <1>3, <1>8 DEF CloseUp
<1>10. ASSUME NEW i \in 1..(r - 1)
       PROVE  /\ hs[i] \in Group /\ hs[i].parent = gs[i].parent
              /\ hs[i].inv = gs[i].inv /\ hs[i].cont = gs[i].cont
              /\ hs[i].size = IF r <= i + gs[i].size THEN gs[i].size - k ELSE gs[i].size
  <2>1. i \in 1..n /\ i \in 1..(n - k) BY <1>1, <1>2
  <2>2. i \in A <=> r <= i + gs[i].size OBVIOUS
  <2> HIDE DEF os, A
  <2>3. hs[i] = os[i] BY <2>1, <1>9
  <2> QED BY <2>1, <2>2, <2>3, <1>7
<1>11. ASSUME NEW i \in (r + k)..n
       PROVE  /\ hs[i - k] \in Group
              /\ hs[i - k].inv = gs[i].inv /\ hs[i - k].cont = gs[i].cont
              /\ hs[i - k].size = gs[i].size
              /\ hs[i - k].parent = IF gs[i].parent >= r + k THEN gs[i].parent - k
                                    ELSE gs[i].parent
  <2>0. ~(i \in A) BY <1>1, <1>2
  <2> HIDE DEF n, os, A
  <2>a. n \in Nat /\ r \in Nat \ {0} /\ k \in Nat BY <1>1, <1>2
  <2>1. i \in 1..n /\ i - k \in 1..(n - k) /\ (i - k) + k = i /\ ~(i - k < r) /\ ~(i \in A)
    BY <2>0, <2>a, Backward
  <2>2. hs[i - k] = WithParent(os[i],
                       IF os[i].parent >= r + k THEN os[i].parent - k ELSE os[i].parent)
    BY <2>1, <1>9
  <2>3. os[i] \in Group /\ gs[i].parent \in Nat BY <2>1, <1>7, TableType DEF n
  <2>4. PICK q \in Nat : q = IF gs[i].parent >= r + k THEN gs[i].parent - k ELSE gs[i].parent
    BY <2>3, <1>1, <1>2
  <2>5. hs[i - k] = WithParent(os[i], q) BY <2>2, <2>4, <2>1, <1>7
  <2>6. /\ WithParent(os[i], q) \in Group /\ WithParent(os[i], q).size = os[i].size
        /\ WithParent(os[i], q).parent = q
        /\ WithParent(os[i], q).inv = os[i].inv /\ WithParent(os[i], q).cont = os[i].cont
    BY <2>3, FieldsParent
  <2> QED BY <2>1, <2>4, <2>5, <2>6, <1>7
<1>12. ASSUME NEW i \in 1..(n - k)
       PROVE  /\ Before(i, r, k) \in 1..n
              /\ hs[i] \in Group
              /\ hs[i].inv = gs[Before(i, r, k)].inv
              /\ hs[i].cont = gs[Before(i, r, k)].cont
  <2>1. CASE i < r
    <3>1. Before(i, r, k) = i /\ i \in 1..(r-1) /\ i \in 1..n BY <2>1, <1>1, <1>2 DEF Before
    <3> QED BY <3>1, <1>10
  <2>2. CASE i >= r
    <3>1. Before(i, r, k) = i + k /\ i + k \in (r+k)..n /\ i + k \in 1..n /\ (i + k) - k = i
      BY <2>2, <1>1, <1>2 DEF Before
    <3> QED BY <3>1, <1>11
  <2> QED BY <2>1, <2>2, <1>1, <1>2
<1>13. hs \in Seq(Group) /\ Len(hs) = n - k
  <2>1. hs = [i \in 1..(n-k) |-> hs[i]]
    <3> HIDE DEF os
    <3> QED BY <1>3, <1>8 DEF CloseUp
  <2> HIDE DEF n
  <2>2. hs \in [1..(n-k) -> Group] BY <2>1, <1>12
  <2> QED BY <2>2, <1>2, SeqOfFcn
<1>14. Removed(n, Par(gs), Siz(gs), Par(hs), Siz(hs), r, k)
  <2>1. \A i \in 1..n : Par(gs)[i] = gs[i].parent /\ Siz(gs)[i] = gs[i].size BY TableTree
  <2>2. \A i \in 1..(n-k) : Par(hs)[i] = hs[i].parent /\ Siz(hs)[i] = hs[i].size BY TableTree, <1>13
  <2> HIDE DEF n, os
  <2>5. n \in Nat /\ r \in Nat \ {0} /\ k \in Nat /\ r - 1 <= n - k BY <1>1, <1>2
  <2>3. \A i \in 1..(r-1) : i \in 1..n /\ i \in 1..(n-k) BY <2>5
  <2>4. ASSUME NEW i \in (r+k)..n PROVE i \in 1..n /\ i - k \in 1..(n-k)
    BY <2>5, Backward
  <2>6. \A i \in 1..(r-1) : Par(hs)[i] = Par(gs)[i]
                /\ Siz(hs)[i] = IF r <= i + Siz(gs)[i] THEN Siz(gs)[i] - k ELSE Siz(gs)[i]
    BY <2>1, <2>2, <2>3, <1>10
  <2>7. \A i \in (r+k)..n : Par(hs)[i-k] = (IF Par(gs)[i] >= r+k THEN Par(gs)[i] - k ELSE Par(gs)[i])
                /\ Siz(hs)[i-k] = Siz(gs)[i]
    BY <2>1, <2>2, <2>4, <1>11
  <2> QED BY <2>6, <2>7 DEF Removed
<1>15. k = 1 + Siz(gs)[r] /\ Tree(n, Par(gs), Siz(gs)) /\ Arrays(n, Par(gs), Siz(gs))
  BY TableTree, <1>1
<1>16. /\ Tree(n - k, Par(hs), Siz(hs))
       /\ \A i, j \in 1..(n - k) : i < j /\ j <= i + Siz(hs)[i] =>
              Before(i, r, k) < Before(j, r, k) /\ Before(j, r, k) <= Before(i, r, k) + Siz(gs)[Before(i, r, k)]
  BY <1>1, <1>14, <1>15, RemoveTree
<1>17. PreorderTree(hs)
  BY <1>16, <1>13, TableTree
<1>18. \A i, j \in 1..(n - k) : i < j /\ j <= i + hs[i].size =>
              /\ Before(i, r, k) < Before(j, r, k)
              /\ Before(j, r, k) <= Before(i, r, k) + gs[Before(i, r, k)].size
  <2>1. \A i \in 1..n : Siz(gs)[i] = gs[i].size BY TableTree
  <2>2. \A i \in 1..(n-k) : Siz(hs)[i] = hs[i].size BY TableTree, <1>13
  <2> QED BY <2>1, <2>2, <1>12, <1>16
<1> QED BY <1>2, <1>10, <1>12, <1>13, <1>17, <1>18

(* Everything the sibling search of CelsEnterComposable                    *)
(* (session.c:1235-1242) looks at is a child of the running group.         *)
LEMMA SiblingFacts ==
  ASSUME NEW gs \in Seq(Group), PreorderTree(gs), NEW p \in 1..Len(gs), NEW c \in Nat,
         Place(Len(gs), Siz(gs), p, c),
         NEW m \in Siblings(gs, c, p + 1 + gs[p].size)
  PROVE  /\ c \in 2..Len(gs) /\ m \in c..Len(gs)
         /\ SiblingFrom(Len(gs), Par(gs), Siz(gs), p, c, m)
<1> DEFINE n == Len(gs)
           P == Par(gs)
           Z == Siz(gs)
           e == p + 1 + gs[p].size
           S == {x \in c..(e - 1) : SiblingFrom(n, P, Z, p, c, x)}
<1>1. n \in Nat /\ Arrays(n, P, Z) /\ Tree(n, P, Z) BY TableTree, TableType
<1>2. /\ \A i \in 1..n : P[i] = gs[i].parent /\ Z[i] = gs[i].size
      /\ \A i \in 1..n : gs[i].size \in Nat /\ i + gs[i].size <= n
  BY TableTree, TableType DEF PreorderTree
<1>3. m \in c..(e - 1) BY DEF Siblings
<1>4. p < c /\ e \in Nat /\ e <= n + 1 /\ Z[p] = gs[p].size /\ gs[p].size \in Nat
  BY <1>2, <1>1 DEF Place
<1>5. c \in S
  <2>1. c <= p + Z[p] /\ c \in c..(e - 1) BY <1>3, <1>4
  <2> HIDE DEF n, P, Z
  <2>2. SiblingFrom(n, P, Z, p, c, c) BY <2>1, <1>1, CursorIsSibling DEF n, P, Z
  <2> QED BY <2>1, <2>2
<1>6. ASSUME NEW x \in S, x + 1 + gs[x].size < e PROVE x + 1 + gs[x].size \in S
  <2>1. SiblingFrom(n, P, Z, p, c, x) /\ x \in 1..n /\ x \in c..(e-1) BY <1>3, <1>4
  <2>2. Z[x] = gs[x].size /\ gs[x].size \in Nat BY <2>1, <1>2
  <2>3. x + 1 + Z[x] <= p + Z[p]
    <3>1. x \in Nat /\ p \in Nat BY <2>1
    <3>2. x + 1 + gs[x].size < p + 1 + gs[p].size BY <1>6
    <3>3. Z[x] = gs[x].size /\ Z[p] = gs[p].size BY <2>2, <1>4
    <3> HIDE DEF n, P, Z, S, e
    <3>4. PICK u \in Nat : u = gs[x].size BY <2>2
    <3>5. PICK v \in Nat : v = gs[p].size BY <1>4
    <3>7. x + 1 + u < p + 1 + v BY <3>2, <3>4, <3>5
    <3>6. x + 1 + u <= p + v BY <3>1, <3>7
    <3> QED BY <3>3, <3>4, <3>5, <3>6
  <2>4. SiblingFrom(n, P, Z, p, c, x + 1 + Z[x])
    <3> HIDE DEF n, P, Z
    <3> QED BY <2>1, <2>3, <1>1, NextIsSibling DEF n, P, Z
  <2>5. PICK y \in Nat : y = x + 1 + gs[x].size BY <2>1, <2>2
  <2>8. y < e /\ e \in Nat BY <2>5, <1>6, <1>4
  <2>9. y >= c BY <2>1, <2>2, <2>5
  <2>6. y \in c..(e - 1)
    <3> HIDE DEF e
    <3> QED BY <2>8, <2>9
  <2>7. SiblingFrom(n, P, Z, p, c, y) BY <2>2, <2>4, <2>5
  <2> QED BY <2>5, <2>6, <2>7
<1>7. m \in S
  <2>1. S \in SUBSET (c..(e - 1)) OBVIOUS
  <2> HIDE DEF S
  <2> QED BY <2>1, <1>5, <1>6 DEF Siblings
<1> QED BY <1>3, <1>4, <1>7, <1>1

(* The renumberings of a relocation stay inside the table and do not touch *)
(* what is before the cursor.                                              *)
LEMMA MovedRange ==
  ASSUME NEW n \in Nat, NEW c \in 2..n, NEW m \in c..n, NEW k \in Nat \ {0},
         m + k <= n + 1
  PROVE  \A i \in 1..n : /\ MovedFrom(i, m, c, k) \in 1..n
                         /\ MovedTo(i, m, c, k) \in 1..n
                         /\ i >= c => MovedFrom(i, m, c, k) >= c
                         /\ i < c => MovedFrom(i, m, c, k) = i /\ MovedTo(i, m, c, k) = i
BY DEF MovedFrom, MovedTo

(* The table after CelsEnterComposable relocates a sibling to the cursor.  *)
LEMMA MoveFacts ==
  ASSUME NEW gs \in Seq(Group), PreorderTree(gs), NEW p \in 1..Len(gs), NEW c \in Nat,
         Place(Len(gs), Siz(gs), p, c),
         NEW m \in Siblings(gs, c, p + 1 + gs[p].size),
         NEW hs, hs = MoveSubtree(gs, m, c), NEW k, k = 1 + gs[m].size
  PROVE  /\ hs \in Seq(Group)
         /\ Len(hs) = Len(gs)
         /\ PreorderTree(hs)
         /\ \A i \in 1..(c - 1) : hs[i] = gs[i]
         /\ hs[c].parent = p
         /\ \A i \in 1..Len(hs) :
              /\ MovedFrom(i, m, c, k) \in 1..Len(gs)
              /\ i >= c => MovedFrom(i, m, c, k) >= c
              /\ hs[i].inv = gs[MovedFrom(i, m, c, k)].inv
              /\ hs[i].cont = gs[MovedFrom(i, m, c, k)].cont
         /\ \A i, j \in 1..Len(hs) : i < j /\ j <= i + hs[i].size =>
              /\ MovedFrom(i, m, c, k) < MovedFrom(j, m, c, k)
              /\ MovedFrom(j, m, c, k) <= MovedFrom(i, m, c, k) + gs[MovedFrom(i, m, c, k)].size
<1> DEFINE n == Len(gs)
           P == Par(gs)
           Z == Siz(gs)
           Q == Par(hs)
           Y == Siz(hs)
           F(i) == MovedFrom(i, m, c, k)
           T(i) == MovedTo(i, m, c, k)
<1>1. n \in Nat /\ Arrays(n, P, Z) /\ Tree(n, P, Z) /\ DOMAIN gs = 1..n BY TableTree, TableType
<1>2. \A i \in 1..n : /\ P[i] = gs[i].parent /\ Z[i] = gs[i].size
                      /\ gs[i] \in Group /\ gs[i].size \in Nat
                      /\ gs[i].parent \in 1..n
                      /\ i > 1 => gs[i].parent < i
                      /\ gs[1].parent = 1
                      /\ i + gs[i].size <= n
  <2>1. \A i \in 1..n : P[i] = gs[i].parent /\ Z[i] = gs[i].size /\ gs[i] \in Group /\ gs[i].size \in Nat
    BY TableTree, TableType
  <2>2. \A i \in 1..n : i + gs[i].size <= n BY <1>1 DEF PreorderTree
  <2>3. \A i \in 2..n : gs[i].parent \in 1..(i-1) BY <1>1 DEF PreorderTree
  <2>4. n >= 1 /\ gs[1].parent = 1 BY <1>1 DEF PreorderTree
  <2> HIDE DEF n, P, Z
  <2>5. ASSUME NEW i \in 1..n PROVE gs[i].parent \in 1..n /\ (i > 1 => gs[i].parent < i)
    <3>1. CASE i = 1 BY <3>1, <2>4, <1>1
    <3>2. CASE i # 1
      <4>1. i \in 2..n BY <3>2
      <4> QED BY <4>1, <2>3, <1>1
    <3> QED BY <3>1, <3>2
  <2> SUFFICES ASSUME NEW i \in 1..n
               PROVE  /\ P[i] = gs[i].parent /\ Z[i] = gs[i].size
                      /\ gs[i] \in Group /\ gs[i].size \in Nat
                      /\ gs[i].parent \in 1..n /\ (i > 1 => gs[i].parent < i)
                      /\ gs[1].parent = 1 /\ i + gs[i].size <= n
    OBVIOUS
  <2>6. P[i] = gs[i].parent /\ Z[i] = gs[i].size /\ gs[i] \in Group /\ gs[i].size \in Nat
    BY <2>1
  <2>7. gs[i].parent \in 1..n /\ (i > 1 => gs[i].parent < i) BY <2>5
  <2>8. gs[1].parent = 1 /\ i + gs[i].size <= n BY <2>2, <2>4
  <2> QED BY <2>6, <2>7, <2>8
<1>3. c \in 2..n /\ m \in c..n /\ P[m] = p /\ \A i \in c..(m - 1) : i + Z[i] < m
  BY SiblingFacts DEF SiblingFrom
<1>4. k \in Nat \ {0} /\ m + k <= n + 1 /\ k = 1 + Z[m]
  <2> HIDE DEF n, P, Z
  <2>1. m \in 1..n /\ n \in Nat BY <1>3, <1>1
  <2>2. gs[m].size \in Nat /\ m + gs[m].size <= n /\ Z[m] = gs[m].size BY <2>1, <1>2
  <2>3. m \in Nat BY <2>1
  <2>4. k \in Nat \ {0} /\ m + k <= n + 1 BY <2>1, <2>2, <2>3, PastLast
  <2> QED BY <2>2, <2>4
<1>5. \A i \in 1..n : F(i) \in 1..n /\ T(i) \in 1..n
  <2> HIDE DEF n, P, Z, Q, Y
  <2>0. c \in 2..n /\ m \in c..n /\ n \in Nat /\ k \in Nat \ {0} /\ m + k <= n + 1
    <3>1. n \in Nat BY <1>1
    <3>2. c \in 2..n /\ m \in c..n BY <1>3
    <3> QED BY <3>1, <3>2, <1>4
  <2> QED BY <2>0, MovedRange
<1>6. DOMAIN hs = 1..n /\ hs = [i \in 1..n |-> hs[i]] /\ \A i \in 1..n :
        hs[i] = WithParent(gs[F(i)], T(gs[F(i)].parent))
  BY <1>1 DEF MoveSubtree
<1>7. ASSUME NEW i \in 1..n
      PROVE  /\ hs[i] \in Group
             /\ hs[i].parent = T(gs[F(i)].parent)
             /\ hs[i].size = gs[F(i)].size
             /\ hs[i].inv = gs[F(i)].inv
             /\ hs[i].cont = gs[F(i)].cont
  <2>0. F(i) \in 1..n BY <1>5
  <2>1. gs[F(i)] \in Group /\ gs[F(i)].parent \in 1..n BY <1>2, <2>0
  <2>2. T(gs[F(i)].parent) \in 1..n BY <1>5, <2>1
  <2> HIDE DEF F, T, n
  <2>3. hs[i] = WithParent(gs[F(i)], T(gs[F(i)].parent)) BY <1>6
  <2>4. T(gs[F(i)].parent) \in Nat BY <2>2, <1>1
  <2> DEFINE w == WithParent(gs[F(i)], T(gs[F(i)].parent))
  <2>5. /\ w \in Group /\ w.parent = T(gs[F(i)].parent) /\ w.size = gs[F(i)].size
        /\ w.inv = gs[F(i)].inv /\ w.cont = gs[F(i)].cont
    BY <2>1, <2>4, FieldsParent
  <2> HIDE DEF w
  <2> QED BY <2>3, <2>5 DEF w
<1>8. hs \in Seq(Group) /\ Len(hs) = n
  <2> HIDE DEF n
  <2>1. hs \in [1..n -> Group] BY <1>6, <1>7
  <2> QED BY <2>1, <1>1, SeqOfFcn
<1>9. \A i \in 1..n : Q[i] = hs[i].parent /\ Y[i] = hs[i].size BY <1>8, TableTree
<1>10. Moved(n, P, Z, Q, Y, m, c, k)
  <2> SUFFICES ASSUME NEW i \in 1..n
               PROVE  Q[i] = T(P[F(i)]) /\ Y[i] = Z[F(i)]
    BY DEF Moved
  <2>1. F(i) \in 1..n BY <1>5
  <2>2. P[F(i)] = gs[F(i)].parent /\ Z[F(i)] = gs[F(i)].size BY <2>1, <1>2
  <2>3. Q[i] = T(gs[F(i)].parent) /\ Y[i] = gs[F(i)].size BY <1>9, <1>7
  <2> HIDE DEF n, P, Z, Q, Y, F, T
  <2> QED BY <2>2, <2>3
<1>11. /\ Arrays(n, Q, Y)
       /\ \A i, j \in 1..n : i < j /\ j <= i + Y[i] =>
              /\ F(i) < F(j)
              /\ F(j) <= F(i) + Z[F(i)]
       /\ Tree(n, Q, Y)
  <2> HIDE DEF n, P, Z, Q, Y
  <2>1. Place(n, Z, p, c) /\ p \in 1..n BY DEF n, Z
  <2> QED BY <2>1, <1>1, <1>3, <1>4, <1>10, MoveTree
<1>12. PreorderTree(hs) BY <1>11, <1>8, TableTree
<1>13. ASSUME NEW i \in 1..(c - 1) PROVE hs[i] = gs[i]
  <2>1. i \in 1..n /\ F(i) = i BY <1>3, <1>1 DEF MovedFrom
  <2>2. gs[i].parent \in Nat /\ gs[i].parent < c
    <3> HIDE DEF n, P, Z
    <3>1. gs[i].parent \in 1..n /\ (i > 1 => gs[i].parent < i) /\ gs[1].parent = 1
      BY <2>1, <1>2
    <3>2. CASE i = 1 BY <3>1, <3>2, <1>3
    <3>3. CASE i # 1 BY <3>1, <3>3, <1>3
    <3> QED BY <3>2, <3>3
  <2>3. T(gs[i].parent) = gs[i].parent BY <2>2 DEF MovedTo
  <2>4. hs[i] = WithParent(gs[i], gs[i].parent) BY <2>1, <2>3, <1>6
  <2>5. gs[i] \in Group BY <2>1, <1>2
  <2> QED BY <2>4, <2>5 DEF WithParent, Group
<1>14. hs[c].parent = p
  <2>1. F(c) = m BY <1>3, <1>4 DEF MovedFrom
  <2>2. gs[m].parent = p /\ p < c BY <1>3, <1>2, <1>1 DEF Place
  <2>3. T(p) = p BY <2>2 DEF MovedTo
  <2>4. hs[c].parent = T(gs[F(c)].parent) BY <1>7, <1>3, <1>1
  <2> QED BY <2>1, <2>2, <2>3, <2>4
<1>15. \A i \in 1..n : i >= c => F(i) >= c
  BY <1>1, <1>3, <1>4, SMTT(30) DEF MovedFrom
<1>16. \A i, j \in 1..n : i < j /\ j <= i + hs[i].size =>
              /\ F(i) < F(j)
              /\ F(j) <= F(i) + gs[F(i)].size
  <2> HIDE DEF n, P, Z, Q, Y, F
  <2> QED BY <1>11, <1>9, <1>2, <1>5
<1> QED BY <1>5, <1>7, <1>8, <1>12, <1>13, <1>14, <1>15, <1>16

(* The table hs is gs with other flags.                                    *)
SameShape(gs, hs) ==
  /\ Len(hs) = Len(gs)
  /\ \A i \in 1..Len(gs) : hs[i].size = gs[i].size /\ hs[i].parent = gs[i].parent

(* Flags do not matter to the tree.                                        *)
LEMMA SameShapeTree ==
  ASSUME NEW gs \in Seq(Group), NEW hs \in Seq(Group), SameShape(gs, hs), PreorderTree(gs)
  PROVE  PreorderTree(hs)
<1> DEFINE n == Len(gs)
<1>1. DOMAIN gs = 1..n /\ DOMAIN hs = 1..n /\ n \in Nat /\ Len(hs) = n
  BY TableType DEF SameShape
<1>2. \A i \in 1..n : hs[i].size = gs[i].size /\ hs[i].parent = gs[i].parent
  BY DEF SameShape
<1>3. \A i \in 2..n : gs[i].parent \in 1..n BY <1>1 DEF PreorderTree
<1> HIDE DEF n
<1>4. \A i \in 1..n : i + hs[i].size <= n
  BY <1>1, <1>2 DEF PreorderTree, n
<1>5. ASSUME NEW i \in 1..n
      PROVE  IF i = 1 THEN hs[i].parent = 1 /\ hs[i].size = n - 1
             ELSE /\ hs[i].parent \in 1..(i - 1)
                  /\ i <= hs[i].parent + hs[hs[i].parent].size
  <2>1. CASE i = 1 BY <1>1, <1>2, <2>1 DEF PreorderTree, n
  <2>2. CASE i # 1
    <3>1. gs[i].parent \in 1..(i - 1) /\ i <= gs[i].parent + gs[gs[i].parent].size
      BY <1>1, <2>2 DEF PreorderTree
    <3> QED BY <3>1, <1>2, <1>3, <1>1, <2>2
  <2> QED BY <2>1, <2>2
<1>6. \A i, j \in 1..n : i < j /\ j <= i + hs[i].size =>
       hs[j].parent >= i /\ j + hs[j].size <= i + hs[i].size
  BY <1>1, <1>2 DEF PreorderTree
<1> QED BY <1>1, <1>4, <1>5, <1>6 DEF PreorderTree

(* Draining the queue (session.c:184-217) keeps the tree, and keeps every  *)
(* group without flags free of flagged descendants: it marks the whole     *)
(* subtree of its target and everything above it.                          *)
LEMMA DrainedFacts ==
  ASSUME NEW gs \in Seq(Group), PreorderTree(gs), NEW Q, NEW hs, hs = Drained(gs, Q)
  PROVE  /\ hs \in Seq(Group)
         /\ SameShape(gs, hs)
         /\ PreorderTree(hs)
         /\ SkipSafe(gs, {}) => SkipSafe(hs, {})
<1> DEFINE n == Len(gs)
           hit == {Least(WithKey(gs, k)) : k \in {x \in Q : WithKey(gs, x) # {}}}
           In(i) == \E t \in hit : t <= i /\ i <= t + gs[t].size
           Above(i) == \E t \in hit : t > 1 /\ i \in Climb(gs, gs[t].parent)
<1>1. n \in Nat /\ DOMAIN gs = 1..n BY TableType
<1>2. hit \subseteq 1..n
  <2>1. ASSUME NEW k, WithKey(gs, k) # {} PROVE Least(WithKey(gs, k)) \in 1..n
    <3>1. WithKey(gs, k) \subseteq 1..n BY <1>1 DEF WithKey
    <3>2. WithKey(gs, k) \subseteq Nat BY <3>1, <1>1
    <3> QED BY <2>1, <3>1, <3>2, LeastIs
  <2> QED BY <2>1
<1>3. hs = [i \in 1..n |-> Marked(gs[i], In(i), Above(i))] BY <1>1 DEF Drained
<1> HIDE DEF hit, n, In, Above
<1>4. ASSUME NEW i \in 1..n
      PROVE  /\ hs[i] \in Group /\ hs[i].size = gs[i].size /\ hs[i].parent = gs[i].parent
             /\ hs[i].inv = (gs[i].inv \/ In(i)) /\ hs[i].cont = (gs[i].cont \/ Above(i))
  <2>1. gs[i] \in Group BY TableType DEF n
  <2>2. In(i) \in BOOLEAN /\ Above(i) \in BOOLEAN BY DEF In, Above
  <2>3. hs[i] = Marked(gs[i], In(i), Above(i)) BY <1>3
  <2>4. \A v, w \in BOOLEAN : 
          /\ Marked(gs[i], v, w) \in Group
          /\ Marked(gs[i], v, w).size = gs[i].size /\ Marked(gs[i], v, w).parent = gs[i].parent
          /\ Marked(gs[i], v, w).inv = (gs[i].inv \/ v)
          /\ Marked(gs[i], v, w).cont = (gs[i].cont \/ w)
    BY <2>1, FieldsMarked
  <2> QED BY <2>2, <2>3, <2>4
<1>5. hs \in Seq(Group) /\ Len(hs) = n
  <2>1. hs \in [1..n -> Group] BY <1>3, <1>4
  <2> QED BY <2>1, <1>1, SeqOfFcn
<1>6. SameShape(gs, hs) BY <1>4, <1>5 DEF SameShape, n
<1>7. PreorderTree(hs) BY <1>5, <1>6, SameShapeTree
<1>8. ASSUME SkipSafe(gs, {}) PROVE SkipSafe(hs, {})
  <2> SUFFICES ASSUME NEW i \in 1..n, NEW j \in 1..n,
                      i > 1, Clean(hs, i), i < j, j <= i + hs[i].size
               PROVE  Clean(hs, j)
    BY <1>5, TableType DEF SkipSafe
  <2>1. ~gs[i].inv /\ ~gs[i].cont /\ ~In(i) /\ ~Above(i) /\ hs[i].size = gs[i].size
    BY <1>4 DEF Clean
  <2>2. Clean(gs, j) BY <1>8, <1>1, <2>1 DEF SkipSafe, Clean, n
  <2>3. /\ gs[i].size \in Nat /\ \A t \in 1..n : gs[t].size \in Nat
        /\ \A t \in 1..n : i < t /\ t <= i + gs[i].size => t + gs[t].size <= i + gs[i].size
    BY TableType, <1>1 DEF PreorderTree, n
  <2>4. ASSUME NEW t \in hit, i < t, t <= i + gs[i].size PROVE FALSE
    <3>1. t \in 2..n BY <1>2, <2>4
    <3>2. Climb(gs, gs[t].parent) = {a \in 1..(t - 1) : t <= a + gs[a].size}
      BY <3>1, ClimbAbove DEF n
    <3>3. i \in Climb(gs, gs[t].parent) BY <3>1, <3>2, <2>4
    <3>4. Above(i) BY <3>1, <3>3 DEF Above
    <3> QED BY <3>4, <2>1
  <2>5. ASSUME In(j) PROVE FALSE
    <3>1. PICK t \in hit : t <= j /\ j <= t + gs[t].size BY <2>5 DEF In
    <3>2. t \in 1..n BY <1>2
    <3>3. CASE t <= i
      <4>1. In(i) BY <3>1, <3>2, <3>3, <2>3 DEF In
      <4> QED BY <4>1, <2>1
    <3>4. CASE i < t BY <3>1, <3>2, <3>4, <2>1, <2>3, <2>4
    <3> QED BY <3>2, <3>3, <3>4
  <2>6. ASSUME Above(j) PROVE FALSE
    <3>1. PICK t \in hit : t > 1 /\ j \in Climb(gs, gs[t].parent) BY <2>6 DEF Above
    <3>2. t \in 2..n BY <1>2, <3>1
    <3>3. Climb(gs, gs[t].parent) = {a \in 1..(t - 1) : t <= a + gs[a].size}
      BY <3>2, ClimbAbove DEF n
    <3>4. j < t /\ t <= j + gs[j].size BY <3>1, <3>2, <3>3
    <3>5. j + gs[j].size <= i + gs[i].size BY <2>1, <2>3
    <3>7. gs[j].size \in Nat /\ gs[i].size \in Nat /\ t \in Nat BY <2>3, <3>2
    <3>8. PICK u \in Nat : u = gs[j].size BY <3>7
    <3>9. PICK v \in Nat : v = gs[i].size BY <3>7
    <3>10. t <= j + u /\ j + u <= i + v BY <3>4, <3>5, <3>8, <3>9
    <3>11. t <= i + v BY <3>7, <3>10
    <3>6. i < t /\ t <= i + gs[i].size BY <3>4, <3>7, <3>9, <3>11
    <3> QED BY <3>6, <2>4
  <2> QED BY <1>4, <2>2, <2>5, <2>6 DEF Clean
<1> QED BY <1>5, <1>6, <1>7, <1>8

(* A hot reload (session.c:961-976) keeps the tree and leaves only the root*)
(* without a flag.                                                         *)
LEMMA ReloadedFacts ==
  ASSUME NEW gs \in Seq(Group), PreorderTree(gs), NEW hs, hs = Reloaded(gs)
  PROVE  /\ hs \in Seq(Group)
         /\ SameShape(gs, hs)
         /\ PreorderTree(hs)
         /\ SkipSafe(hs, {})
<1> DEFINE n == Len(gs)
<1>1. n \in Nat /\ DOMAIN gs = 1..n BY TableType
<1>3. hs = [i \in 1..n |-> Marked(gs[i], TRUE, i > 1)] BY <1>1 DEF Reloaded
<1> HIDE DEF n
<1>4. ASSUME NEW i \in 1..n
      PROVE  /\ hs[i] \in Group /\ hs[i].size = gs[i].size /\ hs[i].parent = gs[i].parent
             /\ hs[i].inv
  <2>1. gs[i] \in Group BY TableType DEF n
  <2>3. hs[i] = Marked(gs[i], TRUE, i > 1) BY <1>3
  <2>4. \A v, w \in BOOLEAN : 
          /\ Marked(gs[i], v, w) \in Group
          /\ Marked(gs[i], v, w).size = gs[i].size /\ Marked(gs[i], v, w).parent = gs[i].parent
          /\ Marked(gs[i], v, w).inv = (gs[i].inv \/ v)
    BY <2>1, FieldsMarked
  <2>5. (i > 1) \in BOOLEAN OBVIOUS
  <2> QED BY <2>3, <2>4, <2>5
<1>5. hs \in Seq(Group) /\ Len(hs) = n
  <2>1. hs \in [1..n -> Group] BY <1>3, <1>4
  <2> QED BY <2>1, <1>1, SeqOfFcn
<1>6. SameShape(gs, hs) BY <1>4, <1>5 DEF SameShape, n
<1>7. PreorderTree(hs) BY <1>5, <1>6, SameShapeTree
<1>8. SkipSafe(hs, {}) BY <1>4, <1>5, TableType DEF SkipSafe, Clean
<1> QED BY <1>5, <1>6, <1>7, <1>8

-----------------------------------------------------------------------------
(* The walk.                                                               *)

(* A boundary of a preorder tree is a place of its two fields, inside the  *)
(* table.                                                                  *)
LEMMA BoundaryPlace ==
  ASSUME NEW gs \in Seq(Group), PreorderTree(gs), NEW p \in 1..Len(gs), NEW c \in Nat,
         AtBoundary(gs, p, c)
  PROVE  /\ Place(Len(gs), Siz(gs), p, c)
         /\ c \in 2..(Len(gs) + 1)
<1> DEFINE n == Len(gs)
<1>1. n \in Nat /\ DOMAIN gs = 1..n /\ \A i \in 1..n : gs[i].size \in Nat BY TableType
<1>2. p + gs[p].size <= n BY <1>1 DEF PreorderTree
<1>3. c \in 2..(n + 1) BY <1>1, <1>2 DEF AtBoundary
<1>4. \A i \in 1..n : Siz(gs)[i] = gs[i].size BY TableTree
<1> HIDE DEF n
<1>5. \A i \in (p + 1)..(c - 1) : i \in 1..n /\ Siz(gs)[i] = gs[i].size BY <1>3, <1>1, <1>4
<1>6. p \in 1..n /\ Siz(gs)[p] = gs[p].size BY <1>4 DEF n
<1>7. Place(n, Siz(gs), p, c)
  <2>1. p < c /\ c <= p + 1 + Siz(gs)[p] BY <1>6 DEF AtBoundary
  <2>2. \A i \in (p + 1)..(c - 1) : i + Siz(gs)[i] < c BY <1>5 DEF AtBoundary
  <2> QED BY <2>1, <2>2 DEF Place
<1> QED BY <1>3, <1>7 DEF n

(* Skipping the child at the cursor leaves the cursor on a boundary.       *)
LEMMA BoundaryAfterChild ==
  ASSUME NEW gs \in Seq(Group), PreorderTree(gs), NEW x \in 2..Len(gs), 
         NEW p, gs[x].parent = p
  PROVE  /\ AtBoundary(gs, p, x + 1 + gs[x].size)
         /\ x + 1 + gs[x].size \in 2..(Len(gs) + 1)
         /\ p \in 1..(x - 1)
<1> DEFINE n == Len(gs)
           y == x + 1 + gs[x].size
<1>1. n \in Nat /\ \A i \in 1..n : Siz(gs)[i] = gs[i].size /\ Par(gs)[i] = gs[i].parent
  BY TableType, TableTree
<1>2. Arrays(n, Par(gs), Siz(gs)) /\ Tree(n, Par(gs), Siz(gs)) BY TableTree
<1>3. x \in 2..n /\ p = Par(gs)[x] /\ Siz(gs)[x] = gs[x].size BY <1>1
<1> HIDE DEF n
<1>4. p \in 1..(x - 1) /\ y \in 2..(n + 1) /\ Place(n, Siz(gs), p, y)
  BY <1>1, <1>2, <1>3, PlaceAfterChild
<1>5. p \in 1..n /\ \A i \in (p + 1)..(y - 1) : i \in 1..n BY <1>3, <1>4, <1>1
<1> HIDE DEF y
<1>6. AtBoundary(gs, p, y)
  <2>1. p < y /\ y <= p + 1 + gs[p].size BY <1>1, <1>4, <1>5 DEF Place
  <2>2. \A i \in (p + 1)..(y - 1) : i + gs[i].size < y BY <1>1, <1>4, <1>5 DEF Place
  <2> QED BY <2>1, <2>2 DEF AtBoundary
<1> QED BY <1>4, <1>6 DEF y, n

(* OpenPath without what it says of the innermost group that runs.         *)
Chain(gs, st, c, n) ==
  /\ st[1].active /\ st[1].idx = 1
  /\ \A d \in 1..(n - 1) : st[d].active /\ st[d].end = 0
  /\ \A d \in 1..n : st[d].active => st[d].idx \in 1..Len(gs) /\ st[d].idx < c
  /\ \A d \in 2..n : st[d].active =>
       st[d - 1].idx < st[d].idx /\ gs[st[d].idx].parent = st[d - 1].idx

(* OpenPath when the innermost frame runs.                                 *)
LEMMA ActivePath ==
  ASSUME NEW gs, NEW st, NEW c, NEW n, n = Len(st), st[n].active
  PROVE  OpenPath(gs, st, c) <=>
           /\ Chain(gs, st, c, n)
           /\ AtBoundary(gs, st[n].idx, c)
           /\ st[n].end # 0 => st[n].end = st[n].idx + 1 + gs[st[n].idx].size
BY Zenon DEF OpenPath, Innermost, Chain

(* OpenPath when the innermost frame was passed over.                      *)
LEMMA InactivePath ==
  ASSUME NEW gs, NEW st, NEW c, NEW n, n = Len(st), ~st[n].active
  PROVE  OpenPath(gs, st, c) <=>
           /\ Chain(gs, st, c, n)
           /\ AtBoundary(gs, st[n - 1].idx, c)
           /\ st[n].end = 0
BY Zenon DEF OpenPath, Innermost, Chain

(* A frame that runs is pushed for the group at the cursor.                *)
Starts(gs, hs, st, c, u) ==
  /\ gs \in Seq(Group) /\ hs \in Seq(Group)
  /\ st \in Seq(Frame) /\ st # <<>> /\ c \in Nat /\ OpenPath(gs, st, c)
  /\ st[Len(st)].active /\ st[Len(st)].end = 0
  /\ c \in 1..Len(hs)
  /\ \A i \in 1..(c - 1) : hs[i].parent = gs[i].parent
  /\ hs[c].parent = st[Len(st)].idx
  /\ u = Append(st, [idx |-> c, active |-> TRUE, end |-> 0])

(* Entering a group that runs extends the chain of open groups.            *)
LEMMA PushActive ==
  ASSUME NEW gs, NEW hs, NEW st, NEW c, NEW u, Starts(gs, hs, st, c, u)
  PROVE  /\ u \in Seq(Frame) /\ u # <<>>
         /\ OpenPath(hs, u, c + 1)
         /\ RunningIn(u) = RunningIn(st) \cup {c}
         /\ \A x \in RunningIn(st) : x < c
<1> SUFFICES
      ASSUME gs \in Seq(Group), hs \in Seq(Group),
             st \in Seq(Frame), st # <<>>, c \in Nat, OpenPath(gs, st, c),
             st[Len(st)].active, st[Len(st)].end = 0,
             c \in 1..Len(hs),
             \A i \in 1..(c - 1) : hs[i].parent = gs[i].parent,
             hs[c].parent = st[Len(st)].idx,
             u = Append(st, [idx |-> c, active |-> TRUE, end |-> 0])
      PROVE  /\ u \in Seq(Frame) /\ u # <<>>
             /\ OpenPath(hs, u, c + 1)
             /\ RunningIn(u) = RunningIn(st) \cup {c}
             /\ \A x \in RunningIn(st) : x < c
  BY DEF Starts
<1> DEFINE n == Len(st)
           f == [idx |-> c, active |-> TRUE, end |-> 0]
<1>1. n \in Nat \ {0} /\ DOMAIN st = 1..n /\ \A d \in 1..n : st[d] \in Frame
  BY LenProperties, ElementOfSeq, EmptySeq
<1>2. f \in Frame BY DEF Frame
<1>3. /\ u \in Seq(Frame) /\ Len(u) = n + 1 /\ u # <<>>
      /\ \A d \in 1..n : u[d] = st[d]
      /\ u[n + 1] = f
  BY <1>2, AppendProperties
<1>4. DOMAIN u = 1..(n+1) BY <1>3, LenProperties
<1>5. /\ st[1].active /\ st[1].idx = 1
      /\ \A d \in 1..n : st[d].active /\ st[d].end = 0
      /\ \A d \in 1..n : st[d].idx \in 1..Len(gs) /\ st[d].idx < c
      /\ \A d \in 2..n : st[d - 1].idx < st[d].idx /\ gs[st[d].idx].parent = st[d - 1].idx
  <2> HIDE DEF n, f
  <2>1. Chain(gs, st, c, n) /\ st[n].active /\ st[n].end = 0 BY ActivePath DEF n
  <2>2. \A d \in 1..n : st[d].active /\ st[d].end = 0 BY <1>1, <2>1 DEF Chain
  <2>3. st[1].active /\ st[1].idx = 1 BY <2>1 DEF Chain
  <2>4. \A d \in 1..n : st[d].idx \in 1..Len(gs) /\ st[d].idx < c BY <2>1, <2>2 DEF Chain
  <2>5. \A d \in 2..n : d \in 1..n BY <1>1
  <2>6. \A d \in 2..n : st[d - 1].idx < st[d].idx /\ gs[st[d].idx].parent = st[d - 1].idx
    BY <2>1, <2>2, <2>5 DEF Chain
  <2> QED BY <2>2, <2>3, <2>4, <2>6
<1>6. Len(hs) \in Nat /\ \A i \in 1..Len(hs) : hs[i].size \in Nat BY TableType
<1>7. \A x \in RunningIn(st) : x < c BY <1>1, <1>5 DEF RunningIn
<1>8. RunningIn(u) = RunningIn(st) \cup {c}
  <2> HIDE DEF n
  <2>1. \A x : x \in RunningIn(st) <=> \E d \in 1..n : st[d].active /\ x = st[d].idx
    BY <1>1 DEF RunningIn
  <2>2. \A x : x \in RunningIn(u) <=> \E d \in 1..(n+1) : u[d].active /\ x = u[d].idx
    BY <1>4 DEF RunningIn
  <2>3. u[n+1].active /\ u[n+1].idx = c BY <1>3
  <2>4. ASSUME NEW x, x \in RunningIn(u) PROVE x \in RunningIn(st) \cup {c}
    <3>1. PICK d \in 1..(n+1) : u[d].active /\ x = u[d].idx BY <2>4, <1>4 DEF RunningIn
    <3>2. CASE d = n + 1 BY <3>1, <3>2, <2>3
    <3>3. CASE d # n + 1
      <4>1. d \in 1..n BY <3>3, <1>1
      <4>2. st[d].active /\ x = st[d].idx BY <4>1, <3>1, <1>3
      <4> QED BY <4>1, <4>2, <2>1
    <3> QED BY <3>2, <3>3
  <2>5. ASSUME NEW x, x \in RunningIn(st) \cup {c} PROVE x \in RunningIn(u)
    <3>1. CASE x = c
      <4>1. n + 1 \in 1..(n+1) BY <1>1
      <4> QED BY <4>1, <3>1, <2>2, <2>3
    <3>2. CASE x \in RunningIn(st)
      <4>1. PICK d \in 1..n : st[d].active /\ x = st[d].idx BY <2>1, <3>2
      <4>2. d \in 1..(n+1) /\ u[d] = st[d] BY <1>1, <1>3
      <4> QED BY <4>1, <4>2, <2>2
    <3> QED BY <3>1, <3>2, <2>5
  <2> QED BY <2>4, <2>5
<1>9. OpenPath(hs, u, c + 1)
  <2> HIDE DEF n
  <2>f. f.idx = c /\ f.active = TRUE /\ f.end = 0 OBVIOUS
  <2>1. u[1].active /\ u[1].idx = 1 BY <1>1, <1>3, <1>5
  <2>2. \A d \in 1..((n + 1) - 1) : u[d].active /\ u[d].end = 0 BY <1>1, <1>3, <1>5
  <2>3. ASSUME NEW d \in 1..(n + 1) PROVE u[d].idx \in 1..Len(hs) /\ u[d].idx < c + 1
    <3>1. CASE d = n + 1 BY <3>1, <1>3, <2>f, <1>6
    <3>2. CASE d # n + 1
      <4>1. d \in 1..n /\ u[d] = st[d] BY <3>2, <1>1, <1>3
      <4>2. st[d].idx \in 1..Len(gs) /\ st[d].idx < c BY <4>1, <1>5
      <4>3. st[d].idx \in 1..Len(hs) /\ st[d].idx < c + 1
        <5>1. Len(hs) \in Nat BY <1>6
        <5> QED BY <4>2, <5>1
      <4> QED BY <4>1, <4>3
    <3> QED BY <3>1, <3>2
  <2>4. ASSUME NEW d \in 2..(n + 1)
        PROVE  u[d - 1].idx < u[d].idx /\ hs[u[d].idx].parent = u[d - 1].idx
    <3>1. CASE d = n + 1
      <4>1. u[d - 1] = st[n] /\ u[d] = f BY <3>1, <1>1, <1>3
      <4> QED BY <4>1, <1>1, <1>5, <2>f DEF n
    <3>2. CASE d # n + 1
      <4>1. d \in 2..n /\ d - 1 \in 1..n /\ u[d] = st[d] /\ u[d - 1] = st[d - 1] BY <3>2, <1>1, <1>3
      <4>2. st[d].idx \in 1..(c - 1) BY <4>1, <1>5, <1>1
      <4>3. hs[st[d].idx].parent = gs[st[d].idx].parent BY <4>2
      <4>4. st[d - 1].idx < st[d].idx /\ gs[st[d].idx].parent = st[d - 1].idx BY <4>1, <1>5
      <4> QED BY <4>1, <4>3, <4>4
    <3> QED BY <3>1, <3>2
  <2>5. AtBoundary(hs, c, c + 1) BY <1>6 DEF AtBoundary
  <2> HIDE DEF f
  <2> QED BY <2>f, <2>1, <2>2, <2>3, <2>4, <2>5, <1>3, <1>1, SMTT(30)
    DEF OpenPath, Innermost
<1> QED BY <1>3, <1>7, <1>8, <1>9

(* A frame that does not run is pushed and the cursor moves on to c2.      *)
Passes(gs, hs, st, c, c2, x, u) ==
  /\ gs \in Seq(Group) /\ hs \in Seq(Group)
  /\ st \in Seq(Frame) /\ st # <<>> /\ c \in Nat /\ OpenPath(gs, st, c)
  /\ st[Len(st)].active /\ st[Len(st)].end = 0
  /\ c2 \in Nat /\ c <= c2 /\ c <= Len(hs) + 1
  /\ \A i \in 1..(c - 1) : hs[i].parent = gs[i].parent
  /\ AtBoundary(hs, st[Len(st)].idx, c2)
  /\ x \in Nat
  /\ u = Append(st, [idx |-> x, active |-> FALSE, end |-> 0])

(* Passing a group over keeps the chain of open groups.                    *)
LEMMA PushInactive ==
  ASSUME NEW gs, NEW hs, NEW st, NEW c, NEW c2, NEW x, NEW u,
         Passes(gs, hs, st, c, c2, x, u)
  PROVE  /\ u \in Seq(Frame) /\ u # <<>>
         /\ OpenPath(hs, u, c2)
         /\ RunningIn(u) = RunningIn(st)
<1> SUFFICES
      ASSUME gs \in Seq(Group), hs \in Seq(Group),
             st \in Seq(Frame), st # <<>>, c \in Nat, OpenPath(gs, st, c),
             st[Len(st)].active, st[Len(st)].end = 0,
             c2 \in Nat, c <= c2, c <= Len(hs) + 1,
             \A i \in 1..(c - 1) : hs[i].parent = gs[i].parent,
             AtBoundary(hs, st[Len(st)].idx, c2), x \in Nat,
             u = Append(st, [idx |-> x, active |-> FALSE, end |-> 0])
      PROVE  /\ u \in Seq(Frame) /\ u # <<>>
             /\ OpenPath(hs, u, c2)
             /\ RunningIn(u) = RunningIn(st)
  BY DEF Passes
<1> DEFINE n == Len(st)
           f == [idx |-> x, active |-> FALSE, end |-> 0]
<1>1. n \in Nat \ {0} /\ DOMAIN st = 1..n /\ \A d \in 1..n : st[d] \in Frame
  BY LenProperties, ElementOfSeq, EmptySeq
<1>2. f \in Frame BY DEF Frame
<1>3. /\ u \in Seq(Frame) /\ Len(u) = n + 1 /\ u # <<>>
      /\ \A d \in 1..n : u[d] = st[d]
      /\ u[n + 1] = f
  BY <1>2, AppendProperties
<1>4. DOMAIN u = 1..(n+1) BY <1>3, LenProperties
<1>5. /\ st[1].active /\ st[1].idx = 1
      /\ \A d \in 1..n : st[d].active /\ st[d].end = 0
      /\ \A d \in 1..n : st[d].idx \in 1..Len(gs) /\ st[d].idx < c
      /\ \A d \in 2..n : st[d - 1].idx < st[d].idx /\ gs[st[d].idx].parent = st[d - 1].idx
  <2> HIDE DEF n, f
  <2>1. Chain(gs, st, c, n) /\ st[n].active /\ st[n].end = 0 BY ActivePath DEF n
  <2>2. \A d \in 1..n : st[d].active /\ st[d].end = 0 BY <1>1, <2>1 DEF Chain
  <2>3. st[1].active /\ st[1].idx = 1 BY <2>1 DEF Chain
  <2>4. \A d \in 1..n : st[d].idx \in 1..Len(gs) /\ st[d].idx < c BY <2>1, <2>2 DEF Chain
  <2>5. \A d \in 2..n : d \in 1..n BY <1>1
  <2>6. \A d \in 2..n : st[d - 1].idx < st[d].idx /\ gs[st[d].idx].parent = st[d - 1].idx
    BY <2>1, <2>2, <2>5 DEF Chain
  <2> QED BY <2>2, <2>3, <2>4, <2>6
<1>6. Len(hs) \in Nat BY TableType
<1>f. f.idx = x /\ f.active = FALSE /\ f.end = 0 OBVIOUS
<1> HIDE DEF f
<1>8. RunningIn(u) = RunningIn(st)
  <2> HIDE DEF n
  <2>3. ~u[n+1].active BY <1>3, <1>f
  <2>4. ASSUME NEW y, y \in RunningIn(u) PROVE y \in RunningIn(st)
    <3>1. PICK d \in 1..(n+1) : u[d].active /\ y = u[d].idx BY <2>4, <1>4 DEF RunningIn
    <3>2. CASE d = n + 1 BY <3>1, <3>2, <2>3
    <3>3. CASE d # n + 1
      <4>1. d \in 1..n BY <3>3, <1>1
      <4>2. st[d].active /\ y = st[d].idx BY <4>1, <3>1, <1>3
      <4> QED BY <4>1, <4>2, <1>1 DEF RunningIn
    <3> QED BY <3>2, <3>3
  <2>5. ASSUME NEW y, y \in RunningIn(st) PROVE y \in RunningIn(u)
    <3>1. PICK d \in 1..n : st[d].active /\ y = st[d].idx BY <2>5, <1>1 DEF RunningIn
    <3>2. d \in 1..(n+1) /\ u[d] = st[d] BY <1>1, <1>3
    <3> QED BY <3>1, <3>2, <1>4 DEF RunningIn
  <2> QED BY <2>4, <2>5
<1>9. OpenPath(hs, u, c2)
  <2>b. AtBoundary(hs, u[n].idx, c2)
    <3>1. u[n] = st[n]
      <4> HIDE DEF n
      <4>1. n \in 1..n BY <1>1
      <4> QED BY <4>1, <1>3
    <3> QED BY <3>1
  <2> HIDE DEF n
  <2>1. u[1].active /\ u[1].idx = 1 BY <1>1, <1>3, <1>5
  <2>2. \A d \in 1..((n + 1) - 1) : u[d].active /\ u[d].end = 0 BY <1>1, <1>3, <1>5
  <2>3. ASSUME NEW d \in 1..(n + 1), u[d].active PROVE u[d].idx \in 1..Len(hs) /\ u[d].idx < c2
    <3>1. CASE d = n + 1 BY <2>3, <3>1, <1>3, <1>f
    <3>2. CASE d # n + 1
      <4>1. d \in 1..n /\ u[d] = st[d] BY <3>2, <1>1, <1>3
      <4>2. st[d].idx \in 1..Len(gs) /\ st[d].idx < c BY <4>1, <1>5
      <4>3. st[d].idx \in 1..Len(hs) /\ st[d].idx < c2 BY <4>2, <1>6
      <4> QED BY <4>1, <4>3
    <3> QED BY <3>1, <3>2
  <2>4. ASSUME NEW d \in 2..(n + 1), u[d].active
        PROVE  u[d - 1].idx < u[d].idx /\ hs[u[d].idx].parent = u[d - 1].idx
    <3>1. CASE d = n + 1 BY <2>4, <3>1, <1>3, <1>f
    <3>2. CASE d # n + 1
      <4>1. d \in 2..n /\ d - 1 \in 1..n /\ u[d] = st[d] /\ u[d - 1] = st[d - 1] BY <3>2, <1>1, <1>3
      <4>2. st[d].idx \in 1..(c - 1) BY <4>1, <1>5, <1>1
      <4>3. hs[st[d].idx].parent = gs[st[d].idx].parent BY <4>2
      <4>4. st[d - 1].idx < st[d].idx /\ gs[st[d].idx].parent = st[d - 1].idx BY <4>1, <1>5
      <4> QED BY <4>1, <4>3, <4>4
    <3> QED BY <3>1, <3>2
  <2>5. u[n + 1].end = 0 /\ ~u[n + 1].active /\ (n + 1) - 1 = n
    BY <1>3, <1>f, <1>1
  <2>6. Len(u) = n + 1 BY <1>3
  <2>8. \A d \in 1..(n + 1) : u[d].active => u[d].idx \in 1..Len(hs) /\ u[d].idx < c2
    BY <2>3
  <2>9. \A d \in 2..(n + 1) : u[d].active =>
          u[d - 1].idx < u[d].idx /\ hs[u[d].idx].parent = u[d - 1].idx
    BY <2>4
  <2>10. Chain(hs, u, c2, n + 1) BY <2>1, <2>2, <2>8, <2>9 DEF Chain
  <2> QED BY <2>b, <2>5, <2>6, <2>10, InactivePath
<1> QED BY <1>3, <1>8, <1>9

(* The innermost frame is popped.                                          *)
Returns(gs, st, c, u) ==
  /\ gs \in Seq(Group) /\ PreorderTree(gs)
  /\ st \in Seq(Frame) /\ st # <<>> /\ c \in Nat /\ OpenPath(gs, st, c)
  /\ st[Len(st)].active => c = st[Len(st)].idx + 1 + gs[st[Len(st)].idx].size
  /\ u = SubSeq(st, 1, Len(st) - 1)

(* Returning from a body whose children are all visited leaves the cursor  *)
(* on a boundary of the body around it, past the whole table for the root. *)
LEMMA PopFrame ==
  ASSUME NEW gs, NEW st, NEW c, NEW u, Returns(gs, st, c, u)
  PROVE  /\ u \in Seq(Frame)
         /\ u # <<>> => OpenPath(gs, u, c)
         /\ u = <<>> => c = Len(gs) + 1
         /\ RunningIn(st) \ RunningIn(u) \subseteq
              {x \in {st[Len(st)].idx} : st[Len(st)].active}
<1> SUFFICES
      ASSUME gs \in Seq(Group), PreorderTree(gs),
             st \in Seq(Frame), st # <<>>, c \in Nat, OpenPath(gs, st, c),
             st[Len(st)].active => c = st[Len(st)].idx + 1 + gs[st[Len(st)].idx].size,
             u = SubSeq(st, 1, Len(st) - 1)
      PROVE  /\ u \in Seq(Frame)
             /\ u # <<>> => OpenPath(gs, u, c)
             /\ u = <<>> => c = Len(gs) + 1
             /\ RunningIn(st) \ RunningIn(u) \subseteq
                  {x \in {st[Len(st)].idx} : st[Len(st)].active}
  BY DEF Returns
<1> DEFINE n == Len(st)
           g == st[n].idx
<1>1. n \in Nat \ {0} /\ DOMAIN st = 1..n /\ \A d \in 1..n : st[d] \in Frame
  BY LenProperties, ElementOfSeq, EmptySeq
<1>2. /\ u \in Seq(Frame) /\ Len(u) = n - 1
      /\ \A d \in 1..(n - 1) : u[d] = st[d]
  <2>1. \A d \in 1..(n - 1) : st[d] \in Frame BY <1>1
  <2>2. 1 \in Int /\ n - 1 \in Int BY <1>1
  <2> HIDE DEF n
  <2>3. /\ SubSeq(st, 1, n - 1) \in Seq(Frame)
        /\ Len(SubSeq(st, 1, n - 1)) = IF 1 <= n - 1 THEN (n - 1) - 1 + 1 ELSE 0
        /\ \A i \in 1 .. ((n - 1) - 1 + 1) : SubSeq(st, 1, n - 1)[i] = st[1 + i - 1]
    BY <2>1, <2>2, SubSeqProperties
  <2>4. u = SubSeq(st, 1, n - 1) BY DEF n
  <2>5. Len(u) = n - 1 BY <2>3, <2>4, <1>1
  <2>6. ASSUME NEW d \in 1..(n - 1) PROVE u[d] = st[d]
    <3>1. d \in 1 .. ((n - 1) - 1 + 1) /\ 1 + d - 1 = d BY <1>1
    <3> QED BY <3>1, <2>3, <2>4
  <2> QED BY <2>3, <2>4, <2>5, <2>6
<1>3. DOMAIN u = 1..(n - 1) BY <1>2, LenProperties
<1>4. u = <<>> <=> n = 1
  <2>1. u = <<>> => Len(u) = 0 BY EmptySeq
  <2>2. u # <<>> => Len(u) \in Nat \ {0} BY <1>2, EmptySeq
  <2> HIDE DEF n
  <2> QED BY <2>1, <2>2, <1>1, <1>2
<1>5. /\ st[1].active /\ st[1].idx = 1
      /\ \A d \in 1..(n - 1) : st[d].active /\ st[d].end = 0
      /\ \A d \in 1..n : st[d].active => st[d].idx \in 1..Len(gs) /\ st[d].idx < c
      /\ \A d \in 2..n : st[d].active => st[d - 1].idx < st[d].idx /\ gs[st[d].idx].parent = st[d - 1].idx
      /\ ~st[n].active => AtBoundary(gs, st[n - 1].idx, c)
  BY <1>1 DEF OpenPath, Innermost
<1>6. st[n].active => c = g + 1 + gs[g].size OBVIOUS
<1>7. Len(gs) \in Nat /\ DOMAIN gs = 1..Len(gs) BY TableType
<1> HIDE DEF n
<1>8. ASSUME u = <<>> PROVE n = 1 /\ c = Len(gs) + 1
  <2>1. n = 1 /\ st[n].active /\ g = 1 BY <1>8, <1>4, <1>5
  <2>2. 1 \in 1..Len(gs) BY <2>1, <1>5, <1>1
  <2>3. gs[1].size = Len(gs) - 1 BY <2>2, <1>7 DEF PreorderTree
  <2> QED BY <2>1, <2>3, <1>6, <1>7
<1>9. ASSUME u # <<>> PROVE OpenPath(gs, u, c)
  <2>0. n - 1 \in Nat \ {0} /\ 1 \in 1..(n - 1) /\ n \in 2..n /\ n - 1 \in 1..(n - 1) BY <1>9, <1>4, <1>1
  <2>1. u[1].active /\ u[1].idx = 1 BY <2>0, <1>2, <1>5
  <2>2. \A d \in 1..((n - 1) - 1) : u[d].active /\ u[d].end = 0
    <3>1. \A d \in 1..((n - 1) - 1) : d \in 1..(n - 1) BY <2>0
    <3> QED BY <3>1, <1>2, <1>5
  <2>3. ASSUME NEW d \in 1..(n - 1) PROVE u[d].idx \in 1..Len(gs) /\ u[d].idx < c
    <3>1. d \in 1..n /\ u[d] = st[d] /\ st[d].active BY <1>1, <1>2, <1>5
    <3> QED BY <3>1, <1>5
  <2>4. ASSUME NEW d \in 2..(n - 1)
        PROVE  u[d - 1].idx < u[d].idx /\ gs[u[d].idx].parent = u[d - 1].idx
    <3>1. d \in 2..n /\ d \in 1..(n - 1) /\ d - 1 \in 1..(n - 1) BY <1>1
    <3>2. st[d].active /\ u[d] = st[d] /\ u[d - 1] = st[d - 1] BY <3>1, <1>2, <1>5
    <3> QED BY <3>1, <3>2, <1>5
  <2>5. u[n - 1] = st[n - 1] /\ u[n - 1].active /\ u[n - 1].end = 0 BY <2>0, <1>2, <1>5
  <2>6. AtBoundary(gs, u[n - 1].idx, c)
    <3>1. CASE ~st[n].active BY <3>1, <1>5, <2>5
    <3>2. CASE st[n].active
      <4>1. /\ st[n - 1].idx < g /\ gs[g].parent = st[n - 1].idx
            /\ g \in 1..Len(gs)
        BY <2>0, <3>2, <1>5, SMTT(30)
      <4>2. st[n - 1].idx \in 1..Len(gs)
        <5>1. n - 1 \in 1..n /\ st[n - 1].active BY <2>0, <1>1, <1>5
        <5> QED BY <5>1, <1>5
      <4>3. g \in 2..Len(gs) BY <4>1, <4>2, <1>7
      <4> HIDE DEF g
      <4>4. AtBoundary(gs, st[n - 1].idx, g + 1 + gs[g].size)
        BY <4>1, <4>3, BoundaryAfterChild
      <4> QED BY <4>4, <3>2, <1>6, <2>5
    <3> QED BY <3>1, <3>2
  <2> QED BY <2>0, <2>1, <2>2, <2>3, <2>4, <2>5, <2>6, <1>2 DEF OpenPath, Innermost
<1>10. ASSUME NEW x \in RunningIn(st), x \notin RunningIn(u)
       PROVE  st[n].active /\ x = g
  <2>1. PICK d \in 1..n : st[d].active /\ x = st[d].idx BY <1>1 DEF RunningIn
  <2>2. CASE d = n BY <2>1, <2>2
  <2>3. CASE d # n
    <3>1. d \in 1..(n - 1) BY <2>3, <1>1
    <3>2. d \in DOMAIN u /\ u[d] = st[d] BY <3>1, <1>2, <1>3
    <3>3. x \in RunningIn(u) BY <3>2, <2>1 DEF RunningIn
    <3> QED BY <3>3, <1>10
  <2> QED BY <2>2, <2>3
<1> QED BY <1>2, <1>8, <1>9, <1>10 DEF n

(* The innermost body has lost a child it did not visit.                   *)
Trims(gs, hs, st, c, e, u) ==
  /\ gs \in Seq(Group) /\ hs \in Seq(Group)
  /\ st \in Seq(Frame) /\ st # <<>> /\ c \in Nat /\ OpenPath(gs, st, c)
  /\ st[Len(st)].active
  /\ c <= Len(hs) + 1
  /\ \A i \in 1..(c - 1) : hs[i].parent = gs[i].parent
  /\ AtBoundary(hs, st[Len(st)].idx, c)
  /\ e \in Nat /\ e = st[Len(st)].idx + 1 + hs[st[Len(st)].idx].size
  /\ u = [st EXCEPT ![Len(st)].end = e]

(* Pruning at the cursor keeps the chain of open groups and the expected   *)
(* end.                                                                    *)
LEMMA TrimFrame ==
  ASSUME NEW gs, NEW hs, NEW st, NEW c, NEW e, NEW u, Trims(gs, hs, st, c, e, u)
  PROVE  /\ u \in Seq(Frame)
         /\ OpenPath(hs, u, c)
         /\ RunningIn(u) = RunningIn(st)
<1> SUFFICES
      ASSUME gs \in Seq(Group), hs \in Seq(Group),
             st \in Seq(Frame), st # <<>>, c \in Nat, OpenPath(gs, st, c),
             st[Len(st)].active, c <= Len(hs) + 1,
             \A i \in 1..(c - 1) : hs[i].parent = gs[i].parent,
             AtBoundary(hs, st[Len(st)].idx, c),
             e \in Nat, e = st[Len(st)].idx + 1 + hs[st[Len(st)].idx].size,
             u = [st EXCEPT ![Len(st)].end = e]
      PROVE  /\ u \in Seq(Frame)
             /\ OpenPath(hs, u, c)
             /\ RunningIn(u) = RunningIn(st)
  BY DEF Trims
<1> DEFINE n == Len(st)
           f == [st[n] EXCEPT !.end = e]
<1>1. n \in Nat \ {0} /\ DOMAIN st = 1..n /\ \A d \in 1..n : st[d] \in Frame
  BY LenProperties, ElementOfSeq, EmptySeq
<1>2. f \in Frame /\ f.idx = st[n].idx /\ f.active /\ f.end = e
  <2>1. st[n] \in Frame BY <1>1
  <2> QED BY <2>1 DEF Frame
<1>3. u = [st EXCEPT ![n] = f] BY <1>1
<1> HIDE DEF f
<1>4. /\ u \in Seq(Frame) /\ Len(u) = n
      /\ \A d \in 1..n : u[d] = IF d = n THEN f ELSE st[d]
  <2> HIDE DEF n
  <2>1. DOMAIN u = 1..n /\ \A d \in 1..n : u[d] = IF d = n THEN f ELSE st[d]
    BY <1>1, <1>3
  <2>2. \A d \in 1..n : u[d] \in Frame BY <2>1, <1>1, <1>2
  <2>3. u = [d \in 1..n |-> u[d]] BY <1>1, <1>3
  <2>4. u \in [1..n -> Frame] BY <2>2, <2>3
  <2>5. u \in Seq(Frame) /\ Len(u) = n BY <2>4, <1>1, SeqOfFcn
  <2> QED BY <2>1, <2>5
<1>5. DOMAIN u = 1..n BY <1>4, LenProperties
<1>6. /\ st[1].active /\ st[1].idx = 1
      /\ \A d \in 1..(n - 1) : st[d].active /\ st[d].end = 0
      /\ \A d \in 1..n : st[d].active => st[d].idx \in 1..Len(gs) /\ st[d].idx < c
      /\ \A d \in 2..n : st[d].active => st[d - 1].idx < st[d].idx /\ gs[st[d].idx].parent = st[d - 1].idx
  BY <1>1 DEF OpenPath
<1>7. \A d \in 1..n : st[d].active
  <2>1. st[n].active OBVIOUS
  <2> HIDE DEF n
  <2> QED BY <2>1, <1>6, <1>1
<1>8. \A d \in 1..n : u[d].active /\ u[d].idx = st[d].idx
  <2> SUFFICES ASSUME NEW d \in 1..n PROVE u[d].active /\ u[d].idx = st[d].idx OBVIOUS
  <2>1. CASE d = n BY <2>1, <1>4, <1>2
  <2>2. CASE d # n BY <2>2, <1>4, <1>7
  <2> QED BY <2>1, <2>2
<1>9. Len(hs) \in Nat BY TableType
<1>10. AtBoundary(hs, u[n].idx, c) /\ u[n].end = u[n].idx + 1 + hs[u[n].idx].size
  <2>1. n \in 1..n /\ u[n] = f
    <3> HIDE DEF n
    <3> QED BY <1>1, <1>4
  <2>2. u[n].idx = st[n].idx /\ u[n].end = e BY <2>1, <1>2
  <2> QED BY <2>2
<1> HIDE DEF n
<1>11. OpenPath(hs, u, c)
  <2>0. 1 \in 1..n BY <1>1
  <2>1. u[1].active /\ u[1].idx = 1 BY <2>0, <1>8, <1>6
  <2>2. ASSUME NEW d \in 1..(n - 1) PROVE u[d].active /\ u[d].end = 0
    <3>1. d \in 1..n /\ d # n BY <1>1
    <3>2. u[d] = st[d] BY <3>1, <1>4
    <3> QED BY <3>2, <1>6
  <2>3. ASSUME NEW d \in 1..n PROVE u[d].idx \in 1..Len(hs) /\ u[d].idx < c
    <3>1. st[d].idx \in 1..Len(gs) /\ st[d].idx < c BY <1>6, <1>7
    <3>2. st[d].idx \in 1..Len(hs) /\ st[d].idx < c BY <3>1, <1>9
    <3> QED BY <3>2, <1>8
  <2>4. ASSUME NEW d \in 2..n
        PROVE  u[d - 1].idx < u[d].idx /\ hs[u[d].idx].parent = u[d - 1].idx
    <3>1. d \in 1..n /\ d - 1 \in 1..n BY <1>1
    <3>2. st[d - 1].idx < st[d].idx /\ gs[st[d].idx].parent = st[d - 1].idx BY <3>1, <1>6, <1>7
    <3>3. st[d].idx \in 1..(c - 1) BY <3>1, <1>6, <1>7
    <3>4. hs[st[d].idx].parent = gs[st[d].idx].parent BY <3>3
    <3> QED BY <3>1, <3>2, <3>4, <1>8
  <2>5. u[n].active BY <1>1, <1>8
  <2> QED BY <2>1, <2>2, <2>3, <2>4, <2>5, <1>10, <1>4 DEF OpenPath, Innermost
<1>12. RunningIn(u) = RunningIn(st)
  <2>1. ASSUME NEW x, x \in RunningIn(u) PROVE x \in RunningIn(st)
    <3>1. PICK d \in 1..n : x = u[d].idx BY <2>1, <1>5 DEF RunningIn
    <3>2. x = st[d].idx /\ st[d].active BY <3>1, <1>7, <1>8
    <3> QED BY <3>2, <1>1 DEF RunningIn
  <2>2. ASSUME NEW x, x \in RunningIn(st) PROVE x \in RunningIn(u)
    <3>1. PICK d \in 1..n : x = st[d].idx BY <2>2, <1>1 DEF RunningIn
    <3>2. x = u[d].idx /\ u[d].active BY <3>1, <1>7, <1>8
    <3> QED BY <3>2, <1>5 DEF RunningIn
  <2> QED BY <2>1, <2>2
<1> QED BY <1>4, <1>11, <1>12

(* The sibling m is brought to the cursor, if it is not there.             *)
Relocates(gs, p, c, X, m, hs) ==
  /\ gs \in Seq(Group) /\ PreorderTree(gs) /\ p \in 1..Len(gs) /\ c \in Nat
  /\ AtBoundary(gs, p, c) /\ (\A x \in X : x < c) /\ SkipSafe(gs, X)
  /\ m \in Siblings(gs, c, p + 1 + gs[p].size)
  /\ hs = IF m = c THEN gs ELSE MoveSubtree(gs, m, c)

(* Bringing a sibling to the cursor changes nothing before the cursor and  *)
(* puts a child of the running group at it; a clean group still hides      *)
(* nothing dirty.                                                          *)
LEMMA RelocatedFacts ==
  ASSUME NEW gs, NEW p, NEW c, NEW X, NEW m, NEW hs, Relocates(gs, p, c, X, m, hs)
  PROVE  /\ hs \in Seq(Group)
         /\ Len(hs) = Len(gs)
         /\ c \in 2..Len(hs)
         /\ PreorderTree(hs)
         /\ \A i \in 1..(c - 1) : hs[i] = gs[i]
         /\ hs[c].parent = p
         /\ SkipSafe(hs, X)
<1> SUFFICES
      ASSUME gs \in Seq(Group), PreorderTree(gs), p \in 1..Len(gs), c \in Nat,
             AtBoundary(gs, p, c), \A x \in X : x < c, SkipSafe(gs, X),
             m \in Siblings(gs, c, p + 1 + gs[p].size),
             hs = IF m = c THEN gs ELSE MoveSubtree(gs, m, c)
      PROVE  /\ hs \in Seq(Group)
             /\ Len(hs) = Len(gs)
             /\ c \in 2..Len(hs)
             /\ PreorderTree(hs)
             /\ \A i \in 1..(c - 1) : hs[i] = gs[i]
             /\ hs[c].parent = p
             /\ SkipSafe(hs, X)
  BY DEF Relocates
<1> DEFINE n == Len(gs)
           k == 1 + gs[m].size
<1>1. Place(n, Siz(gs), p, c) BY BoundaryPlace
<1>2. c \in 2..n /\ m \in c..n /\ Par(gs)[m] = p
  BY <1>1, SiblingFacts DEF SiblingFrom
<1>3. n \in Nat /\ DOMAIN gs = 1..n /\ gs[m].parent = p
  BY <1>2, TableType, TableTree
<1>4. CASE m = c BY <1>4, <1>2, <1>3
<1>5. CASE m # c
  <2>1. hs = MoveSubtree(gs, m, c) BY <1>5
  <2>2. /\ hs \in Seq(Group)
        /\ Len(hs) = Len(gs)
        /\ PreorderTree(hs)
        /\ \A i \in 1..(c - 1) : hs[i] = gs[i]
        /\ hs[c].parent = p
        /\ \A i \in 1..Len(hs) :
              /\ MovedFrom(i, m, c, k) \in 1..Len(gs)
              /\ i >= c => MovedFrom(i, m, c, k) >= c
              /\ hs[i].inv = gs[MovedFrom(i, m, c, k)].inv
              /\ hs[i].cont = gs[MovedFrom(i, m, c, k)].cont
        /\ \A i, j \in 1..Len(hs) : i < j /\ j <= i + hs[i].size =>
              /\ MovedFrom(i, m, c, k) < MovedFrom(j, m, c, k)
              /\ MovedFrom(j, m, c, k) <= MovedFrom(i, m, c, k) + gs[MovedFrom(i, m, c, k)].size
    <3>1. \E kk : kk = 1 + gs[m].size /\ kk = k OBVIOUS
    <3>2. PICK kk : kk = 1 + gs[m].size /\ kk = k BY <3>1
    <3>3. Place(Len(gs), Siz(gs), p, c) BY <1>1
    <3> HIDE DEF k, n
    <3>4. kk = 1 + gs[m].size BY <3>2
    <3>5. hs \in Seq(Group) /\ Len(hs) = Len(gs) /\ PreorderTree(hs)
      BY <2>1, <3>4, <3>3, MoveFacts
    <3>6. /\ \A i \in 1..(c - 1) : hs[i] = gs[i]
          /\ hs[c].parent = p
      BY <2>1, <3>4, <3>3, MoveFacts
    <3>7. \A i \in 1..Len(hs) :
             /\ MovedFrom(i, m, c, kk) \in 1..Len(gs)
             /\ i >= c => MovedFrom(i, m, c, kk) >= c
             /\ hs[i].inv = gs[MovedFrom(i, m, c, kk)].inv
             /\ hs[i].cont = gs[MovedFrom(i, m, c, kk)].cont
      BY <2>1, <3>4, <3>3, MoveFacts, SMTT(30)
    <3>8. \A i, j \in 1..Len(hs) : i < j /\ j <= i + hs[i].size =>
             /\ MovedFrom(i, m, c, kk) < MovedFrom(j, m, c, kk)
             /\ MovedFrom(j, m, c, kk) <= MovedFrom(i, m, c, kk) + gs[MovedFrom(i, m, c, kk)].size
      BY <2>1, <3>4, <3>3, MoveFacts, SMTT(30)
    <3> QED BY <3>2, <3>5, <3>6, <3>7, <3>8
  <2>3. DOMAIN hs = 1..n /\ Len(hs) = n BY <2>2, TableType
  <2>4. ASSUME NEW i \in 1..n, i < c PROVE MovedFrom(i, m, c, k) = i
    BY <2>4 DEF MovedFrom
  <2> HIDE DEF n, k
  <2>5. ASSUME NEW i \in 1..n, NEW j \in 1..n,
               i > 1, i \notin X, Clean(hs, i), i < j, j <= i + hs[i].size
        PROVE  Clean(hs, j)
    <3> DEFINE I == MovedFrom(i, m, c, k)
               J == MovedFrom(j, m, c, k)
    <3>1. /\ I \in 1..n /\ J \in 1..n /\ I < J /\ J <= I + gs[I].size
          /\ Clean(gs, I) /\ (Clean(hs, j) <=> Clean(gs, J))
      BY <2>2, <2>3, <2>5, <1>3 DEF Clean, n
    <3>2. I > 1 /\ I \notin X
      <4>1. CASE i < c BY <4>1, <2>4, <2>5
      <4>2. CASE i >= c
        <5>1. I >= c BY <2>2, <2>3, <4>2
        <5> HIDE DEF I
        <5> QED BY <5>1, <1>2, <3>1, <1>3
      <4> QED BY <4>1, <4>2, <1>2, <1>3
    <3> HIDE DEF I, J
    <3> QED BY <3>1, <3>2, <1>3 DEF SkipSafe
  <2>6. SkipSafe(hs, X) BY <2>3, <2>5 DEF SkipSafe
  <2> QED BY <2>2, <2>3, <2>6, <1>2
<1> QED BY <1>4, <1>5

(* SkipSafe exempts the running groups only: more of them, less to show.   *)
LEMMA MoreRunning ==
  ASSUME NEW gs, NEW X, NEW Y, X \subseteq Y, SkipSafe(gs, X)
  PROVE  SkipSafe(gs, Y)
BY DEF SkipSafe

(* What a group covers after a prune it covered before.                    *)
LEMMA PruneNests ==
  ASSUME NEW gs \in Seq(Group), PreorderTree(gs), NEW r \in 2..Len(gs),
         NEW hs, hs = PruneSubtree(gs, r), NEW k, k = 1 + gs[r].size
  PROVE  \A i, j \in 1..Len(hs) : i < j /\ j <= i + hs[i].size =>
              /\ Before(i, r, k) < Before(j, r, k)
              /\ Before(j, r, k) <= Before(i, r, k) + gs[Before(i, r, k)].size
<1> SUFFICES ASSUME NEW i \in 1..Len(hs), NEW j \in 1..Len(hs), i < j, j <= i + hs[i].size
    PROVE /\ Before(i, r, k) < Before(j, r, k)
          /\ Before(j, r, k) <= Before(i, r, k) + gs[Before(i, r, k)].size
  OBVIOUS
<1> QED BY PruneFacts, SMTT(30)

(* A prune keeps the flags of the groups before it.                        *)
LEMMA PruneKeepsBefore ==
  ASSUME NEW gs \in Seq(Group), PreorderTree(gs), NEW r \in 2..Len(gs),
         NEW hs, hs = PruneSubtree(gs, r), NEW i \in 1..(r - 1)
  PROVE  /\ hs[i].parent = gs[i].parent
         /\ hs[i].size = IF r <= i + gs[i].size
                         THEN gs[i].size - (1 + gs[r].size) ELSE gs[i].size
         /\ i \in 1..Len(hs) => hs[i].inv = gs[i].inv /\ hs[i].cont = gs[i].cont
<1>1. \E k : k = 1 + gs[r].size OBVIOUS
<1>2. PICK k : k = 1 + gs[r].size BY <1>1
<1>3. \A j \in 1..Len(hs) : /\ hs[j].inv = gs[Before(j, r, k)].inv
                             /\ hs[j].cont = gs[Before(j, r, k)].cont
  BY <1>2, PruneFacts, SMTT(30)
<1>4. /\ hs[i].parent = gs[i].parent
      /\ hs[i].size = IF r <= i + gs[i].size THEN gs[i].size - k ELSE gs[i].size
  BY <1>2, PruneFacts, SMTT(30)
<1>5. Before(i, r, k) = i BY DEF Before
<1> QED BY <1>2, <1>3, <1>4, <1>5

(* A prune reveals no dirty group below a clean one.                       *)
LEMMA PruneSafe ==
  ASSUME NEW gs \in Seq(Group), PreorderTree(gs), NEW r \in 2..Len(gs),
         NEW X, \A x \in X : x < r, SkipSafe(gs, X),
         NEW hs, hs = PruneSubtree(gs, r)
  PROVE  SkipSafe(hs, X)
<1>1. \E k : k = 1 + gs[r].size OBVIOUS
<1>2. PICK k : k = 1 + gs[r].size BY <1>1
<1>3. /\ k \in Nat \ {0} /\ hs \in Seq(Group) /\ Len(hs) = Len(gs) - k
  BY <1>2, PruneFacts
<1>4. \A i \in 1..Len(hs) : /\ Before(i, r, k) \in 1..Len(gs)
                            /\ hs[i].inv = gs[Before(i, r, k)].inv
                            /\ hs[i].cont = gs[Before(i, r, k)].cont
  BY <1>2, PruneFacts, SMTT(30)
<1>5. \A i, j \in 1..Len(hs) : i < j /\ j <= i + hs[i].size =>
              /\ Before(i, r, k) < Before(j, r, k)
              /\ Before(j, r, k) <= Before(i, r, k) + gs[Before(i, r, k)].size
  BY PruneNests, <1>2
<1>6. DOMAIN hs = 1..Len(hs) /\ DOMAIN gs = 1..Len(gs) /\ Len(hs) \in Nat
  BY <1>3, TableType
<1>7. ASSUME NEW i \in 1..Len(hs), NEW j \in 1..Len(hs),
             i > 1, i \notin X, Clean(hs, i), i < j, j <= i + hs[i].size
      PROVE  Clean(hs, j)
  <2>1. Before(i, r, k) > 1 /\ Before(i, r, k) \notin X
    <3>1. CASE i < r BY <1>7, <3>1 DEF Before
    <3>2. CASE ~(i < r)
      <4>1. Before(i, r, k) = i + k /\ i + k >= r BY <3>2, <1>3 DEF Before
      <4>2. i + k > 1 /\ ~(i + k < r) BY <4>1, <1>3
      <4> QED BY <4>1, <4>2
    <3> QED BY <3>1, <3>2
  <2>2. Clean(gs, Before(i, r, k)) BY <1>4, <1>7 DEF Clean
  <2>3. Clean(gs, Before(j, r, k))
    <3> DEFINE I == Before(i, r, k)
               J == Before(j, r, k)
    <3>1. I \in 1..Len(gs) /\ J \in 1..Len(gs) /\ I < J /\ J <= I + gs[I].size
      BY <1>4, <1>5, <1>7
    <3>2. I > 1 /\ I \notin X /\ Clean(gs, I) BY <2>1, <2>2
    <3> HIDE DEF I, J
    <3>3. Clean(gs, J) BY <3>1, <3>2, <1>6 DEF SkipSafe
    <3> QED BY <3>3 DEF J
  <2> QED BY <2>3, <1>4 DEF Clean
<1> QED BY <1>6, <1>7 DEF SkipSafe

(* The same of a prune by key, which may also empty the table or find      *)
(* nothing.                                                                *)
LEMMA PruneByKeySafe ==
  ASSUME NEW gs \in Seq(Group), PreorderTree(gs), SkipSafe(gs, {}), NEW k,
         NEW hs, hs = PruneByKey(gs, k)
  PROVE  /\ hs \in Seq(Group)
         /\ Len(hs) <= Len(gs)
         /\ PreorderTree(hs)
         /\ SkipSafe(hs, {})
         /\ (\A i \in DOMAIN gs : i > 1 => Clean(gs, i)) =>
              (\A i \in DOMAIN hs : i > 1 => Clean(hs, i))
<1>1. Len(gs) \in Nat /\ DOMAIN gs = 1..Len(gs) BY TableType
<1>2. CASE WithKey(gs, k) = {} BY <1>2, <1>1 DEF PruneByKey
<1>3. CASE WithKey(gs, k) # {}
  <2>1. WithKey(gs, k) \subseteq 1..Len(gs) BY <1>1 DEF WithKey
  <2>2. Least(WithKey(gs, k)) \in 1..Len(gs)
    <3>1. WithKey(gs, k) \subseteq Nat BY <2>1
    <3>2. Least(WithKey(gs, k)) \in WithKey(gs, k) BY <3>1, <1>3, LeastIs
    <3> QED BY <3>2, <2>1
  <2>3. PICK r \in 1..Len(gs) : hs = PruneSubtree(gs, r) BY <2>2, <1>3 DEF PruneByKey
  <2>4. CASE r = 1
    <3>1. hs = <<>> BY <2>3, <2>4, <1>1, PruneRoot
    <3>2. hs \in Seq(Group) /\ Len(hs) = 0 /\ DOMAIN hs = {} BY <3>1
    <3>3. PreorderTree(hs) BY <3>2 DEF PreorderTree
    <3>4. SkipSafe(hs, {}) BY <3>2 DEF SkipSafe
    <3> QED BY <3>2, <3>3, <3>4, <1>1
  <2>5. CASE r # 1
    <3>1. r \in 2..Len(gs) BY <2>5, <1>1
    <3>2. SkipSafe(hs, {}) BY <3>1, <2>3, PruneSafe
    <3>3. \E n : n = 1 + gs[r].size OBVIOUS
    <3>4. PICK n : n = 1 + gs[r].size BY <3>3
    <3>5. /\ n \in Nat \ {0} /\ hs \in Seq(Group) /\ Len(hs) = Len(gs) - n /\ PreorderTree(hs)
      BY <3>1, <3>4, <2>3, PruneFacts
    <3>6. \A i \in 1..Len(hs) : /\ Before(i, r, n) \in 1..Len(gs)
                                /\ hs[i].inv = gs[Before(i, r, n)].inv
                                /\ hs[i].cont = gs[Before(i, r, n)].cont
      BY <3>1, <3>4, <2>3, PruneFacts, SMTT(30)
    <3>7. DOMAIN hs = 1..Len(hs) BY <3>5, TableType
    <3>8. ASSUME \A i \in DOMAIN gs : i > 1 => Clean(gs, i), NEW i \in DOMAIN hs, i > 1
          PROVE  Clean(hs, i)
      <4>1. Before(i, r, n) \in 1..Len(gs) /\ Before(i, r, n) > 1
        BY <3>6, <3>7, <3>8, <3>5 DEF Before
      <4>2. Clean(gs, Before(i, r, n)) BY <4>1, <3>8, <1>1
      <4> QED BY <4>2, <3>6, <3>7 DEF Clean
    <3> QED BY <3>2, <3>5, <3>8, <1>1
  <2> QED BY <2>4, <2>5
<1> QED BY <1>2, <1>3

(* The group at c clears its flags.                                        *)
Settles(hs, c, X, ts) ==
  /\ hs \in Seq(Group) /\ PreorderTree(hs) /\ c \in 2..Len(hs) /\ SkipSafe(hs, X)
  /\ ts = [hs EXCEPT ![c] = Settled(hs[c])]

(* Entering a dirty group clears its flags: it is running now and exempt.  *)
LEMMA SettledFacts ==
  ASSUME NEW hs, NEW c, NEW X, NEW ts, Settles(hs, c, X, ts)
  PROVE  /\ ts \in Seq(Group)
         /\ Len(ts) = Len(hs)
         /\ PreorderTree(ts)
         /\ \A i \in 1..Len(hs) : ts[i].parent = hs[i].parent
         /\ \A i \in 1..(c - 1) : ts[i] = hs[i]
         /\ SkipSafe(ts, X \cup {c})
<1> SUFFICES
      ASSUME hs \in Seq(Group), PreorderTree(hs), c \in 2..Len(hs), SkipSafe(hs, X),
             ts = [hs EXCEPT ![c] = Settled(hs[c])]
      PROVE  /\ ts \in Seq(Group)
             /\ Len(ts) = Len(hs)
             /\ PreorderTree(ts)
             /\ \A i \in 1..Len(hs) : ts[i].parent = hs[i].parent
             /\ \A i \in 1..(c - 1) : ts[i] = hs[i]
             /\ SkipSafe(ts, X \cup {c})
  BY DEF Settles
<1>1. Len(hs) \in Nat /\ DOMAIN hs = 1..Len(hs) /\ \A i \in 1..Len(hs) : hs[i] \in Group
  BY TableType
<1>2. /\ Settled(hs[c]) \in Group
      /\ Settled(hs[c]).size = hs[c].size /\ Settled(hs[c]).parent = hs[c].parent
      /\ ~Settled(hs[c]).inv /\ ~Settled(hs[c]).cont
  BY <1>1, FieldsSettled
<1>3. /\ ts \in Seq(Group) /\ Len(ts) = Len(hs)
      /\ \A i \in 1..Len(hs) : ts[i] = IF i = c THEN Settled(hs[c]) ELSE hs[i]
  <2>1. ts = [i \in 1..Len(hs) |-> IF i = c THEN Settled(hs[c]) ELSE hs[i]] BY <1>1
  <2>2. ts \in [1..Len(hs) -> Group] BY <2>1, <1>1, <1>2
  <2>3. ts \in Seq(Group) /\ Len(ts) = Len(hs) BY <2>2, <1>1, SeqOfFcn
  <2> QED BY <2>1, <2>3
<1>4. \A i \in 1..Len(hs) : ts[i].parent = hs[i].parent /\ ts[i].size = hs[i].size
  BY <1>2, <1>3
<1>5. SameShape(hs, ts) BY <1>3, <1>4 DEF SameShape
<1>6. PreorderTree(ts) BY <1>3, <1>5, SameShapeTree
<1>7. ASSUME NEW i \in 1..Len(hs), NEW j \in 1..Len(hs), i > 1, i \notin X \cup {c},
             Clean(ts, i), i < j, j <= i + ts[i].size
      PROVE  Clean(ts, j)
  <2>1. i \notin X /\ ts[i] = hs[i] BY <1>3, <1>7
  <2>2. Clean(hs, i) /\ j <= i + hs[i].size BY <2>1, <1>7 DEF Clean
  <2>3. Clean(hs, j) BY <2>1, <2>2, <1>1, <1>7 DEF SkipSafe
  <2>4. CASE j = c BY <2>4, <1>2, <1>3 DEF Clean
  <2>5. CASE j # c BY <2>5, <2>3, <1>3 DEF Clean
  <2> QED BY <2>4, <2>5
<1>8. DOMAIN ts = 1..Len(hs) BY <1>3, TableType
<1>9. SkipSafe(ts, X \cup {c}) BY <1>7, <1>8 DEF SkipSafe
<1>10. \A i \in 1..(c - 1) : ts[i] = hs[i] BY <1>3, <1>1
<1> QED BY <1>3, <1>4, <1>6, <1>9, <1>10

(* A new group is clean and its subtree empty: what was below a clean group*)
(* stays so.                                                               *)
LEMMA InsertSafe ==
  ASSUME NEW gs \in Seq(Group), PreorderTree(gs), NEW p \in 1..Len(gs), NEW c \in Nat,
         AtBoundary(gs, p, c), NEW k \in Keys, NEW id \in Nat,
         NEW X, \A x \in X : x < c, SkipSafe(gs, X),
         NEW hs, hs = InsertGroup(gs, c, p, k, id)
  PROVE  SkipSafe(hs, X \cup {c})
<1>1. Place(Len(gs), Siz(gs), p, c) /\ c \in 2..(Len(gs) + 1) BY BoundaryPlace
<1>2. /\ hs \in Seq(Group) /\ Len(hs) = Len(gs) + 1 /\ ~hs[c].inv /\ ~hs[c].cont
      /\ PreorderTree(hs)
  BY <1>1, InsertFacts
<1>3. \A i \in 1..(c - 1) :
              /\ hs[i].inv = gs[i].inv /\ hs[i].cont = gs[i].cont
              /\ hs[i].size = IF i <= p /\ p <= i + gs[i].size
                              THEN gs[i].size + 1 ELSE gs[i].size
  BY <1>1, InsertFacts
<1>4. \A i \in c..Len(gs) :
              /\ hs[i + 1].inv = gs[i].inv /\ hs[i + 1].cont = gs[i].cont
              /\ hs[i + 1].size = gs[i].size
  BY <1>1, InsertFacts
<1>5. /\ Len(gs) \in Nat /\ DOMAIN gs = 1..Len(gs) /\ \A i \in 1..Len(gs) : gs[i].size \in Nat
      /\ DOMAIN hs = 1..(Len(gs) + 1)
  BY <1>2, TableType
<1>6. ASSUME NEW i \in 1..(Len(gs) + 1), NEW j \in 1..(Len(gs) + 1), i > 1, i \notin X \cup {c},
             Clean(hs, i), i < j, j <= i + hs[i].size
      PROVE  Clean(hs, j)
  <2>1. CASE j = c BY <2>1, <1>2 DEF Clean
  <2>2. CASE i < c /\ j < c
    <3>1. i \in 1..(c - 1) /\ j \in 1..(c - 1) /\ i \in 1..Len(gs) /\ j \in 1..Len(gs)
      BY <2>2, <1>1, <1>5
    <3>2. j <= i + gs[i].size
      <4>1. CASE i <= p /\ p <= i + gs[i].size
        <5>1. c <= p + 1 + gs[p].size BY DEF AtBoundary
        <5>2. p + gs[p].size <= i + gs[i].size
          <6>1. CASE i = p BY <6>1, <1>5
          <6>2. CASE i # p
            <7>1. i < p BY <6>2, <4>1
            <7> QED BY <7>1, <4>1, <1>5, <3>1 DEF PreorderTree
          <6> QED BY <6>1, <6>2
        <5> QED BY <5>1, <5>2, <2>2, <3>1, <1>5
      <4>2. CASE ~(i <= p /\ p <= i + gs[i].size) BY <4>2, <3>1, <1>3, <1>6
      <4> QED BY <4>1, <4>2
    <3>3. Clean(gs, i) BY <3>1, <1>3, <1>6 DEF Clean
    <3>4. Clean(gs, j) BY <3>1, <3>2, <3>3, <1>5, <1>6 DEF SkipSafe
    <3> QED BY <3>1, <3>4, <1>3 DEF Clean
  <2>3. CASE i < c /\ j > c
    <3>1. i \in 1..(c - 1) /\ i \in 1..Len(gs) /\ j - 1 \in c..Len(gs) /\ j - 1 \in 1..Len(gs) /\ i < j - 1
          /\ (j - 1) + 1 = j
      BY <2>3, <1>1, <1>5
    <3>2. j - 1 <= i + gs[i].size
      <4>1. hs[i].size <= gs[i].size + 1 BY <3>1, <1>3, <1>5
      <4>2. hs[i].size \in Nat BY <1>2, TableType
      <4> QED BY <4>1, <4>2, <1>6, <3>1, <1>5
    <3>3. Clean(gs, i) BY <3>1, <1>3, <1>6 DEF Clean
    <3>4. Clean(gs, j - 1) BY <3>1, <3>2, <3>3, <1>5, <1>6 DEF SkipSafe
    <3>5. hs[(j - 1) + 1].inv = gs[j - 1].inv /\ hs[(j - 1) + 1].cont = gs[j - 1].cont
      BY <3>1, <1>4
    <3> QED BY <3>1, <3>4, <3>5 DEF Clean
  <2>4. CASE i > c /\ j > c
    <3>1. /\ i - 1 \in c..Len(gs) /\ i - 1 \in 1..Len(gs) /\ (i - 1) + 1 = i
          /\ j - 1 \in c..Len(gs) /\ j - 1 \in 1..Len(gs) /\ (j - 1) + 1 = j
          /\ i - 1 > 1 /\ i - 1 < j - 1
      BY <2>4, <1>1, <1>5, <1>6
    <3>2. /\ hs[i].inv = gs[i - 1].inv /\ hs[i].cont = gs[i - 1].cont /\ hs[i].size = gs[i - 1].size
      <4>1. /\ hs[(i - 1) + 1].inv = gs[i - 1].inv /\ hs[(i - 1) + 1].cont = gs[i - 1].cont
            /\ hs[(i - 1) + 1].size = gs[i - 1].size
        BY <3>1, <1>4
      <4> QED BY <3>1, <4>1
    <3>3. hs[j].inv = gs[j - 1].inv /\ hs[j].cont = gs[j - 1].cont
      <4>1. hs[(j - 1) + 1].inv = gs[j - 1].inv /\ hs[(j - 1) + 1].cont = gs[j - 1].cont
        BY <3>1, <1>4
      <4> QED BY <3>1, <4>1
    <3>4. i - 1 \notin X BY <3>1, <1>1
    <3>5. Clean(gs, i - 1) BY <3>2, <1>6 DEF Clean
    <3>6. j - 1 <= (i - 1) + gs[i - 1].size BY <3>1, <3>2, <1>5, <1>6
    <3>7. Clean(gs, j - 1) BY <3>1, <3>4, <3>5, <3>6, <1>5 DEF SkipSafe
    <3> QED BY <3>3, <3>7 DEF Clean
  <2> QED BY <2>1, <2>2, <2>3, <2>4, <1>6, <1>1
<1> QED BY <1>5, <1>6 DEF SkipSafe

-----------------------------------------------------------------------------
(* The invariant.                                                          *)

(* The inductive invariant. No conjunct but the last is inductive alone:   *)
(* the tree survives an insert or a prune only because the cursor is on a  *)
(* boundary (WalkOK), the boundary only because the tree nests, and        *)
(* SkipSound survives a return only because what the walk leaves behind is *)
(* settled (VisitedClean), which itself needs SkipSound when a subtree is  *)
(* skipped.                                                                *)
Inv == TypeOK /\ TreeOK /\ WalkOK /\ SkipSound /\ VisitedClean /\ NoSizeMismatch

(* Between walks no group is running.                                      *)
LEMMA NoneRunning == RunningIn(<<>>) = {}
BY DEF RunningIn

(* The empty session satisfies the invariant.                              *)
LEMMA InitInv == Init => Inv
<1> SUFFICES ASSUME Init PROVE Inv OBVIOUS
<1>1. groups = <<>> /\ stack = <<>> /\ pass = "idle" BY DEF Init
<1>2. groups \in Seq(Group) /\ Len(groups) = 0 /\ DOMAIN groups = {} BY <1>1
<1>3. TypeOK
  <2>1. stack \in Seq(Frame) /\ attached \in Seq([key : RootKeys, on : BOOLEAN]) BY DEF Init
  <2> QED BY <2>1, <1>2, ConstantsAssumption DEF Init, TypeOK, PassStates
<1>4. TreeOK BY <1>2 DEF TreeOK, PreorderTree
<1>5. SkipSound BY <1>2 DEF SkipSound, SkipSafe
<1>6. WalkOK /\ VisitedClean /\ NoSizeMismatch BY <1>1 DEF WalkOK, VisitedClean, NoSizeMismatch
<1> QED BY <1>3, <1>4, <1>5, <1>6 DEF Inv

(* A step that changes neither the table nor the walk keeps the invariant. *)
LEMMA TableUntouched ==
  ASSUME Inv, TypeOK', UNCHANGED <<groups, stack, cursor, pass>>
  PROVE  Inv'
BY DEF Inv, TreeOK, WalkOK, SkipSound, VisitedClean, NoSizeMismatch

(* CelsSessionAttachComposition keeps the invariant.                       *)
LEMMA AttachInv == ASSUME Inv, NEW k \in RootKeys, Attach(k) PROVE Inv'
<1>1. TypeOK BY DEF Inv
<1> DEFINE at == {i \in DOMAIN attached : attached[i].key = k}
           T == [key : RootKeys, on : BOOLEAN]
<1>2. attached \in Seq(T) BY <1>1 DEF TypeOK
<1>3. attached' \in Seq(T)
  <2>1. CASE at = {}
    <3>1. attached' = Append(attached, [key |-> k, on |-> TRUE]) BY <2>1 DEF Attach
    <3>2. [key |-> k, on |-> TRUE] \in T OBVIOUS
    <3> HIDE DEF T
    <3> QED BY <3>1, <3>2, <1>2, AppendProperties
  <2>2. CASE at # {}
    <3>1. attached' = [attached EXCEPT ![Least(at)].on = TRUE] BY <2>2 DEF Attach
    <3>2. DOMAIN attached = 1..Len(attached) /\ Len(attached) \in Nat BY <1>2, LenProperties
    <3>3. at \subseteq Nat BY <3>2
    <3>4. Least(at) \in at BY <3>3, <2>2, LeastIs
    <3> DEFINE e == [attached[Least(at)] EXCEPT !.on = TRUE]
    <3>5. Least(at) \in 1..Len(attached) BY <3>4, <3>2
    <3>6. attached[Least(at)] \in T BY <3>5, <1>2, ElementOfSeq
    <3>7. e \in T BY <3>6
    <3>8. attached' = [attached EXCEPT ![Least(at)] = e] BY <3>1
    <3> HIDE DEF e, T, at
    <3> QED BY <3>5, <3>7, <3>8, <1>2, ExceptSeq
  <2> QED BY <2>1, <2>2
<1>4. TypeOK' BY <1>1, <1>3 DEF Attach, TypeOK, tree, queues, walk
<1>5. UNCHANGED <<groups, stack, cursor, pass>> BY DEF Attach, tree, walk
<1> QED BY <1>4, <1>5, TableUntouched

(* CelsSessionDetachComposition keeps the invariant.                       *)
LEMMA DetachInv == ASSUME Inv, NEW k \in RootKeys, Detach(k) PROVE Inv'
<1>1. TypeOK BY DEF Inv
<1> DEFINE T == [key : RootKeys, on : BOOLEAN]
<1>2. attached \in Seq(T) BY <1>1 DEF TypeOK
<1>3. attached' \in Seq(T)
  <2>1. PICK i \in DOMAIN attached : attached' = [attached EXCEPT ![i].on = FALSE]
    BY DEF Detach
  <2> DEFINE e == [attached[i] EXCEPT !.on = FALSE]
  <2>2. i \in 1..Len(attached) BY <1>2, LenProperties
  <2>3. attached[i] \in T BY <2>2, <1>2, ElementOfSeq
  <2>4. e \in T BY <2>3
  <2>5. attached' = [attached EXCEPT ![i] = e] BY <2>1
  <2> HIDE DEF e, T
  <2> QED BY <2>2, <2>4, <2>5, <1>2, ExceptSeq
<1>4. TypeOK' BY <1>1, <1>3 DEF Detach, TypeOK, tree, queues, walk
<1>5. UNCHANGED <<groups, stack, cursor, pass>> BY DEF Detach, tree, walk
<1> QED BY <1>4, <1>5, TableUntouched

(* Queueing a key keeps the invariant.                                     *)
LEMMA InvalidateInv ==
  ASSUME Inv, NEW k \in Keys, InvalidateKey(k) \/ InvalidateKeyImmediate(k)
  PROVE  Inv'
<1>1. TypeOK' BY DEF Inv, TypeOK, InvalidateKey, InvalidateKeyImmediate, tree, walk
<1>2. UNCHANGED <<groups, stack, cursor, pass>>
  BY DEF InvalidateKey, InvalidateKeyImmediate, tree, walk
<1> QED BY <1>1, <1>2, TableUntouched

(* What the invariant says of the table when no group is running.          *)
LEMMA AtRest ==
  ASSUME Inv, stack = <<>>
  PROVE  /\ groups \in Seq(Group) /\ Len(groups) <= MaxGroups
         /\ DOMAIN groups = 1..Len(groups) /\ Len(groups) \in Nat
         /\ PreorderTree(groups) /\ SkipSafe(groups, {})
BY NoneRunning, TableType DEF Inv, TypeOK, TreeOK, SkipSound

(* An idle session has no open group.                                      *)
LEMMA IdleRest == ASSUME Inv, pass = "idle" PROVE stack = <<>>
BY DEF Inv, WalkOK

(* Pruning by key from the host keeps the invariant.                       *)
LEMMA HostPruneInv == ASSUME Inv, NEW k \in RootKeys, HostPrune(k) PROVE Inv'
<1>1. stack = <<>> /\ stack' = <<>> /\ pass = "idle" /\ pass' = "idle"
  BY IdleRest DEF HostPrune, walk
<1>2. groups' = PruneByKey(groups, k) BY DEF HostPrune
<1>3. /\ groups' \in Seq(Group) /\ Len(groups') <= Len(groups)
      /\ PreorderTree(groups') /\ SkipSafe(groups', {})
  BY <1>1, <1>2, AtRest, PruneByKeySafe
<1>4. Len(groups') <= MaxGroups
  BY <1>1, <1>3, AtRest, ConstantsAssumption, TableType
<1>5. TypeOK' BY <1>3, <1>4 DEF Inv, TypeOK, HostPrune, queues, walk
<1>6. TreeOK' BY <1>3 DEF TreeOK
<1>7. SkipSound' BY <1>1, <1>3, NoneRunning DEF SkipSound
<1>8. WalkOK' /\ VisitedClean' /\ NoSizeMismatch' BY <1>1 DEF WalkOK, VisitedClean, NoSizeMismatch
<1> QED BY <1>5, <1>6, <1>7, <1>8 DEF Inv

(* CelsSessionHotReload keeps the invariant.                               *)
LEMMA HotReloadInv == ASSUME Inv, HotReload PROVE Inv'
<1>1. stack = <<>> /\ stack' = <<>> /\ pass = "idle" /\ pass' = "idle"
  BY IdleRest DEF HotReload, walk
<1>2. groups' = Reloaded(groups) BY DEF HotReload
<1>3. /\ groups' \in Seq(Group) /\ SameShape(groups, groups')
      /\ PreorderTree(groups') /\ SkipSafe(groups', {})
  BY <1>1, <1>2, AtRest, ReloadedFacts
<1>4. Len(groups') <= MaxGroups BY <1>1, <1>3, AtRest DEF SameShape
<1>5. TypeOK' BY <1>3, <1>4 DEF Inv, TypeOK, HotReload, queues, walk
<1>6. TreeOK' BY <1>3 DEF TreeOK
<1>7. SkipSound' BY <1>1, <1>3, NoneRunning DEF SkipSound
<1>8. WalkOK' /\ VisitedClean' /\ NoSizeMismatch' BY <1>1 DEF WalkOK, VisitedClean, NoSizeMismatch
<1> QED BY <1>5, <1>6, <1>7, <1>8 DEF Inv

(* Draining the queue and rewinding the cursor keeps the invariant.        *)
LEMMA BeginIterationInv ==
  ASSUME Inv, stack = <<>>, stack' = <<>>, pass' = "pass",
         NEW n \in 1..MaxDrain, NEW Q, BeginIteration(n, Q),
         nextId' = nextId, attached' = attached, nextQueue' \subseteq Keys
  PROVE  Inv'
<1>1. groups' = Drained(groups, Q) BY DEF BeginIteration
<1>2. /\ groups' \in Seq(Group) /\ SameShape(groups, groups')
      /\ PreorderTree(groups') /\ SkipSafe(groups', {})
  BY <1>1, AtRest, DrainedFacts
<1>3. Len(groups') <= MaxGroups BY <1>2, AtRest DEF SameShape
<1>4. TypeOK'
  BY <1>2, <1>3, ConstantsAssumption DEF Inv, TypeOK, BeginIteration, PassStates
<1>5. TreeOK' BY <1>2 DEF TreeOK
<1>6. SkipSound' BY <1>2, NoneRunning DEF SkipSound
<1>7. cursor' = 1 BY DEF BeginIteration
<1>8. VisitedClean'
  <2>1. DOMAIN groups' = 1..Len(groups') BY <1>2, TableType
  <2> QED BY <2>1, <1>7 DEF VisitedClean
<1>9. WalkOK' /\ NoSizeMismatch' BY <1>7 DEF WalkOK, NoSizeMismatch
<1> QED BY <1>4, <1>5, <1>6, <1>8, <1>9 DEF Inv

(* The first drain iteration keeps the invariant.                          *)
LEMMA RecomposeInv == ASSUME Inv, Recompose PROVE Inv'
<1>1. stack = <<>> BY IdleRest DEF Recompose
<1>2. 1 \in 1..MaxDrain BY ConstantsAssumption
<1>3. BeginIteration(1, queue \cup nextQueue) /\ nextQueue' = {} BY DEF Recompose
<1>4. stack' = <<>> /\ pass' = "pass" /\ nextId' = nextId /\ attached' = attached
  BY <1>1 DEF Recompose
<1> QED BY <1>1, <1>2, <1>3, <1>4, BeginIterationInv

(* A further drain iteration keeps the invariant.                          *)
LEMMA NextIterationInv == ASSUME Inv, NextIteration PROVE Inv'
<1>1. stack = <<>> /\ pass = "pass" BY DEF NextIteration, BetweenCompositions
<1>2. iterations + 1 \in 1..MaxDrain /\ nextQueue' \subseteq Keys
  BY ConstantsAssumption DEF Inv, TypeOK, NextIteration
<1>3. BeginIteration(iterations + 1, queue) BY DEF NextIteration
<1>4. stack' = <<>> /\ pass' = "pass" /\ nextId' = nextId /\ attached' = attached
  BY <1>1 DEF NextIteration
<1> QED BY <1>1, <1>2, <1>3, <1>4, BeginIterationInv

(* The steps between compositions that leave the table alone keep the      *)
(* invariant.                                                              *)
LEMMA BetweenInv ==
  ASSUME Inv, SkipDetached \/ EnterCompositionFull \/ DidNotConverge \/ Converge
  PROVE  Inv'
<1>1. stack = <<>> /\ pass = "pass"
  BY DEF SkipDetached, EnterCompositionFull, DidNotConverge, Converge, BetweenCompositions
<1>2. /\ groups' = groups /\ stack' = stack /\ cursor' = cursor
      /\ nextId' = nextId /\ attached' = attached
      /\ queue' \subseteq Keys /\ nextQueue' \subseteq Keys
      /\ comp' \in Nat /\ iterations' \in 0..MaxDrain
      /\ pass' \in {"idle", "pass", "unmatched"}
  BY <1>1, ConstantsAssumption DEF SkipDetached, EnterCompositionFull, DidNotConverge, Converge,
     Return, tree, queues, Inv, TypeOK
<1>3. TypeOK' BY <1>2 DEF Inv, TypeOK, PassStates
<1>4. TreeOK' /\ SkipSound' BY <1>2 DEF Inv, TreeOK, SkipSound
<1>5. WalkOK' /\ VisitedClean' BY <1>1, <1>2 DEF Inv, WalkOK, VisitedClean
<1>6. NoSizeMismatch' BY <1>2 DEF NoSizeMismatch
<1> QED BY <1>3, <1>4, <1>5, <1>6 DEF Inv

(* Ending a composition keeps the invariant.                               *)
LEMMA EndCompositionInv == ASSUME Inv, EndComposition PROVE Inv'
<1>1. stack = <<>> /\ stack' = <<>> /\ pass = "pass" /\ pass' = "pass" /\ cursor' = cursor
  BY DEF EndComposition, BetweenCompositions
<1>2. groups' = PruneByKey(groups, attached[comp].key) BY DEF EndComposition
<1>3. /\ groups' \in Seq(Group) /\ Len(groups') <= Len(groups)
      /\ PreorderTree(groups') /\ SkipSafe(groups', {})
      /\ (\A i \in DOMAIN groups : i > 1 => Clean(groups, i)) =>
           (\A i \in DOMAIN groups' : i > 1 => Clean(groups', i))
  BY <1>1, <1>2, AtRest, PruneByKeySafe
<1>4. /\ Len(groups) \in Nat /\ Len(groups') \in Nat /\ Len(groups) <= MaxGroups
      /\ DOMAIN groups = 1..Len(groups) /\ DOMAIN groups' = 1..Len(groups')
  BY <1>1, <1>3, AtRest, TableType
<1>5. cursor = 1 \/ cursor > Len(groups) BY <1>1 DEF Inv, WalkOK
<1>6. cursor \in Nat BY DEF Inv, TypeOK
<1>7. Len(groups') <= MaxGroups BY <1>3, <1>4, ConstantsAssumption
<1>8. TypeOK'
  BY <1>3, <1>7 DEF Inv, TypeOK, EndComposition, queues
<1>9. TreeOK' BY <1>3 DEF TreeOK
<1>10. SkipSound' BY <1>1, <1>3, NoneRunning DEF SkipSound
<1>11. WalkOK' BY <1>1, <1>3, <1>4, <1>5, <1>6 DEF WalkOK
<1>12. VisitedClean'
  <2>1. CASE cursor = 1 BY <2>1, <1>1, <1>4 DEF VisitedClean
  <2>2. CASE cursor > Len(groups)
    <3>1. \A i \in DOMAIN groups : i > 1 => Clean(groups, i)
      BY <2>2, <1>1, <1>4, <1>6 DEF Inv, VisitedClean
    <3> QED BY <3>1, <1>3 DEF VisitedClean
  <2> QED BY <2>1, <2>2, <1>5
<1>13. NoSizeMismatch' BY <1>1 DEF NoSizeMismatch
<1> QED BY <1>8, <1>9, <1>10, <1>11, <1>12, <1>13 DEF Inv

(* Opening the root, kept, replaced or new, keeps the invariant.           *)
LEMMA EnterCompositionInv == ASSUME Inv, EnterComposition PROVE Inv'
<1> DEFINE f == [idx |-> 1, active |-> TRUE, end |-> 0]
<1>1. stack = <<>> /\ pass = "pass" /\ pass' = "pass" /\ cursor' = 2 /\ stack' = <<f>>
  BY DEF EnterComposition, BetweenCompositions
<1>2. PICK k \in Keys : k = attached[comp].key
  <2>1. attached[comp] \in [key : RootKeys, on : BOOLEAN]
    <3> DEFINE T == [key : RootKeys, on : BOOLEAN]
    <3>1. attached \in Seq(T) /\ comp \in DOMAIN attached BY DEF EnterComposition, Inv, TypeOK
    <3> HIDE DEF T
    <3>2. attached[comp] \in T BY <3>1, LenProperties, ElementOfSeq
    <3> QED BY <3>2 DEF T
  <2> QED BY <2>1, ConstantsAssumption
<1>3. /\ groups \in Seq(Group) /\ Len(groups) <= MaxGroups /\ Len(groups) \in Nat
      /\ PreorderTree(groups) /\ SkipSafe(groups, {})
  BY <1>1, AtRest
<1>4. nextId \in Nat \ {0} BY DEF Inv, TypeOK
<1>5. \/ groups' = groups /\ groups # <<>> /\ nextId' = nextId
      \/ groups' = <<NewGroup(k, nextId, 1)>> /\ nextId' = nextId + 1
  <2>1. CASE groups = <<>> BY <2>1, <1>2 DEF EnterComposition
  <2>2. CASE groups # <<>> /\ groups[1].key = k
    BY <2>2, <1>2 DEF EnterComposition
  <2>3. CASE groups # <<>> /\ groups[1].key # k
    <3>1. Len(groups) >= 1 BY <2>3, <1>3, EmptySeq
    <3>2. PruneSubtree(groups, 1) = <<>> BY <3>1, <1>3, PruneRoot
    <3> QED BY <3>2, <2>3, <1>2 DEF EnterComposition
  <2> QED BY <2>1, <2>2, <2>3
<1>6. /\ groups' \in Seq(Group) /\ Len(groups') <= MaxGroups /\ Len(groups') \in Nat \ {0}
      /\ PreorderTree(groups') /\ SkipSafe(groups', {}) /\ nextId' \in Nat \ {0}
  <2>1. CASE groups' = groups /\ groups # <<>> /\ nextId' = nextId
    <3>1. Len(groups) # 0 BY <2>1, <1>3, EmptySeq
    <3> QED BY <2>1, <3>1, <1>3, <1>4
  <2>2. CASE groups' = <<NewGroup(k, nextId, 1)>> /\ nextId' = nextId + 1
    <3> DEFINE g == NewGroup(k, nextId, 1)
    <3>1. g \in Group /\ g.parent = 1 /\ g.size = 0 BY <1>4 DEF NewGroup, Group
    <3> HIDE DEF g
    <3>2. groups' = <<g>> BY <2>2 DEF g
    <3>3. groups' \in Seq(Group) /\ Len(groups') = 1 /\ DOMAIN groups' = {1} /\ groups'[1] = g
      BY <3>1, <3>2
    <3>4. PreorderTree(groups')
      <4>1. \A i \in DOMAIN groups' : i = 1 BY <3>3
      <4> QED BY <4>1, <3>1, <3>3 DEF PreorderTree
    <3>5. SkipSafe(groups', {}) BY <3>3 DEF SkipSafe
    <3> QED BY <3>3, <3>4, <3>5, <2>2, <1>4, ConstantsAssumption
  <2> QED BY <1>5, <2>1, <2>2
<1>7. DOMAIN groups' = 1..Len(groups') /\ groups'[1].size = Len(groups') - 1
  <2>1. DOMAIN groups' = 1..Len(groups') BY <1>6, TableType
  <2>2. 1 \in DOMAIN groups' BY <2>1, <1>6
  <2> QED BY <2>1, <2>2, <1>6 DEF PreorderTree
<1>8. stack' \in Seq(Frame) /\ Len(stack') = 1 /\ stack'[1] = f
  <2>1. f \in Frame BY DEF Frame
  <2> HIDE DEF f
  <2> QED BY <2>1, <1>1
<1>9. OpenPath(groups', stack', cursor')
  <2>1. AtBoundary(groups', 1, 2) BY <1>6, <1>7 DEF AtBoundary
  <2> QED BY <2>1, <1>1, <1>6, <1>7, <1>8 DEF OpenPath, Innermost
<1>10. TypeOK'
  BY <1>1, <1>6, <1>8 DEF Inv, TypeOK, EnterComposition, queues
<1>11. TreeOK' BY <1>6 DEF TreeOK
<1>12. SkipSound'
  <2>1. {} \subseteq RunningIn(stack') OBVIOUS
  <2>2. SkipSafe(groups', RunningIn(stack')) BY <2>1, <1>6, MoreRunning
  <2> QED BY <2>2 DEF SkipSound
<1>13. WalkOK'
  <2>1. stack' # <<>> BY <1>1
  <2> QED BY <2>1, <1>1, <1>9 DEF WalkOK
<1>14. VisitedClean' BY <1>1, <1>7, <1>6 DEF VisitedClean
<1>15. NoSizeMismatch' BY <1>1 DEF NoSizeMismatch
<1> QED BY <1>10, <1>11, <1>12, <1>13, <1>14, <1>15 DEF Inv

(* What the invariant gives a running body.                                *)
LEMMA BodyFacts ==
  ASSUME Inv, Running
  PROVE  /\ groups \in Seq(Group) /\ Len(groups) \in Nat /\ Len(groups) <= MaxGroups
         /\ DOMAIN groups = 1..Len(groups)
         /\ PreorderTree(groups)
         /\ stack \in Seq(Frame) /\ stack # <<>> /\ Len(stack) \in Nat \ {0}
         /\ stack[Len(stack)] = Top /\ Top \in Frame
         /\ cursor \in Nat
         /\ OpenPath(groups, stack, cursor)
         /\ SkipSafe(groups, RunningIn(stack))
         /\ \A i \in 1..Len(groups) : i > 1 /\ i < cursor => Clean(groups, i)
         /\ \A x \in RunningIn(stack) : x < cursor
         /\ Top.active => Top.idx \in 1..Len(groups) /\ AtBoundary(groups, Top.idx, cursor)
<1>1. pass = "pass" /\ stack # <<>> BY DEF Running
<1>2. groups \in Seq(Group) /\ Len(groups) <= MaxGroups /\ stack \in Seq(Frame) /\ cursor \in Nat
  BY DEF Inv, TypeOK
<1>3. Len(groups) \in Nat /\ DOMAIN groups = 1..Len(groups) BY <1>2, TableType
<1>4. PreorderTree(groups) /\ SkipSafe(groups, RunningIn(stack)) BY DEF Inv, TreeOK, SkipSound
<1>5. OpenPath(groups, stack, cursor) BY <1>1 DEF Inv, WalkOK
<1>6. Len(stack) \in Nat \ {0} /\ DOMAIN stack = 1..Len(stack)
  BY <1>1, <1>2, LenProperties, EmptySeq
<1>7. Top = stack[Len(stack)] /\ Top \in Frame
  <2>1. Len(stack) \in 1..Len(stack) BY <1>6
  <2> QED BY <2>1, <1>2, ElementOfSeq DEF Top
<1>8. \A i \in 1..Len(groups) : i > 1 /\ i < cursor => Clean(groups, i)
  BY <1>1, <1>3 DEF Inv, VisitedClean
<1>9. \A d \in 1..Len(stack) : stack[d].active => stack[d].idx \in 1..Len(groups) /\ stack[d].idx < cursor
  BY <1>5 DEF OpenPath
<1>10. \A x \in RunningIn(stack) : x < cursor BY <1>6, <1>9 DEF RunningIn
<1>11. ASSUME Top.active PROVE Top.idx \in 1..Len(groups) /\ AtBoundary(groups, Top.idx, cursor)
  <2>1. Len(stack) \in 1..Len(stack) BY <1>6
  <2>2. AtBoundary(groups, Top.idx, cursor) BY <1>5, <1>7, <1>11 DEF OpenPath, Innermost
  <2> QED BY <2>1, <2>2, <1>7, <1>9, <1>11
<1> QED BY <1>1, <1>2, <1>3, <1>4, <1>5, <1>6, <1>7, <1>8, <1>10, <1>11

(* What a step of the walk must show to keep the invariant.                *)
LEMMA WalkStep ==
  ASSUME groups' \in Seq(Group), Len(groups') <= MaxGroups, PreorderTree(groups'),
         stack' \in Seq(Frame), stack' # <<>>, cursor' \in Nat \ {0}, pass' = "pass",
         OpenPath(groups', stack', cursor'),
         SkipSafe(groups', RunningIn(stack')),
         \A i \in 1..Len(groups') : i > 1 /\ i < cursor' => Clean(groups', i),
         Inv, UNCHANGED <<queues, attached, comp, iterations>>, nextId' \in Nat \ {0}
  PROVE  Inv'
<1>1. DOMAIN groups' = 1..Len(groups') BY TableType
<1>2. TypeOK' BY DEF Inv, TypeOK, PassStates, queues
<1>3. TreeOK' /\ SkipSound' BY DEF TreeOK, SkipSound
<1>4. WalkOK' BY DEF WalkOK
<1>5. VisitedClean' BY <1>1 DEF VisitedClean
<1>6. NoSizeMismatch' BY DEF NoSizeMismatch
<1> QED BY <1>2, <1>3, <1>4, <1>5, <1>6 DEF Inv

(* An entry refused for depth or for a full table keeps the invariant.     *)
LEMMA NotEnteredInv ==
  ASSUME Inv, NEW k, EnterTooDeep \/ EnterFull(k)
  PROVE  Inv'
<1>1. Running /\ Top.active /\ Top.end = 0 /\ pass' = "pass" /\ Push(0, FALSE)
      /\ UNCHANGED <<queues, attached, comp, iterations, cursor, groups, nextId>>
  BY DEF EnterTooDeep, EnterFull, InBody, Running, tree
<1>2. /\ groups \in Seq(Group) /\ Len(groups) \in Nat /\ Len(groups) <= MaxGroups
      /\ PreorderTree(groups)
      /\ stack \in Seq(Frame) /\ stack # <<>> /\ stack[Len(stack)] = Top
      /\ cursor \in Nat /\ OpenPath(groups, stack, cursor)
      /\ SkipSafe(groups, RunningIn(stack))
      /\ \A i \in 1..Len(groups) : i > 1 /\ i < cursor => Clean(groups, i)
      /\ Top.idx \in 1..Len(groups) /\ AtBoundary(groups, Top.idx, cursor)
  BY <1>1, BodyFacts
<1>3. cursor <= Len(groups) + 1
  BY <1>2, BoundaryPlace
<1>4. stack' = Append(stack, [idx |-> 0, active |-> FALSE, end |-> 0]) BY <1>1 DEF Push
<1>5. /\ stack[Len(stack)].active /\ stack[Len(stack)].end = 0
      /\ AtBoundary(groups, stack[Len(stack)].idx, cursor) BY <1>1, <1>2
<1>6. \A i \in 1..(cursor - 1) : groups[i].parent = groups[i].parent OBVIOUS
<1>7. cursor <= cursor BY <1>2
<1>8. /\ stack' \in Seq(Frame) /\ stack' # <<>> /\ OpenPath(groups, stack', cursor)
      /\ RunningIn(stack') = RunningIn(stack)
  <2>1. /\ groups \in Seq(Group) /\ stack \in Seq(Frame) /\ stack # <<>>
        /\ cursor \in Nat /\ OpenPath(groups, stack, cursor) /\ 0 \in Nat
    BY <1>2
  <2>2. Passes(groups, groups, stack, cursor, cursor, 0, stack')
    BY <2>1, <1>3, <1>4, <1>5, <1>6, <1>7 DEF Passes
  <2> QED BY <2>2, PushInactive
<1>9. stack' # <<>> BY <1>8
<1>10. cursor \in Nat \ {0} /\ nextId \in Nat \ {0} BY DEF Inv, TypeOK
<1> QED BY <1>1, <1>2, <1>8, <1>9, <1>10, WalkStep

(* The table once the key's group stands at the cursor.                    *)
LEMMA EnterFacts ==
  ASSUME Inv, InBody, NEW k, Matches(k) # {}
  PROVE  /\ Relocated(k) \in Seq(Group)
         /\ Len(Relocated(k)) = Len(groups)
         /\ cursor \in 2..Len(groups)
         /\ PreorderTree(Relocated(k))
         /\ \A i \in 1..(cursor - 1) : Relocated(k)[i] = groups[i]
         /\ Relocated(k)[cursor].parent = Top.idx
         /\ SkipSafe(Relocated(k), RunningIn(stack))
<1>1. Running /\ Top.active /\ Top.end = 0 BY DEF InBody
<1>2. /\ groups \in Seq(Group) /\ Len(groups) \in Nat /\ PreorderTree(groups)
      /\ cursor \in Nat
      /\ SkipSafe(groups, RunningIn(stack))
      /\ \A x \in RunningIn(stack) : x < cursor
      /\ Top.idx \in 1..Len(groups) /\ AtBoundary(groups, Top.idx, cursor)
  BY <1>1, BodyFacts
<1>3. Matches(k) \subseteq Siblings(groups, cursor, Top.idx + 1 + groups[Top.idx].size)
  BY DEF Matches, ParentEnd
<1>4. Matches(k) \subseteq Nat
  <2>1. groups[Top.idx].size \in Nat BY <1>2, TableType
  <2> QED BY <1>3, <1>2, <2>1 DEF Siblings
<1>5. Least(Matches(k)) \in Matches(k) BY <1>4, LeastIs
<1>6. PICK m \in Siblings(groups, cursor, Top.idx + 1 + groups[Top.idx].size) : m = Least(Matches(k))
  BY <1>3, <1>5
<1>7. Relocated(k) = IF m = cursor THEN groups ELSE MoveSubtree(groups, m, cursor)
  BY <1>6 DEF Relocated
<1>8. PICK hs : hs = Relocated(k) OBVIOUS
<1>9. PICK p \in 1..Len(groups) : p = Top.idx BY <1>2
<1>10. m \in Siblings(groups, cursor, p + 1 + groups[p].size) /\ AtBoundary(groups, p, cursor)
  BY <1>2, <1>9
<1>11. /\ hs \in Seq(Group)
       /\ Len(hs) = Len(groups)
       /\ cursor \in 2..Len(hs)
       /\ PreorderTree(hs)
       /\ \A i \in 1..(cursor - 1) : hs[i] = groups[i]
       /\ hs[cursor].parent = p
       /\ SkipSafe(hs, RunningIn(stack))
  <2>1. hs = IF m = cursor THEN groups ELSE MoveSubtree(groups, m, cursor) BY <1>7, <1>8
  <2>2. groups \in Seq(Group) /\ PreorderTree(groups) /\ cursor \in Nat
        /\ SkipSafe(groups, RunningIn(stack))
    BY <1>2
  <2>3. \A x \in RunningIn(stack) : x < cursor BY <1>2
  <2>4. Relocates(groups, p, cursor, RunningIn(stack), m, hs)
    BY <2>1, <2>2, <2>3, <1>10 DEF Relocates
  <2> QED BY <2>4, RelocatedFacts
<1> QED BY <1>8, <1>9, <1>11

(* Skipping a clean subtree keeps the invariant: this is where SkipSound is*)
(* needed.                                                                 *)
LEMMA EnterCleanInv == ASSUME Inv, NEW k \in Keys, EnterClean(k) PROVE Inv'
<1>1. /\ InBody /\ Running /\ Top.active /\ Top.end = 0 /\ pass' = "pass" /\ Push(cursor, FALSE)
      /\ UNCHANGED <<queues, attached, comp, iterations, nextId>>
      /\ Matches(k) # {} /\ groups' = Relocated(k)
      /\ Clean(groups', cursor) /\ cursor' = cursor + 1 + groups'[cursor].size
  BY DEF EnterClean, InBody, Running, Clean, PastSubtree
<1>2. /\ groups \in Seq(Group) /\ Len(groups) \in Nat /\ Len(groups) <= MaxGroups
      /\ stack \in Seq(Frame) /\ stack # <<>> /\ stack[Len(stack)] = Top
      /\ cursor \in Nat /\ OpenPath(groups, stack, cursor)
      /\ \A i \in 1..Len(groups) : i > 1 /\ i < cursor => Clean(groups, i)
      /\ \A x \in RunningIn(stack) : x < cursor
  BY <1>1, BodyFacts
<1>3. /\ groups' \in Seq(Group) /\ Len(groups') = Len(groups)
      /\ cursor \in 2..Len(groups) /\ PreorderTree(groups')
      /\ \A i \in 1..(cursor - 1) : groups'[i] = groups[i]
      /\ groups'[cursor].parent = Top.idx
      /\ SkipSafe(groups', RunningIn(stack))
  BY <1>1, EnterFacts
<1>4. /\ AtBoundary(groups', Top.idx, cursor') /\ cursor' \in 2..(Len(groups') + 1)
  <2>1. cursor \in 2..Len(groups') BY <1>3
  <2>2. AtBoundary(groups', Top.idx, cursor + 1 + groups'[cursor].size)
        /\ cursor + 1 + groups'[cursor].size \in 2..(Len(groups') + 1)
    BY <1>3, <2>1, BoundaryAfterChild
  <2> QED BY <2>2, <1>1
<1>5. groups'[cursor].size \in Nat /\ cursor' >= cursor BY <1>1, <1>3, TableType
<1>6. /\ stack' \in Seq(Frame) /\ stack' # <<>> /\ OpenPath(groups', stack', cursor')
      /\ RunningIn(stack') = RunningIn(stack)
  <2>1. stack' = Append(stack, [idx |-> cursor, active |-> FALSE, end |-> 0]) BY <1>1 DEF Push
  <2>2. /\ stack[Len(stack)].active /\ stack[Len(stack)].end = 0
        /\ AtBoundary(groups', stack[Len(stack)].idx, cursor') BY <1>1, <1>2, <1>4
  <2>3. \A i \in 1..(cursor - 1) : groups'[i].parent = groups[i].parent BY <1>3
  <2>4. cursor' \in Nat /\ cursor <= cursor' /\ cursor <= Len(groups') + 1 BY <1>2, <1>3, <1>4, <1>5
  <2>5. /\ groups \in Seq(Group) /\ groups' \in Seq(Group) /\ stack \in Seq(Frame) /\ stack # <<>>
        /\ cursor \in Nat /\ OpenPath(groups, stack, cursor)
    BY <1>2, <1>3
  <2>6. Passes(groups, groups', stack, cursor, cursor', cursor, stack')
    BY <2>1, <2>2, <2>3, <2>4, <2>5 DEF Passes
  <2> QED BY <2>6, PushInactive
<1>7. ASSUME NEW i \in 1..Len(groups'), i > 1, i < cursor' PROVE Clean(groups', i)
  <2>1. CASE i < cursor
    <3>1. groups'[i] = groups[i] /\ Clean(groups, i) BY <2>1, <1>2, <1>3, <1>7
    <3> QED BY <3>1 DEF Clean
  <2>2. CASE i = cursor BY <2>2, <1>1
  <2>3. CASE i > cursor
    <3>1. DOMAIN groups' = 1..Len(groups') BY <1>3, TableType
    <3>2. cursor \notin RunningIn(stack) BY <1>2
    <3>3. i <= cursor + groups'[cursor].size BY <1>1, <1>3, <1>5, <1>7
    <3>4. cursor > 1 /\ cursor \in DOMAIN groups' /\ i \in DOMAIN groups' /\ cursor < i
      BY <1>3, <3>1, <2>3
    <3> QED BY <3>2, <3>3, <3>4, <1>1, <1>3 DEF SkipSafe
  <2> QED BY <2>1, <2>2, <2>3, <1>2
<1>8. stack' # <<>> BY <1>6
<1>9. nextId' \in Nat \ {0} BY <1>1 DEF Inv, TypeOK
<1>10. Len(groups') <= MaxGroups /\ cursor' \in Nat \ {0} /\ SkipSafe(groups', RunningIn(stack'))
  BY <1>2, <1>3, <1>4, <1>6
<1> QED BY <1>1, <1>3, <1>6, <1>7, <1>8, <1>9, <1>10, WalkStep

(* Re-running a dirty group keeps the invariant.                           *)
LEMMA EnterDirtyInv == ASSUME Inv, NEW k \in Keys, EnterDirty(k) PROVE Inv'
<1>1. /\ InBody /\ Running /\ Top.active /\ Top.end = 0 /\ pass' = "pass" /\ Push(cursor, TRUE)
      /\ UNCHANGED <<queues, attached, comp, iterations, nextId>>
      /\ Matches(k) # {} /\ cursor' = cursor + 1
  BY DEF EnterDirty, InBody, Running
<1>2. PICK hs : hs = Relocated(k) /\ groups' = [hs EXCEPT ![cursor] = Settled(hs[cursor])]
  BY DEF EnterDirty
<1>3. /\ groups \in Seq(Group) /\ Len(groups) \in Nat /\ Len(groups) <= MaxGroups
      /\ stack \in Seq(Frame) /\ stack # <<>> /\ stack[Len(stack)] = Top
      /\ cursor \in Nat /\ OpenPath(groups, stack, cursor)
      /\ \A i \in 1..Len(groups) : i > 1 /\ i < cursor => Clean(groups, i)
  BY <1>1, BodyFacts
<1>4. /\ hs \in Seq(Group) /\ Len(hs) = Len(groups)
      /\ cursor \in 2..Len(groups) /\ PreorderTree(hs)
      /\ \A i \in 1..(cursor - 1) : hs[i] = groups[i]
      /\ hs[cursor].parent = Top.idx
      /\ SkipSafe(hs, RunningIn(stack))
  BY <1>1, <1>2, EnterFacts
<1>5. /\ groups' \in Seq(Group) /\ Len(groups') = Len(hs) /\ PreorderTree(groups')
      /\ \A i \in 1..Len(hs) : groups'[i].parent = hs[i].parent
      /\ \A i \in 1..(cursor - 1) : groups'[i] = hs[i]
      /\ SkipSafe(groups', RunningIn(stack) \cup {cursor})
  <2>1. cursor \in 2..Len(hs) BY <1>4
  <2>2. Settles(hs, cursor, RunningIn(stack), groups')
    BY <2>1, <1>2, <1>4 DEF Settles
  <2>3. groups' \in Seq(Group) /\ Len(groups') = Len(hs) /\ PreorderTree(groups')
    BY <2>2, SettledFacts
  <2>4. SkipSafe(groups', RunningIn(stack) \cup {cursor}) BY <2>2, SettledFacts
  <2>a. DOMAIN hs = 1..Len(hs) /\ hs[cursor] \in Group BY <2>1, <1>4, TableType
  <2>b. \A i \in 1..Len(hs) : groups'[i] = IF i = cursor THEN Settled(hs[cursor]) ELSE hs[i]
    BY <2>a, <1>2
  <2>c. Settled(hs[cursor]).parent = hs[cursor].parent BY <2>a, FieldsSettled
  <2>5. \A i \in 1..Len(hs) : groups'[i].parent = hs[i].parent BY <2>b, <2>c
  <2>6. \A i \in 1..(cursor - 1) : groups'[i] = hs[i] BY <2>b, <1>4
  <2> QED BY <2>3, <2>4, <2>5, <2>6
<1>6. /\ stack' \in Seq(Frame) /\ stack' # <<>> /\ OpenPath(groups', stack', cursor + 1)
      /\ RunningIn(stack') = RunningIn(stack) \cup {cursor}
  <2>1. stack' = Append(stack, [idx |-> cursor, active |-> TRUE, end |-> 0]) BY <1>1 DEF Push
  <2>2. \A i \in 1..(cursor - 1) : groups'[i].parent = groups[i].parent
    BY <1>4, <1>5
  <2>3. groups'[cursor].parent = stack[Len(stack)].idx /\ cursor \in 1..Len(groups')
    BY <1>3, <1>4, <1>5
  <2>4. Starts(groups, groups', stack, cursor, stack')
    BY <2>1, <2>2, <2>3, <1>1, <1>3, <1>5 DEF Starts
  <2> QED BY <2>4, PushActive
<1>7. ASSUME NEW i \in 1..Len(groups'), i > 1, i < cursor' PROVE Clean(groups', i)
  <2>1. CASE i < cursor
    <3>1. groups'[i] = groups[i] /\ Clean(groups, i) BY <2>1, <1>3, <1>4, <1>5, <1>7
    <3> QED BY <3>1 DEF Clean
  <2>2. CASE i = cursor
    <3>1. hs[cursor] \in Group /\ cursor \in DOMAIN hs BY <1>4, TableType
    <3>2. groups'[cursor] = Settled(hs[cursor]) BY <1>2, <3>1
    <3> QED BY <2>2, <3>1, <3>2, FieldsSettled DEF Clean
  <2> QED BY <2>1, <2>2, <1>1, <1>3, <1>7
<1>8. stack' # <<>> BY <1>6
<1>9. nextId' \in Nat \ {0} BY <1>1 DEF Inv, TypeOK
<1>10. /\ Len(groups') <= MaxGroups /\ cursor' \in Nat \ {0} /\ OpenPath(groups', stack', cursor')
       /\ SkipSafe(groups', RunningIn(stack'))
  BY <1>1, <1>3, <1>4, <1>5, <1>6
<1> QED BY <1>1, <1>5, <1>6, <1>7, <1>8, <1>9, <1>10, WalkStep

(* Mounting a new group keeps the invariant.                               *)
LEMMA EnterNewInv == ASSUME Inv, NEW k \in Keys, EnterNew(k) PROVE Inv'
<1>1. /\ Running /\ Top.active /\ Top.end = 0 /\ pass' = "pass" /\ Push(cursor, TRUE)
      /\ UNCHANGED <<queues, attached, comp, iterations>>
      /\ nextId' = nextId + 1 /\ cursor' = cursor + 1 /\ ~(Len(groups) >= MaxGroups)
      /\ groups' = InsertGroup(groups, cursor, Top.idx, k, nextId)
  BY DEF EnterNew, InBody, Running, Full
<1>2. /\ groups \in Seq(Group) /\ Len(groups) \in Nat /\ PreorderTree(groups)
      /\ DOMAIN groups = 1..Len(groups)
      /\ stack \in Seq(Frame) /\ stack # <<>> /\ stack[Len(stack)] = Top
      /\ cursor \in Nat /\ OpenPath(groups, stack, cursor)
      /\ SkipSafe(groups, RunningIn(stack))
      /\ \A i \in 1..Len(groups) : i > 1 /\ i < cursor => Clean(groups, i)
      /\ \A x \in RunningIn(stack) : x < cursor
      /\ Top.idx \in 1..Len(groups) /\ AtBoundary(groups, Top.idx, cursor)
  BY <1>1, BodyFacts
<1>3. nextId \in Nat \ {0} BY DEF Inv, TypeOK
<1>4. PICK p \in 1..Len(groups) : p = Top.idx BY <1>2
<1>5. PICK hs : hs = InsertGroup(groups, cursor, p, k, nextId) BY <1>1
<1>6. Place(Len(groups), Siz(groups), p, cursor) /\ cursor \in 2..(Len(groups) + 1)
  BY <1>2, <1>4, BoundaryPlace
<1>7. /\ hs \in Seq(Group) /\ Len(hs) = Len(groups) + 1 /\ PreorderTree(hs)
      /\ hs[cursor].parent = p /\ ~hs[cursor].inv /\ ~hs[cursor].cont
  <2>1. nextId \in Nat BY <1>3
  <2> QED BY <2>1, <1>2, <1>5, <1>6, InsertFacts
<1>8. \A i \in 1..(cursor - 1) : /\ hs[i].parent = groups[i].parent
                                 /\ hs[i].inv = groups[i].inv /\ hs[i].cont = groups[i].cont
  <2>1. nextId \in Nat BY <1>3
  <2> QED BY <2>1, <1>2, <1>5, <1>6, InsertFacts, SMTT(30)
<1>9. SkipSafe(hs, RunningIn(stack) \cup {cursor})
  <2>1. nextId \in Nat BY <1>3
  <2>2. AtBoundary(groups, p, cursor) BY <1>2, <1>4
  <2> QED BY <2>1, <2>2, <1>2, <1>5, InsertSafe
<1>10. groups' = hs BY <1>1, <1>4, <1>5
<1>11. /\ stack' \in Seq(Frame) /\ stack' # <<>> /\ OpenPath(groups', stack', cursor + 1)
       /\ RunningIn(stack') = RunningIn(stack) \cup {cursor}
  <2>1. stack' = Append(stack, [idx |-> cursor, active |-> TRUE, end |-> 0]) BY <1>1 DEF Push
  <2>2. \A i \in 1..(cursor - 1) : groups'[i].parent = groups[i].parent BY <1>8, <1>10
  <2>3. groups'[cursor].parent = stack[Len(stack)].idx /\ cursor \in 1..Len(groups')
    BY <1>2, <1>4, <1>6, <1>7, <1>10
  <2>4. groups' \in Seq(Group) BY <1>7, <1>10
  <2>5. Starts(groups, groups', stack, cursor, stack')
    BY <2>1, <2>2, <2>3, <2>4, <1>1, <1>2 DEF Starts
  <2> QED BY <2>5, PushActive
<1>12. ASSUME NEW i \in 1..Len(groups'), i > 1, i < cursor' PROVE Clean(groups', i)
  <2>1. CASE i < cursor
    <3>1. i \in 1..(cursor - 1) /\ i \in 1..Len(groups) BY <2>1, <1>2, <1>6, <1>12
    <3>2. Clean(groups, i) BY <3>1, <2>1, <1>2, <1>12
    <3> QED BY <3>1, <3>2, <1>8, <1>10 DEF Clean
  <2>2. CASE i = cursor BY <2>2, <1>7, <1>10 DEF Clean
  <2> QED BY <2>1, <2>2, <1>1, <1>2, <1>12
<1>13. stack' # <<>> BY <1>11
<1>14. /\ nextId' \in Nat \ {0} /\ cursor' \in Nat \ {0} /\ OpenPath(groups', stack', cursor')
       /\ groups' \in Seq(Group) /\ PreorderTree(groups')
       /\ SkipSafe(groups', RunningIn(stack'))
  BY <1>1, <1>2, <1>3, <1>7, <1>9, <1>10, <1>11
<1>15. Len(groups') <= MaxGroups BY <1>1, <1>2, <1>7, <1>10, ConstantsAssumption
<1> QED BY <1>1, <1>11, <1>12, <1>13, <1>14, <1>15, WalkStep

(* The end CelsExitGroup expects is the end of the running group, before   *)
(* the first prune and after each.                                         *)
LEMMA TopEnd ==
  ASSUME Inv, Running, Top.active
  PROVE  /\ ExpectedEnd = ParentEnd
         /\ ParentEnd \in Nat /\ cursor <= ParentEnd /\ ParentEnd <= Len(groups) + 1
<1>1. /\ groups \in Seq(Group) /\ Len(groups) \in Nat /\ PreorderTree(groups)
      /\ DOMAIN groups = 1..Len(groups)
      /\ stack[Len(stack)] = Top /\ OpenPath(groups, stack, cursor)
      /\ Top.idx \in 1..Len(groups) /\ AtBoundary(groups, Top.idx, cursor)
  BY BodyFacts
<1>2. groups[Top.idx].size \in Nat BY <1>1, TableType
<1>3. Top.idx + groups[Top.idx].size <= Len(groups) BY <1>1 DEF PreorderTree
<1>4. ParentEnd \in Nat /\ cursor <= ParentEnd /\ ParentEnd <= Len(groups) + 1
  BY <1>1, <1>2, <1>3 DEF ParentEnd, AtBoundary
<1>5. Top.end # 0 => Top.end = ParentEnd
  BY <1>1 DEF OpenPath, ParentEnd
<1> QED BY <1>4, <1>5 DEF ExpectedEnd

(* Pruning one unvisited child keeps the invariant.                        *)
LEMMA PruneUnvisitedInv == ASSUME Inv, PruneUnvisited PROVE Inv'
<1>1. /\ Running /\ Top.active /\ cursor < ExpectedEnd /\ cursor <= Len(groups)
      /\ pass' = "pass" /\ cursor' = cursor /\ nextId' = nextId
      /\ UNCHANGED <<queues, attached, comp, iterations>>
      /\ groups' = PruneSubtree(groups, cursor)
      /\ stack' = [stack EXCEPT ![Len(stack)].end = ExpectedEnd - (1 + groups[cursor].size)]
  BY DEF PruneUnvisited, MustPrune, Running
<1>2. /\ groups \in Seq(Group) /\ Len(groups) \in Nat /\ Len(groups) <= MaxGroups
      /\ DOMAIN groups = 1..Len(groups) /\ PreorderTree(groups)
      /\ stack \in Seq(Frame) /\ stack # <<>> /\ stack[Len(stack)] = Top
      /\ cursor \in Nat /\ OpenPath(groups, stack, cursor)
      /\ SkipSafe(groups, RunningIn(stack))
      /\ \A i \in 1..Len(groups) : i > 1 /\ i < cursor => Clean(groups, i)
      /\ \A x \in RunningIn(stack) : x < cursor
      /\ Top.idx \in 1..Len(groups) /\ AtBoundary(groups, Top.idx, cursor)
  BY <1>1, BodyFacts
<1>3. PICK p \in 1..Len(groups) : p = Top.idx BY <1>2
<1>4. PICK n : n = 1 + groups[cursor].size OBVIOUS
<1>5. /\ \A i \in 1..Len(groups) : groups[i].size \in Nat
      /\ \A i \in 1..Len(groups) : Siz(groups)[i] = groups[i].size /\ Par(groups)[i] = groups[i].parent
      /\ Arrays(Len(groups), Par(groups), Siz(groups)) /\ Tree(Len(groups), Par(groups), Siz(groups))
  BY <1>2, TableType, TableTree
<1>6. Place(Len(groups), Siz(groups), p, cursor) /\ cursor \in 2..(Len(groups) + 1)
  BY <1>2, <1>3, BoundaryPlace
<1>7. ExpectedEnd = p + 1 + groups[p].size BY <1>1, <1>3, TopEnd DEF ParentEnd
<1>8. cursor \in 2..Len(groups) /\ cursor <= p + Siz(groups)[p]
  BY <1>1, <1>2, <1>5, <1>6, <1>7
<1>9. Par(groups)[cursor] = p
  <2>1. SiblingFrom(Len(groups), Par(groups), Siz(groups), p, cursor, cursor)
    BY <1>2, <1>5, <1>6, <1>8, CursorIsSibling
  <2> QED BY <2>1 DEF SiblingFrom
<1>10. cursor + n <= p + 1 + groups[p].size /\ p < cursor
  <2>1. groups[cursor].parent = p BY <1>5, <1>8, <1>9
  <2>2. AtBoundary(groups, p, cursor + 1 + groups[cursor].size)
    BY <1>2, <1>8, <2>1, BoundaryAfterChild
  <2>3. cursor + 1 + groups[cursor].size <= p + 1 + groups[p].size BY <2>2 DEF AtBoundary
  <2>4. p < cursor BY <1>2, <1>3 DEF AtBoundary
  <2>5. groups[cursor].size \in Nat /\ groups[p].size \in Nat /\ cursor \in Nat /\ p \in Nat
    BY <1>5, <1>8
  <2>6. PICK u \in Nat : u = groups[cursor].size BY <2>5
  <2>7. n = 1 + u /\ cursor + 1 + u <= p + 1 + groups[p].size BY <2>3, <2>6, <1>4
  <2>8. cursor + n <= p + 1 + groups[p].size BY <2>5, <2>7
  <2> QED BY <2>4, <2>8
<1>11. /\ n \in Nat \ {0} /\ cursor + n <= Len(groups) + 1
       /\ groups' \in Seq(Group) /\ Len(groups') = Len(groups) - n /\ PreorderTree(groups')
  BY <1>1, <1>2, <1>4, <1>8, PruneFacts
<1>a. /\ groups \in Seq(Group) /\ PreorderTree(groups) /\ cursor \in 2..Len(groups)
      /\ groups' = PruneSubtree(groups, cursor)
  BY <1>1, <1>2, <1>8
<1>12. ASSUME NEW i \in 1..(cursor - 1)
       PROVE  /\ groups'[i].parent = groups[i].parent
              /\ groups'[i].size = IF cursor <= i + groups[i].size
                                   THEN groups[i].size - n ELSE groups[i].size
              /\ i \in 1..Len(groups') =>
                   groups'[i].inv = groups[i].inv /\ groups'[i].cont = groups[i].cont
  BY <1>a, <1>4, PruneKeepsBefore
<1>14. SkipSafe(groups', RunningIn(stack)) BY <1>1, <1>2, <1>8, PruneSafe
<1>15. p \in 1..(cursor - 1) /\ groups'[p].size = groups[p].size - n
  BY <1>5, <1>8, <1>10, <1>12
<1>16. AtBoundary(groups', p, cursor)
  <2>1. cursor <= p + 1 + groups'[p].size
    BY <1>2, <1>5, <1>10, <1>11, <1>15
  <2>2. ASSUME NEW i \in (p + 1)..(cursor - 1) PROVE i + groups'[i].size < cursor
    <3>1. i \in 1..(cursor - 1) /\ i \in 1..Len(groups) BY <1>8
    <3>2. i + groups[i].size < cursor BY <1>2, <1>3 DEF AtBoundary
    <3>3. groups'[i].size = groups[i].size
      <4>1. i \in Nat /\ groups[i].size \in Nat /\ ~(cursor <= i + groups[i].size)
        BY <3>1, <3>2, <1>2, <1>5
      <4> QED BY <4>1, <3>1, <1>12
    <3> QED BY <3>2, <3>3
  <2> QED BY <2>1, <2>2, <1>10 DEF AtBoundary
<1>17. PICK e : e = ExpectedEnd - (1 + groups[cursor].size) OBVIOUS
<1>18. e \in Nat /\ e = p + 1 + groups'[p].size
  <2>1. groups[p].size \in Nat /\ p \in Nat /\ n \in Nat /\ cursor \in Nat
    BY <1>2, <1>5, <1>11
  <2>a. groups[cursor].size \in Nat BY <1>5, <1>8
  <2>b. e = ExpectedEnd - n BY <1>4, <1>17
  <2>2. e = (p + 1 + groups[p].size) - n BY <2>b, <1>7
  <2>3. e = p + 1 + groups'[p].size BY <2>1, <2>2, <1>15
  <2>4. e >= cursor BY <2>1, <2>2, <1>10
  <2>5. e \in Int BY <2>1, <2>2
  <2> QED BY <2>1, <2>3, <2>4, <2>5
<1>19. /\ stack' \in Seq(Frame) /\ OpenPath(groups', stack', cursor)
       /\ RunningIn(stack') = RunningIn(stack)
  <2>1. stack' = [stack EXCEPT ![Len(stack)].end = e] BY <1>1, <1>17
  <2>2. cursor <= Len(groups') + 1 BY <1>2, <1>11
  <2>3. p = stack[Len(stack)].idx /\ stack[Len(stack)].active BY <1>1, <1>2, <1>3
  <2>4. \A i \in 1..(cursor - 1) : groups'[i].parent = groups[i].parent BY <1>12
  <2>5. Trims(groups, groups', stack, cursor, e, stack')
    BY <2>1, <2>2, <2>3, <2>4, <1>2, <1>11, <1>16, <1>18 DEF Trims
  <2> QED BY <2>5, TrimFrame
<1>20. stack' # <<>>
  <2>1. DOMAIN stack' = DOMAIN stack BY <1>1
  <2>2. DOMAIN stack = 1..Len(stack) /\ Len(stack) \in Nat \ {0}
    BY <1>2, LenProperties, EmptySeq
  <2> QED BY <2>1, <2>2
<1>21. ASSUME NEW i \in 1..Len(groups'), i > 1, i < cursor' PROVE Clean(groups', i)
  <2>1. i \in 1..(cursor - 1) BY <1>1, <1>8, <1>21
  <2>2. i \in 1..Len(groups) BY <1>1, <1>8, <1>21
  <2>3. Clean(groups, i) BY <2>2, <1>1, <1>2, <1>21
  <2> QED BY <2>1, <2>3, <1>12, <1>21 DEF Clean
<1>22. /\ nextId' \in Nat \ {0} /\ cursor' \in Nat \ {0}
       /\ OpenPath(groups', stack', cursor') /\ SkipSafe(groups', RunningIn(stack'))
  BY <1>1, <1>8, <1>14, <1>19 DEF Inv, TypeOK
<1>23. Len(groups') <= MaxGroups BY <1>2, <1>11, ConstantsAssumption
<1> QED BY <1>1, <1>11, <1>19, <1>20, <1>21, <1>22, <1>23, WalkStep

(* Returning from a group keeps the invariant, and its size assertion      *)
(* holds.                                                                  *)
LEMMA ExitGroupInv == ASSUME Inv, ExitGroup PROVE Inv'
<1>1. /\ Running /\ ~MustPrune /\ pass = "pass" /\ groups' = groups /\ cursor' = cursor
      /\ nextId' = nextId /\ UNCHANGED <<queues, attached, iterations>>
      /\ stack' = SubSeq(stack, 1, Len(stack) - 1)
      /\ pass' = IF Top.active /\ groups[Top.idx].size # (cursor - 1) - Top.idx
                 THEN "mismatch" ELSE pass
      /\ comp' = IF Len(stack) = 1 THEN comp + 1 ELSE comp
  BY DEF ExitGroup, Running, tree
<1>2. /\ groups \in Seq(Group) /\ Len(groups) \in Nat
      /\ DOMAIN groups = 1..Len(groups) /\ PreorderTree(groups)
      /\ stack \in Seq(Frame) /\ stack # <<>> /\ stack[Len(stack)] = Top
      /\ cursor \in Nat /\ OpenPath(groups, stack, cursor)
      /\ SkipSafe(groups, RunningIn(stack))
      /\ \A i \in 1..Len(groups) : i > 1 /\ i < cursor => Clean(groups, i)
      /\ Top.active => Top.idx \in 1..Len(groups)
  BY <1>1, BodyFacts
<1>3. Top.active => cursor = Top.idx + 1 + groups[Top.idx].size
  <2>1. SUFFICES ASSUME Top.active PROVE cursor = ParentEnd BY DEF ParentEnd
  <2>2. cursor >= ExpectedEnd \/ cursor > Len(groups) BY <1>1, <1>2, <2>1, TopEnd DEF MustPrune
  <2> QED BY <2>1, <2>2, <1>1, <1>2, TopEnd
<1>4. pass' = "pass"
  <2>1. CASE Top.active
    <3>1. groups[Top.idx].size \in Nat /\ Top.idx \in Nat BY <2>1, <1>2, TableType
    <3>2. groups[Top.idx].size = (cursor - 1) - Top.idx
      <4>1. cursor = Top.idx + 1 + groups[Top.idx].size BY <2>1, <1>3
      <4> QED BY <4>1, <3>1
    <3> QED BY <3>2, <1>1
  <2>2. CASE ~Top.active BY <2>2, <1>1
  <2> QED BY <2>1, <2>2
<1>5. /\ stack' \in Seq(Frame)
      /\ stack' # <<>> => OpenPath(groups, stack', cursor)
      /\ stack' = <<>> => cursor = Len(groups) + 1
      /\ \A x \in RunningIn(stack) : x \notin RunningIn(stack') => Top.active /\ x = Top.idx
  <2>1. Returns(groups, stack, cursor, stack')
    BY <1>1, <1>2, <1>3 DEF Returns
  <2>2. /\ stack' \in Seq(Frame)
        /\ stack' # <<>> => OpenPath(groups, stack', cursor)
        /\ stack' = <<>> => cursor = Len(groups) + 1
    BY <2>1, PopFrame
  <2>3. RunningIn(stack) \ RunningIn(stack') \subseteq
          {x \in {stack[Len(stack)].idx} : stack[Len(stack)].active}
    BY <2>1, PopFrame
  <2> QED BY <2>2, <2>3, <1>2
<1>6. SkipSafe(groups, RunningIn(stack'))
  <2>1. SUFFICES ASSUME NEW i \in 1..Len(groups), NEW j \in 1..Len(groups),
                        i > 1, i \notin RunningIn(stack'), Clean(groups, i),
                        i < j, j <= i + groups[i].size
                 PROVE  Clean(groups, j)
    BY <1>2 DEF SkipSafe
  <2>2. CASE i \notin RunningIn(stack) BY <2>1, <2>2, <1>2 DEF SkipSafe
  <2>3. CASE i \in RunningIn(stack)
    <3>1. Top.active /\ i = Top.idx BY <2>1, <2>3, <1>5
    <3>2. groups[i].size \in Nat BY <1>2, TableType
    <3>3. j < cursor /\ j > 1 BY <2>1, <3>1, <3>2, <1>2, <1>3
    <3> QED BY <3>3, <1>2
  <2> QED BY <2>2, <2>3
<1>7. TypeOK' BY <1>1, <1>4, <1>5 DEF Inv, TypeOK, queues, PassStates
<1>8. TreeOK' BY <1>1 DEF Inv, TreeOK
<1>9. SkipSound' BY <1>1, <1>6 DEF SkipSound
<1>10. WalkOK' BY <1>1, <1>2, <1>4, <1>5 DEF WalkOK
<1>11. VisitedClean' BY <1>1, <1>2 DEF VisitedClean
<1>12. NoSizeMismatch' BY <1>4 DEF NoSizeMismatch
<1> QED BY <1>7, <1>8, <1>9, <1>10, <1>11, <1>12 DEF Inv

(* Every step keeps the invariant.                                         *)
LEMMA NextInv == ASSUME Inv, [Next]_vars PROVE Inv'
<1>1. CASE UNCHANGED vars
  <2>1. TypeOK' BY <1>1 DEF Inv, TypeOK, vars, tree, queues, walk
  <2>2. UNCHANGED <<groups, stack, cursor, pass>> BY <1>1 DEF vars, tree, walk
  <2> QED BY <2>1, <2>2, TableUntouched
<1>2. CASE Host BY <1>2, AttachInv, DetachInv, HostPruneInv, HotReloadInv DEF Host
<1>3. CASE Traverse
  BY <1>3, RecomposeInv, EndCompositionInv, EnterCompositionInv, NextIterationInv,
     BetweenInv, PruneUnvisitedInv, ExitGroupInv DEF Traverse
<1>4. CASE Body
  <2>1. CASE EnterTooDeep
    <3>1. \E k : k = 0 OBVIOUS
    <3> QED BY <2>1, <3>1, NotEnteredInv
  <2>2. ASSUME NEW k \in Keys,
               EnterClean(k) \/ EnterDirty(k) \/ EnterFull(k) \/ EnterNew(k)
                 \/ InvalidateKey(k) \/ InvalidateKeyImmediate(k)
        PROVE  Inv'
    BY <2>2, EnterCleanInv, EnterDirtyInv, NotEnteredInv, EnterNewInv, InvalidateInv
  <2> QED BY <1>4, <2>1, <2>2 DEF Body
<1> QED BY <1>1, <1>2, <1>3, <1>4 DEF Next

(* The inductive invariant holds in every reachable state of               *)
(* CelsSessionRecompose and its callers, for every capacity, depth, key set*)
(* and drain limit.                                                        *)
THEOREM Invariance == Spec => []Inv
BY InitInv, NextInv, PTL DEF Spec

(* Every state is well typed; in particular the table never exceeds        *)
(* maxGroups.                                                              *)
THEOREM TypeCorrect == Spec => []TypeOK
<1>1. Inv => TypeOK BY DEF Inv
<1> QED BY <1>1, Invariance, PTL

(* The gap-buffer table is a preorder tree after every insert, move, prune *)
(* and reload, for every capacity.                                         *)
THEOREM TableIsATree == Spec => []TreeOK
<1>1. Inv => TreeOK BY DEF Inv
<1> QED BY <1>1, Invariance, PTL

(* The open groups are always a chain of parents from the root and the     *)
(* cursor is always on a boundary between two children of the innermost.   *)
THEOREM WalkIsSound == Spec => []WalkOK
<1>1. Inv => WalkOK BY DEF Inv
<1> QED BY <1>1, Invariance, PTL

(* A group with neither flag never hides an invalidated group: the O(1)    *)
(* skip of session.c:1274 loses nothing.                                   *)
THEOREM SkippingIsSound == Spec => []SkipSound
<1>1. Inv => SkipSound BY DEF Inv
<1> QED BY <1>1, Invariance, PTL

(* Nothing invalidated is left before the cursor: a walk settles everything*)
(* it passes.                                                              *)
THEOREM WalkSettles == Spec => []VisitedClean
<1>1. Inv => VisitedClean BY DEF Inv
<1> QED BY <1>1, Invariance, PTL

(* The size assertion of CelsExitGroup (session.c:1376) never fails.       *)
THEOREM SizesMatch == Spec => []NoSizeMismatch
<1>1. Inv => NoSizeMismatch BY DEF Inv
<1> QED BY <1>1, Invariance, PTL

-----------------------------------------------------------------------------
(* The abstract tree: CompositionTree as the table implements it.          *)

(* No identity is given to two groups.                                     *)
Unique(gs) == \A i, j \in DOMAIN gs : gs[i].id = gs[j].id => i = j

(* An identity leads to its group.                                         *)
LEMMA AtIs ==
  ASSUME NEW gs, Unique(gs), NEW i \in DOMAIN gs
  PROVE  At(gs, gs[i].id) = i
BY DEF At, Unique

(* What the maps of the abstract tree hold for a group.                    *)
LEMMA MapsAt ==
  ASSUME NEW gs, Unique(gs), NEW i \in DOMAIN gs
  PROVE  /\ gs[i].id \in IdsOf(gs, DOMAIN gs)
         /\ UpOf(gs)[gs[i].id] = gs[gs[i].parent].id
         /\ LabelOf(gs)[gs[i].id] = gs[i].key
<1>1. gs[i].id \in IdsOf(gs, DOMAIN gs) BY DEF IdsOf
<1> QED BY <1>1, AtIs DEF UpOf, LabelOf

(* Membership of a set of identities is membership of the place.           *)
LEMMA IdIn ==
  ASSUME NEW gs, Unique(gs), NEW I \in SUBSET DOMAIN gs, NEW i \in DOMAIN gs
  PROVE  gs[i].id \in IdsOf(gs, I) <=> i \in I
BY DEF IdsOf, Unique

(* The groups of hs are groups of gs: group i is F[i], with its identity,  *)
(* its key and its parent.                                                 *)
Carried(gs, hs, F) ==
  /\ F \in [DOMAIN hs -> DOMAIN gs]
  /\ \A i, j \in DOMAIN hs : F[i] = F[j] => i = j
  /\ \A i \in DOMAIN hs :
       /\ hs[i].id = gs[F[i]].id /\ hs[i].key = gs[F[i]].key
       /\ hs[i].parent \in DOMAIN hs
       /\ F[hs[i].parent] = gs[F[i]].parent

(* Then the abstract tree of hs is part of that of gs.                     *)
LEMMA CarriedTree ==
  ASSUME NEW gs, Unique(gs), NEW hs, NEW F, Carried(gs, hs, F)
  PROVE  /\ Unique(hs)
         /\ IdsOf(hs, DOMAIN hs) \subseteq IdsOf(gs, DOMAIN gs)
         /\ UpOf(hs) = [x \in IdsOf(hs, DOMAIN hs) |-> UpOf(gs)[x]]
         /\ LabelOf(hs) = [x \in IdsOf(hs, DOMAIN hs) |-> LabelOf(gs)[x]]
<1>1. Unique(hs) BY DEF Carried, Unique
<1>2. ASSUME NEW i \in DOMAIN hs
      PROVE  /\ hs[i].id \in IdsOf(gs, DOMAIN gs)
             /\ UpOf(hs)[hs[i].id] = UpOf(gs)[hs[i].id]
             /\ LabelOf(hs)[hs[i].id] = LabelOf(gs)[hs[i].id]
  <2>1. /\ F[i] \in DOMAIN gs /\ hs[i].id = gs[F[i]].id /\ hs[i].key = gs[F[i]].key
        /\ hs[i].parent \in DOMAIN hs
        /\ F[hs[i].parent] = gs[F[i]].parent
        /\ hs[hs[i].parent].id = gs[F[hs[i].parent]].id
    BY DEF Carried
  <2>2. /\ hs[i].id \in IdsOf(gs, DOMAIN gs)
        /\ UpOf(gs)[hs[i].id] = gs[gs[F[i]].parent].id
        /\ LabelOf(gs)[hs[i].id] = gs[F[i]].key
    BY <2>1, MapsAt
  <2>3. /\ UpOf(hs)[hs[i].id] = hs[hs[i].parent].id
        /\ LabelOf(hs)[hs[i].id] = hs[i].key
    BY <1>1, MapsAt
  <2> QED BY <2>1, <2>2, <2>3
<1>3. \A x \in IdsOf(hs, DOMAIN hs) : \E i \in DOMAIN hs : x = hs[i].id BY DEF IdsOf
<1>4. IdsOf(hs, DOMAIN hs) \subseteq IdsOf(gs, DOMAIN gs) BY <1>2, <1>3
<1>5. UpOf(hs) = [x \in IdsOf(hs, DOMAIN hs) |-> UpOf(gs)[x]]
  <2>1. \A x \in IdsOf(hs, DOMAIN hs) : UpOf(hs)[x] = UpOf(gs)[x] BY <1>2, <1>3
  <2>2. UpOf(hs) = [x \in IdsOf(hs, DOMAIN hs) |-> UpOf(hs)[x]] BY DEF UpOf
  <2> QED BY <2>1, <2>2
<1>6. LabelOf(hs) = [x \in IdsOf(hs, DOMAIN hs) |-> LabelOf(gs)[x]]
  <2>1. \A x \in IdsOf(hs, DOMAIN hs) : LabelOf(hs)[x] = LabelOf(gs)[x] BY <1>2, <1>3
  <2>2. LabelOf(hs) = [x \in IdsOf(hs, DOMAIN hs) |-> LabelOf(hs)[x]] BY DEF LabelOf
  <2> QED BY <2>1, <2>2
<1> QED BY <1>1, <1>4, <1>5, <1>6

(* If all of them are carried, nothing is lost.                            *)
LEMMA CarriedAll ==
  ASSUME NEW gs, Unique(gs), NEW hs, NEW F, Carried(gs, hs, F),
         \A x \in DOMAIN gs : \E i \in DOMAIN hs : F[i] = x
  PROVE  Unique(hs) /\ UpOf(hs) = UpOf(gs) /\ LabelOf(hs) = LabelOf(gs)
<1>1. /\ Unique(hs)
      /\ IdsOf(hs, DOMAIN hs) \subseteq IdsOf(gs, DOMAIN gs)
      /\ UpOf(hs) = [x \in IdsOf(hs, DOMAIN hs) |-> UpOf(gs)[x]]
      /\ LabelOf(hs) = [x \in IdsOf(hs, DOMAIN hs) |-> LabelOf(gs)[x]]
  BY CarriedTree
<1>2. IdsOf(gs, DOMAIN gs) \subseteq IdsOf(hs, DOMAIN hs)
  <2>1. \A i \in DOMAIN hs : hs[i].id = gs[F[i]].id BY DEF Carried
  <2>2. ASSUME NEW x \in DOMAIN gs PROVE gs[x].id \in IdsOf(hs, DOMAIN hs)
    <3>1. PICK i \in DOMAIN hs : F[i] = x OBVIOUS
    <3>2. hs[i].id = gs[x].id BY <3>1, <2>1
    <3> QED BY <3>2 DEF IdsOf
  <2>3. \A y \in IdsOf(gs, DOMAIN gs) : \E x \in DOMAIN gs : y = gs[x].id BY DEF IdsOf
  <2> QED BY <2>2, <2>3
<1>3. IdsOf(hs, DOMAIN hs) = IdsOf(gs, DOMAIN gs) BY <1>1, <1>2
<1>4. UpOf(gs) = [x \in IdsOf(gs, DOMAIN gs) |-> UpOf(gs)[x]] BY DEF UpOf
<1>5. LabelOf(gs) = [x \in IdsOf(gs, DOMAIN gs) |-> LabelOf(gs)[x]] BY DEF LabelOf
<1> QED BY <1>1, <1>3, <1>4, <1>5

(* hs is gs with other sizes and flags.                                    *)
SameGroups(gs, hs) ==
  /\ DOMAIN hs = DOMAIN gs
  /\ \A i \in DOMAIN gs : /\ hs[i].id = gs[i].id /\ hs[i].key = gs[i].key
                          /\ hs[i].parent = gs[i].parent

(* Sizes and flags do not matter to the tree.                              *)
LEMMA SameTree ==
  ASSUME NEW gs \in Seq(Group), PreorderTree(gs), Unique(gs), NEW hs, SameGroups(gs, hs)
  PROVE  Unique(hs) /\ UpOf(hs) = UpOf(gs) /\ LabelOf(hs) = LabelOf(gs)
<1> DEFINE F == [i \in DOMAIN gs |-> i]
<1>1. \A i \in DOMAIN gs : gs[i].parent \in DOMAIN gs
  <2>1. DOMAIN gs = 1..Len(gs) /\ Len(gs) \in Nat BY TableType
  <2>2. ASSUME NEW i \in 1..Len(gs) PROVE gs[i].parent \in 1..Len(gs)
    <3>1. CASE i = 1 BY <3>1, <2>1, <2>2 DEF PreorderTree
    <3>2. CASE i # 1
      <4>1. gs[i].parent \in 1..(i - 1) BY <3>2, <2>1 DEF PreorderTree
      <4> QED BY <4>1, <2>1
    <3> QED BY <3>1, <3>2
  <2> QED BY <2>1, <2>2
<1>2. Carried(gs, hs, F) BY <1>1 DEF Carried, SameGroups
<1>3. \A x \in DOMAIN gs : \E i \in DOMAIN hs : F[i] = x BY DEF SameGroups
<1> HIDE DEF F
<1> QED BY <1>2, <1>3, CarriedAll

(* The parent of a group is in the table, before it but for the root.      *)
LEMMA ParentIn ==
  ASSUME NEW gs \in Seq(Group), PreorderTree(gs), NEW i \in 1..Len(gs)
  PROVE  /\ gs[i].parent \in 1..Len(gs) /\ gs[i].parent <= i
         /\ i > 1 => gs[i].parent < i
<1>1. DOMAIN gs = 1..Len(gs) /\ Len(gs) \in Nat BY TableType
<1>2. CASE i = 1 BY <1>1, <1>2 DEF PreorderTree
<1>3. CASE i # 1
  <2>1. gs[i].parent \in 1..(i - 1) BY <1>1, <1>3 DEF PreorderTree
  <2> QED BY <1>1, <1>3, <2>1
<1> QED BY <1>2, <1>3

(* CompositionTree's Chain and Under, of a map of parents.                 *)
ChainOf(u, x) ==
  {a \in DOMAIN u : \A S \in SUBSET DOMAIN u :
      (x \in S /\ \A n \in S : u[n] \in S) => a \in S}

UnderOf(u, y) == {x \in DOMAIN u : y \in ChainOf(u, x)}

(* Climbing the abstract tree from a group meets the groups covering it.   *)
LEMMA ChainIs ==
  ASSUME NEW gs \in Seq(Group), PreorderTree(gs), Unique(gs), NEW p \in 1..Len(gs)
  PROVE  ChainOf(UpOf(gs), gs[p].id) = IdsOf(gs, Covering(gs, p))
<1> DEFINE u == UpOf(gs)
           C == Covering(gs, p)
           x == gs[p].id
<1>1. DOMAIN gs = 1..Len(gs) /\ Len(gs) \in Nat /\ p \in DOMAIN gs BY TableType
<1>2. DOMAIN u = IdsOf(gs, DOMAIN gs) BY DEF UpOf
<1>3. Climb(gs, p) = C BY ClimbCovers
<1>4. /\ C \in SUBSET DOMAIN gs /\ p \in C
      /\ \A i \in C : gs[i].parent \in C
  <2>1. C \in SUBSET (1..p) BY CoveringClosed
  <2> QED BY <1>1, <2>1, CoveringClosed
<1>5. \A i \in DOMAIN gs : u[gs[i].id] = gs[gs[i].parent].id BY MapsAt
<1> HIDE DEF u, C, x
<1>6. ASSUME NEW a \in ChainOf(u, x) PROVE a \in IdsOf(gs, C)
  <2> DEFINE S == IdsOf(gs, C)
  <2>1. S \in SUBSET DOMAIN u BY <1>2, <1>4 DEF IdsOf
  <2>2. x \in S BY <1>4 DEF IdsOf, x
  <2>3. ASSUME NEW n \in S PROVE u[n] \in S
    <3>1. PICK i \in C : n = gs[i].id BY DEF IdsOf
    <3>2. u[n] = gs[gs[i].parent].id BY <3>1, <1>4, <1>5
    <3> QED BY <3>2, <1>4 DEF IdsOf
  <2> HIDE DEF S
  <2>4. a \in S BY <2>1, <2>2, <2>3 DEF ChainOf
  <2> QED BY <2>4 DEF S
<1>7. ASSUME NEW i \in C, NEW S \in SUBSET DOMAIN u, x \in S, \A n \in S : u[n] \in S
      PROVE  gs[i].id \in S
  <2> DEFINE T == {j \in DOMAIN gs : gs[j].id \in S}
  <2>1. p \in T BY <1>1, <1>7 DEF x
  <2>2. ASSUME NEW j \in T PROVE gs[j].parent \in T
    <3>1. u[gs[j].id] \in S BY <1>7
    <3>2. gs[j].parent \in DOMAIN gs BY <1>1, ParentIn
    <3> QED BY <3>1, <3>2, <1>5
  <2>3. T \in SUBSET DOMAIN gs OBVIOUS
  <2> HIDE DEF T
  <2>4. i \in T BY <1>3, <2>1, <2>2, <2>3 DEF Climb
  <2> QED BY <2>4 DEF T
<1>8. ASSUME NEW a \in IdsOf(gs, C) PROVE a \in ChainOf(u, x)
  <2>1. PICK i \in C : a = gs[i].id BY DEF IdsOf
  <2>2. a \in DOMAIN u BY <2>1, <1>2, <1>4 DEF IdsOf
  <2> QED BY <2>1, <2>2, <1>7 DEF ChainOf
<1>9. ChainOf(u, x) = IdsOf(gs, C) BY <1>6, <1>8
<1> QED BY <1>9 DEF u, C, x

(* The subtree of a group in the abstract tree is its interval.            *)
LEMMA UnderIs ==
  ASSUME NEW gs \in Seq(Group), PreorderTree(gs), Unique(gs), NEW i \in 1..Len(gs)
  PROVE  UnderOf(UpOf(gs), gs[i].id) = IdsOf(gs, i..(i + gs[i].size))
<1> DEFINE u == UpOf(gs)
<1>1. /\ DOMAIN gs = 1..Len(gs) /\ Len(gs) \in Nat
      /\ gs[i].size \in Nat /\ i + gs[i].size <= Len(gs)
  BY TableType DEF PreorderTree
<1>2. DOMAIN u = IdsOf(gs, DOMAIN gs) BY DEF UpOf
<1>3. ASSUME NEW p \in DOMAIN gs
      PROVE  gs[i].id \in ChainOf(u, gs[p].id) <=> p \in i..(i + gs[i].size)
  <2>1. ChainOf(u, gs[p].id) = IdsOf(gs, Covering(gs, p)) BY <1>1, ChainIs
  <2>2. Covering(gs, p) \in SUBSET DOMAIN gs BY <1>1 DEF Covering
  <2>3. gs[i].id \in IdsOf(gs, Covering(gs, p)) <=> i \in Covering(gs, p)
    BY <1>1, <2>2, IdIn
  <2>4. i \in Covering(gs, p) <=> p \in i..(i + gs[i].size) BY <1>1 DEF Covering
  <2> QED BY <2>1, <2>3, <2>4
<1> HIDE DEF u
<1>4. i..(i + gs[i].size) \subseteq DOMAIN gs BY <1>1
<1>5. ASSUME NEW x \in UnderOf(u, gs[i].id) PROVE x \in IdsOf(gs, i..(i + gs[i].size))
  <2>1. x \in IdsOf(gs, DOMAIN gs) /\ gs[i].id \in ChainOf(u, x) BY <1>2 DEF UnderOf
  <2>2. PICK p \in DOMAIN gs : x = gs[p].id BY <2>1 DEF IdsOf
  <2> QED BY <2>1, <2>2, <1>3 DEF IdsOf
<1>6. ASSUME NEW x \in IdsOf(gs, i..(i + gs[i].size)) PROVE x \in UnderOf(u, gs[i].id)
  <2>1. PICK p \in i..(i + gs[i].size) : x = gs[p].id BY DEF IdsOf
  <2>2. p \in DOMAIN gs BY <1>4
  <2>3. x \in DOMAIN u BY <2>1, <2>2, <1>2 DEF IdsOf
  <2> QED BY <2>1, <2>2, <2>3, <1>3 DEF UnderOf
<1> QED BY <1>5, <1>6 DEF u

(* What the operations on a group never change.                            *)
LEMMA FieldsKept ==
  ASSUME NEW g \in Group, NEW q, NEW s
  PROVE  /\ WithParent(g, q).id = g.id /\ WithParent(g, q).key = g.key
         /\ WithSize(g, s).id = g.id /\ WithSize(g, s).key = g.key
         /\ WithParent(WithSize(g, s), q).id = g.id
         /\ WithParent(WithSize(g, s), q).key = g.key
         /\ WithParent(WithSize(g, s), q).parent = q
         /\ Settled(g).id = g.id /\ Settled(g).key = g.key
         /\ Marked(g, q, s).id = g.id /\ Marked(g, q, s).key = g.key
BY DEF WithParent, WithSize, Settled, Marked, Group

(* A prune keeps identities, keys and parents of what it leaves.           *)
LEMMA PruneCarries ==
  ASSUME NEW gs \in Seq(Group), PreorderTree(gs), NEW r \in 2..Len(gs),
         NEW hs, hs = PruneSubtree(gs, r), NEW k, k = 1 + gs[r].size
  PROVE  Carried(gs, hs, [i \in 1..Len(hs) |-> Before(i, r, k)])
<1> DEFINE n == Len(gs)
           A == Climb(gs, gs[r].parent)
           os == Shrink(gs, A, k)
           F == [i \in 1..Len(hs) |-> Before(i, r, k)]
<1>1. n \in Nat /\ DOMAIN gs = 1..n /\ r \in 2..n BY TableType
<1>2. /\ k \in Nat \ {0} /\ r + k <= n + 1
      /\ hs \in Seq(Group) /\ Len(hs) = n - k
  BY PruneFacts
<1>3. DOMAIN hs = 1..(n - k) /\ n - k \in Nat BY <1>1, <1>2, TableType
<1>4. hs = CloseUp(os, r, k) /\ DOMAIN os = 1..n /\ Len(os) = n
  <2>1. hs = CloseUp(os, r, k) BY <1>1 DEF PruneSubtree
  <2>2. os = [i \in 1..n |-> os[i]] BY <1>1 DEF Shrink
  <2> HIDE DEF os, n
  <2> QED BY <2>1, <2>2, <1>1
<1>5. ASSUME NEW i \in 1..n
      PROVE  os[i] = gs[i] \/ \E s : os[i] = WithSize(gs[i], s)
  BY <1>1 DEF Shrink
<1>6. ASSUME NEW i \in 1..n
      PROVE  /\ os[i].id = gs[i].id /\ os[i].key = gs[i].key
             /\ os[i].parent = gs[i].parent
             /\ \A q : /\ WithParent(os[i], q).id = gs[i].id
                       /\ WithParent(os[i], q).key = gs[i].key
                       /\ WithParent(os[i], q).parent = q
  <2>1. gs[i] \in Group BY TableType
  <2>2. CASE os[i] = gs[i]
    <3> HIDE DEF os, n
    <3>1. \A q : WithParent(gs[i], q).parent = q BY <2>1 DEF WithParent, Group
    <3> QED BY <2>1, <2>2, <3>1, FieldsKept
  <2>3. ASSUME NEW s, os[i] = WithSize(gs[i], s)
        PROVE  /\ os[i].id = gs[i].id /\ os[i].key = gs[i].key
               /\ os[i].parent = gs[i].parent
               /\ \A q : /\ WithParent(os[i], q).id = gs[i].id
                         /\ WithParent(os[i], q).key = gs[i].key
                         /\ WithParent(os[i], q).parent = q
    <3> HIDE DEF os, n
    <3>1. WithSize(gs[i], s).parent = gs[i].parent BY <2>1 DEF WithSize, Group
    <3>2. \A q : /\ WithParent(WithSize(gs[i], s), q).id = gs[i].id
                 /\ WithParent(WithSize(gs[i], s), q).key = gs[i].key
                 /\ WithParent(WithSize(gs[i], s), q).parent = q
      BY <2>1, FieldsKept
    <3>3. WithSize(gs[i], s).id = gs[i].id /\ WithSize(gs[i], s).key = gs[i].key
      BY <2>1, FieldsKept
    <3> QED BY <2>3, <3>1, <3>2, <3>3
  <2> HIDE DEF os
  <2> QED BY <2>2, <2>3, <1>5
<1>7. ASSUME NEW i \in 1..(n - k)
      PROVE  hs[i] = IF i < r THEN os[i]
                     ELSE WithParent(os[i + k],
                            IF os[i + k].parent >= r + k THEN os[i + k].parent - k
                            ELSE os[i + k].parent)
  <2> HIDE DEF os
  <2> QED BY <1>4 DEF CloseUp
<1> HIDE DEF os, n
<1>8. ASSUME NEW i \in 1..(n - k)
      PROVE  /\ Before(i, r, k) \in 1..n
             /\ hs[i].id = gs[Before(i, r, k)].id
             /\ hs[i].key = gs[Before(i, r, k)].key
             /\ hs[i].parent \in 1..(n - k)
             /\ Before(hs[i].parent, r, k) = gs[Before(i, r, k)].parent
  <2>1. CASE i < r
    <3>1. Before(i, r, k) = i /\ i \in 1..n BY <2>1, <1>1, <1>2 DEF Before
    <3>2. hs[i] = os[i] BY <2>1, <1>7
    <3>3. /\ hs[i].id = gs[i].id /\ hs[i].key = gs[i].key
          /\ hs[i].parent = gs[i].parent
      BY <3>1, <3>2, <1>6
    <3>4. gs[i].parent \in 1..n /\ gs[i].parent <= i BY <3>1, ParentIn DEF n
    <3>5. gs[i].parent \in 1..(n - k) /\ Before(gs[i].parent, r, k) = gs[i].parent
      BY <2>1, <3>4, <1>1, <1>2 DEF Before
    <3> QED BY <3>1, <3>3, <3>5
  <2>2. CASE ~(i < r)
    <3>1. PICK j \in 1..n : j = i + k BY <1>1, <1>2
    <3>2. Before(i, r, k) = j /\ j >= r + k /\ j > 1 /\ i = j - k
      BY <2>2, <3>1, <1>1, <1>2 DEF Before
    <3>3. PICK q \in 1..n : q = gs[j].parent /\ q < j /\ j <= q + gs[q].size
      <4>1. gs[j].parent \in 1..n /\ gs[j].parent < j BY <3>2, ParentIn DEF n
      <4>2. j <= gs[j].parent + gs[gs[j].parent].size
        BY <3>2, <1>1 DEF PreorderTree
      <4> QED BY <4>1, <4>2
    <3>4. q < r \/ q >= r + k
      <4>1. /\ gs[q].size \in Nat /\ gs[r].size \in Nat
            /\ r < q /\ q <= r + gs[r].size => q + gs[q].size <= r + gs[r].size
        <5>1. r \in DOMAIN gs /\ q \in DOMAIN gs BY <1>1, <3>3
        <5>2. r < q /\ q <= r + gs[r].size => q + gs[q].size <= r + gs[r].size
          BY <5>1, Zenon DEF PreorderTree
        <5>3. gs[q].size \in Nat /\ gs[r].size \in Nat BY <5>1, <1>1, TableType DEF n
        <5> QED BY <5>2, <5>3
      <4>2. PICK u \in Nat : u = gs[r].size BY <4>1
      <4>3. PICK v \in Nat : v = gs[q].size BY <4>1
      <4>4. /\ k = 1 + u /\ j <= q + v /\ (q = r => u = v)
            /\ r < q /\ q <= r + u => q + v <= r + u
        BY <4>1, <4>2, <4>3, <3>3
      <4>5. r \in Nat /\ q \in Nat /\ j \in Nat /\ j >= r + k BY <3>2, <1>1
      <4> QED BY <4>4, <4>5
    <3>5. PICK s : s = IF q >= r + k THEN q - k ELSE q OBVIOUS
    <3>6. hs[i] = WithParent(os[j], s)
      <4>1. os[j].parent = q BY <3>3, <1>6
      <4>2. hs[i] = WithParent(os[i + k], IF os[i + k].parent >= r + k
                                          THEN os[i + k].parent - k
                                          ELSE os[i + k].parent)
        BY <2>2, <1>7
      <4> QED BY <4>1, <4>2, <3>1, <3>5
    <3>7. hs[i].id = gs[j].id /\ hs[i].key = gs[j].key /\ hs[i].parent = s
      BY <3>6, <1>6
    <3>8. s \in 1..(n - k) /\ Before(s, r, k) = q
      <4>1. CASE q < r BY <4>1, <3>5, <1>1, <1>2 DEF Before
      <4>2. CASE q >= r + k
        <5>1. s = q - k BY <4>2, <3>5
        <5>2. ~(q - k < r) /\ (q - k) + k = q /\ q - k \in 1..(n - k)
          <6>1. q \in (r + k)..n BY <4>2, <1>1, <1>2
          <6>2. r \in Nat \ {0} /\ k \in Nat /\ n \in Nat BY <1>1, <1>2
          <6>3. q \in 1..n /\ q - k \in 1..(n - k) /\ (q - k) + k = q /\ ~(q - k < r)
            BY <6>1, <6>2, Backward
          <6> QED BY <6>3
        <5> QED BY <5>1, <5>2 DEF Before
      <4> QED BY <3>4, <4>1, <4>2
    <3> QED BY <3>2, <3>3, <3>7, <3>8
  <2> QED BY <2>1, <2>2
<1>9. \A i, j \in 1..(n - k) : Before(i, r, k) = Before(j, r, k) => i = j
  <2>1. k \in Nat /\ r \in Nat /\ n - k \in Nat BY <1>1, <1>2, <1>3
  <2> QED BY <2>1 DEF Before
<1>10. Len(hs) = n - k BY <1>2 DEF n
<1>11. F \in [DOMAIN hs -> DOMAIN gs] BY <1>1, <1>3, <1>8, <1>10
<1>12. \A i, j \in DOMAIN hs : F[i] = F[j] => i = j BY <1>3, <1>9, <1>10
<1>13. ASSUME NEW i \in DOMAIN hs
       PROVE  /\ hs[i].id = gs[F[i]].id /\ hs[i].key = gs[F[i]].key
              /\ hs[i].parent \in DOMAIN hs
              /\ F[hs[i].parent] = gs[F[i]].parent
  BY <1>3, <1>8, <1>10
<1> HIDE DEF F
<1>14. Carried(gs, hs, F) BY <1>11, <1>12, <1>13 DEF Carried
<1> QED BY <1>14 DEF F

(* The subtree at r is pruned; X are its identities.                       *)
Prunes(gs, r, hs, X) ==
  /\ gs \in Seq(Group) /\ PreorderTree(gs) /\ Unique(gs) /\ r \in 1..Len(gs)
  /\ hs = PruneSubtree(gs, r)
  /\ X = IdsOf(gs, r..(r + gs[r].size))

(* Then they are gone from the maps.                                       *)
PruneMaps(gs, hs, X) ==
  /\ Unique(hs)
  /\ IdsOf(hs, DOMAIN hs) = IdsOf(gs, DOMAIN gs) \ X
  /\ UpOf(hs) = [x \in DOMAIN UpOf(gs) \ X |-> UpOf(gs)[x]]
  /\ LabelOf(hs) = [x \in DOMAIN LabelOf(gs) \ X |-> LabelOf(gs)[x]]
  /\ DueOf(hs) = DueOf(gs) \ X

(* A prune takes the subtree of the group out of the abstract tree.        *)
LEMMA PruneTree ==
  ASSUME NEW gs, NEW r, NEW hs, NEW X, Prunes(gs, r, hs, X)
  PROVE  /\ PruneMaps(gs, hs, X)
         /\ \A i \in 1..(r - 1) : i \in DOMAIN hs /\ hs[i].id = gs[i].id
<1> SUFFICES
      ASSUME gs \in Seq(Group), PreorderTree(gs), Unique(gs), r \in 1..Len(gs),
             hs = PruneSubtree(gs, r), X = IdsOf(gs, r..(r + gs[r].size))
      PROVE  /\ Unique(hs)
             /\ IdsOf(hs, DOMAIN hs) = IdsOf(gs, DOMAIN gs) \ X
             /\ UpOf(hs) = [x \in DOMAIN UpOf(gs) \ X |-> UpOf(gs)[x]]
             /\ LabelOf(hs) = [x \in DOMAIN LabelOf(gs) \ X |-> LabelOf(gs)[x]]
             /\ DueOf(hs) = DueOf(gs) \ X
             /\ \A i \in 1..(r - 1) : i \in DOMAIN hs /\ hs[i].id = gs[i].id
  BY DEF Prunes, PruneMaps
<1> DEFINE n == Len(gs)
<1>1. /\ n \in Nat /\ DOMAIN gs = 1..n
      /\ gs[r].size \in Nat /\ r + gs[r].size <= n
  BY TableType DEF PreorderTree
<1>2. DOMAIN UpOf(gs) = IdsOf(gs, DOMAIN gs) /\ DOMAIN LabelOf(gs) = IdsOf(gs, DOMAIN gs)
  BY DEF UpOf, LabelOf
<1>3. r..(r + gs[r].size) \in SUBSET DOMAIN gs BY <1>1
<1>4. CASE r = 1
  <2>1. hs = <<>> BY <1>1, <1>4, PruneRoot
  <2>2. gs[1].size = n - 1 BY <1>1, <1>4 DEF PreorderTree
  <2>3. r..(r + gs[r].size) = DOMAIN gs BY <1>1, <1>4, <2>2
  <2>4. X = IdsOf(gs, DOMAIN gs) BY <2>3
  <2>5. DOMAIN hs = {} BY <2>1
  <2>6. IdsOf(hs, DOMAIN hs) = {} BY <2>5 DEF IdsOf
  <2>7. Unique(hs) BY <2>5 DEF Unique
  <2>8. DueOf(hs) = {} BY <2>5 DEF DueOf, IdsOf
  <2>9. DueOf(gs) \subseteq X BY <2>4 DEF DueOf, IdsOf
  <2>10. UpOf(hs) = [x \in {} |-> UpOf(gs)[x]] BY <2>6 DEF UpOf
  <2>11. LabelOf(hs) = [x \in {} |-> LabelOf(gs)[x]] BY <2>6 DEF LabelOf
  <2>12. IdsOf(gs, DOMAIN gs) \ X = {} BY <2>4
  <2>13. 1..(r - 1) = {} BY <1>4
  <2> QED BY <2>6, <2>7, <2>8, <2>9, <2>10, <2>11, <2>12, <2>13, <1>2
<1>5. CASE r # 1
  <2>1. r \in 2..n BY <1>1, <1>5
  <2>2. PICK k : k = 1 + gs[r].size OBVIOUS
  <2> DEFINE F == [i \in 1..Len(hs) |-> Before(i, r, k)]
  <2>3. Carried(gs, hs, F) BY <2>1, <2>2, PruneCarries
  <2>4. /\ k \in Nat \ {0} /\ r + k <= n + 1
        /\ hs \in Seq(Group) /\ Len(hs) = n - k
    BY <2>1, <2>2, PruneFacts
  <2>5. \A i \in 1..Len(hs) : hs[i].inv = gs[Before(i, r, k)].inv
    <3>1. ASSUME NEW i \in 1..Len(hs) PROVE hs[i].inv = gs[Before(i, r, k)].inv
      BY <2>1, <2>2, PruneFacts
    <3> QED BY <3>1
  <2>6. DOMAIN hs = 1..(n - k) /\ n - k \in Nat BY <1>1, <2>4, TableType
  <2>7. \A i \in 1..(n - k) : F[i] = Before(i, r, k) BY <2>4
  <2>8. ASSUME NEW i \in DOMAIN hs
        PROVE  /\ F[i] \in DOMAIN gs /\ F[i] \notin r..(r + gs[r].size)
               /\ hs[i].id = gs[F[i]].id /\ hs[i].inv = gs[F[i]].inv
               /\ (i > 1 <=> F[i] > 1)
               /\ i < r => F[i] = i
    <3>1. F[i] \in DOMAIN gs /\ hs[i].id = gs[F[i]].id BY <2>3 DEF Carried
    <3>2. F[i] = IF i < r THEN i ELSE i + k BY <2>6, <2>7 DEF Before
    <3>3. hs[i].inv = gs[F[i]].inv BY <2>4, <2>5, <2>6, <2>7
    <3> HIDE DEF F
    <3>4. F[i] \notin r..(r + gs[r].size) /\ (i > 1 <=> F[i] > 1) /\ (i < r => F[i] = i)
      <4>1. PICK u \in Nat : u = gs[r].size BY <1>1
      <4>2. k = 1 + u /\ r \in Nat /\ r > 1 /\ i \in Nat /\ i >= 1
        BY <4>1, <2>1, <2>2, <2>6, <1>1
      <4>3. F[i] \notin r..(r + u) BY <3>2, <4>2
      <4>4. (i > 1 <=> F[i] > 1) /\ (i < r => F[i] = i) BY <3>2, <4>2
      <4> QED BY <4>1, <4>3, <4>4
    <3> QED BY <3>1, <3>3, <3>4
  <2>9. ASSUME NEW j \in DOMAIN gs, j \notin r..(r + gs[r].size)
        PROVE  \E i \in DOMAIN hs : F[i] = j
    <3>1. CASE j < r
      <4>1. j \in 1..(n - k) /\ Before(j, r, k) = j
        BY <3>1, <2>1, <2>4, <1>1 DEF Before
      <4> QED BY <4>1, <2>6, <2>7
    <3>2. CASE ~(j < r)
      <4>1. j >= r + k BY <3>2, <2>1, <2>2, <2>9, <1>1
      <4>2. j - k \in 1..(n - k) /\ Before(j - k, r, k) = j
        BY <4>1, <2>1, <2>4, <1>1 DEF Before
      <4> QED BY <4>2, <2>6, <2>7
    <3> QED BY <3>1, <3>2
  <2> HIDE DEF F, n
  <2>10. /\ Unique(hs)
         /\ UpOf(hs) = [x \in IdsOf(hs, DOMAIN hs) |-> UpOf(gs)[x]]
         /\ LabelOf(hs) = [x \in IdsOf(hs, DOMAIN hs) |-> LabelOf(gs)[x]]
    BY <2>3, CarriedTree
  <2>11. IdsOf(hs, DOMAIN hs) = IdsOf(gs, DOMAIN gs) \ X
    <3>1. ASSUME NEW x \in IdsOf(hs, DOMAIN hs) PROVE x \in IdsOf(gs, DOMAIN gs) \ X
      <4>1. PICK i \in DOMAIN hs : x = hs[i].id BY DEF IdsOf
      <4>2. x = gs[F[i]].id /\ F[i] \in DOMAIN gs /\ F[i] \notin r..(r + gs[r].size)
        BY <4>1, <2>8
      <4>3. x \notin X BY <4>2, <1>3, IdIn
      <4> QED BY <4>2, <4>3 DEF IdsOf
    <3>2. ASSUME NEW x \in IdsOf(gs, DOMAIN gs) \ X PROVE x \in IdsOf(hs, DOMAIN hs)
      <4>1. PICK j \in DOMAIN gs : x = gs[j].id BY DEF IdsOf
      <4>2. j \notin r..(r + gs[r].size) BY <4>1 DEF IdsOf
      <4>3. PICK i \in DOMAIN hs : F[i] = j BY <4>2, <2>9
      <4> QED BY <4>1, <4>3, <2>8 DEF IdsOf
    <3> QED BY <3>1, <3>2
  <2>12. DueOf(hs) = DueOf(gs) \ X
    <3>1. ASSUME NEW x \in DueOf(hs) PROVE x \in DueOf(gs) \ X
      <4>1. PICK i \in DOMAIN hs : i > 1 /\ hs[i].inv /\ x = hs[i].id BY DEF DueOf, IdsOf
      <4>2. /\ x = gs[F[i]].id /\ F[i] \in DOMAIN gs /\ F[i] \notin r..(r + gs[r].size)
            /\ F[i] > 1 /\ gs[F[i]].inv
        BY <4>1, <2>8
      <4>3. x \notin X BY <4>2, <1>3, IdIn
      <4> QED BY <4>2, <4>3 DEF DueOf, IdsOf
    <3>2. ASSUME NEW x \in DueOf(gs) \ X PROVE x \in DueOf(hs)
      <4>1. PICK j \in DOMAIN gs : j > 1 /\ gs[j].inv /\ x = gs[j].id BY DEF DueOf, IdsOf
      <4>2. j \notin r..(r + gs[r].size) BY <4>1 DEF IdsOf
      <4>3. PICK i \in DOMAIN hs : F[i] = j BY <4>2, <2>9
      <4>4. i > 1 /\ hs[i].inv /\ x = hs[i].id BY <4>1, <4>3, <2>8
      <4> QED BY <4>4 DEF DueOf, IdsOf
    <3> QED BY <3>1, <3>2
  <2>13. ASSUME NEW i \in 1..(r - 1) PROVE i \in DOMAIN hs /\ hs[i].id = gs[i].id
    <3>1. i \in 1..(n - k) /\ i < r BY <2>1, <2>4, <1>1
    <3> QED BY <3>1, <2>6, <2>8
  <2> QED BY <2>10, <2>11, <2>12, <2>13, <1>2
<1> QED BY <1>4, <1>5

(* The renumberings of a relocation undo each other.                       *)
LEMMA MovedBack ==
  ASSUME NEW n \in Nat, NEW c \in 2..n, NEW m \in c..n, NEW k \in Nat \ {0},
         m + k <= n + 1, NEW i \in 1..n
  PROVE  /\ MovedFrom(MovedTo(i, m, c, k), m, c, k) = i
         /\ MovedTo(MovedFrom(i, m, c, k), m, c, k) = i
<1>1. MovedFrom(MovedTo(i, m, c, k), m, c, k) = i BY DEF MovedFrom, MovedTo
<1>2. MovedTo(MovedFrom(i, m, c, k), m, c, k) = i BY DEF MovedFrom, MovedTo
<1> QED BY <1>1, <1>2

(* The sibling m of the groups from c on, children of p, goes to c.        *)
Fetches(gs, p, c, m, hs) ==
  /\ gs \in Seq(Group) /\ PreorderTree(gs) /\ p \in 1..Len(gs) /\ c \in Nat
  /\ AtBoundary(gs, p, c)
  /\ m \in Siblings(gs, c, p + 1 + gs[p].size)
  /\ hs = IF m = c THEN gs ELSE MoveSubtree(gs, m, c)

(* A relocation changes nothing in the abstract tree.                      *)
LEMMA RelocateTree ==
  ASSUME NEW gs, NEW p, NEW c, NEW m, NEW hs, Fetches(gs, p, c, m, hs), Unique(gs)
  PROVE  /\ Unique(hs) /\ UpOf(hs) = UpOf(gs) /\ LabelOf(hs) = LabelOf(gs)
         /\ DueOf(hs) = DueOf(gs)
         /\ m \in c..Len(gs) /\ gs[m].parent = p /\ hs[c].id = gs[m].id
         /\ hs[c].key = gs[m].key
<1>1. /\ gs \in Seq(Group) /\ PreorderTree(gs) /\ p \in 1..Len(gs) /\ c \in Nat
      /\ AtBoundary(gs, p, c)
      /\ m \in Siblings(gs, c, p + 1 + gs[p].size)
      /\ hs = IF m = c THEN gs ELSE MoveSubtree(gs, m, c)
  BY DEF Fetches
<1> DEFINE n == Len(gs)
           k == 1 + gs[m].size
<1>2. Place(n, Siz(gs), p, c) BY <1>1, BoundaryPlace
<1>3. c \in 2..n /\ m \in c..n /\ Par(gs)[m] = p
  BY <1>1, <1>2, SiblingFacts DEF SiblingFrom
<1>4. n \in Nat /\ DOMAIN gs = 1..n /\ gs[m].parent = p
  BY <1>1, <1>3, TableType, TableTree
<1>5. CASE m = c BY <1>1, <1>3, <1>4, <1>5
<1>6. CASE m # c
  <2>1. hs = MoveSubtree(gs, m, c) BY <1>1, <1>6
  <2>2. k \in Nat \ {0} /\ m + k <= n + 1
    <3>1. gs[m].size \in Nat /\ m + gs[m].size <= n
      BY <1>1, <1>3, <1>4, TableType DEF PreorderTree
    <3> QED BY <3>1, <1>3, <1>4
  <2>3. PICK kk : kk = 1 + gs[m].size /\ kk = k OBVIOUS
  <2>4. DOMAIN hs = 1..n BY <2>1, <1>4 DEF MoveSubtree
  <2>5. ASSUME NEW i \in 1..n
        PROVE  hs[i] = WithParent(gs[MovedFrom(i, m, c, k)],
                                  MovedTo(gs[MovedFrom(i, m, c, k)].parent, m, c, k))
    BY <2>1, <1>4 DEF MoveSubtree
  <2> HIDE DEF n, k
  <2>6. \A i \in 1..n : /\ MovedFrom(i, m, c, k) \in 1..n
                        /\ MovedTo(i, m, c, k) \in 1..n
                        /\ i >= c => MovedFrom(i, m, c, k) >= c
                        /\ i < c => MovedFrom(i, m, c, k) = i /\ MovedTo(i, m, c, k) = i
    <3>1. n \in Nat /\ c \in 2..n /\ m \in c..n BY <1>3, <1>4
    <3> QED BY <3>1, <2>2, MovedRange
  <2>7. \A i \in 1..n : /\ MovedFrom(MovedTo(i, m, c, k), m, c, k) = i
                        /\ MovedTo(MovedFrom(i, m, c, k), m, c, k) = i
    BY <1>3, <1>4, <2>2, MovedBack
  <2> DEFINE F == [i \in 1..n |-> MovedFrom(i, m, c, k)]
  <2>8. ASSUME NEW i \in 1..n
        PROVE  /\ F[i] \in 1..n
               /\ hs[i].id = gs[F[i]].id /\ hs[i].key = gs[F[i]].key
               /\ hs[i].inv = gs[F[i]].inv
               /\ hs[i].parent \in 1..n /\ F[hs[i].parent] = gs[F[i]].parent
               /\ (i > 1 <=> F[i] > 1)
    <3>1. PICK j \in 1..n : j = MovedFrom(i, m, c, k) BY <2>6
    <3>2. gs[j] \in Group /\ gs[j].parent \in 1..n BY <1>1, <3>1, ParentIn, TableType DEF n
    <3>3. PICK q \in 1..n : q = MovedTo(gs[j].parent, m, c, k) BY <3>2, <2>6
    <3>4. hs[i] = WithParent(gs[j], q) BY <2>5, <3>1, <3>3
    <3>5. hs[i].id = gs[j].id /\ hs[i].key = gs[j].key BY <3>2, <3>4, FieldsKept
    <3>6. hs[i].parent = q /\ hs[i].inv = gs[j].inv
      BY <3>2, <3>4 DEF WithParent, Group
    <3>7. F[q] = gs[j].parent BY <3>2, <3>3, <2>7
    <3>8. i > 1 <=> j > 1
      <4>1. c >= 2 /\ c \in Nat BY <1>3, <1>4
      <4>2. i >= c => j >= c BY <3>1, <2>6
      <4>3. i < c => j = i BY <3>1, <2>6
      <4> QED BY <4>1, <4>2, <4>3
    <3>9. F[i] = j BY <3>1
    <3> HIDE DEF F
    <3> QED BY <3>5, <3>6, <3>7, <3>8, <3>9
  <2>9. \A i, j \in 1..n : F[i] = F[j] => i = j BY <2>7
  <2>10. \A x \in 1..n : MovedTo(x, m, c, k) \in 1..n /\ F[MovedTo(x, m, c, k)] = x
    BY <2>6, <2>7
  <2>11. F[c] = m BY <1>3, <1>4, <2>2 DEF MovedFrom
  <2>12. F \in [1..n -> 1..n] BY <2>8
  <2> HIDE DEF F
  <2>13. Carried(gs, hs, F) BY <1>4, <2>4, <2>8, <2>9, <2>12 DEF Carried
  <2>14. Unique(hs) /\ UpOf(hs) = UpOf(gs) /\ LabelOf(hs) = LabelOf(gs)
    <3>1. \A x \in DOMAIN gs : \E i \in DOMAIN hs : F[i] = x BY <1>4, <2>4, <2>10
    <3> QED BY <3>1, <2>13, CarriedAll
  <2>15. DueOf(hs) = DueOf(gs)
    <3>1. ASSUME NEW x \in DueOf(hs) PROVE x \in DueOf(gs)
      <4>1. PICK i \in DOMAIN hs : i > 1 /\ hs[i].inv /\ x = hs[i].id BY DEF DueOf, IdsOf
      <4>2. F[i] \in DOMAIN gs /\ F[i] > 1 /\ gs[F[i]].inv /\ x = gs[F[i]].id
        BY <4>1, <1>4, <2>4, <2>8
      <4> QED BY <4>2 DEF DueOf, IdsOf
    <3>2. ASSUME NEW x \in DueOf(gs) PROVE x \in DueOf(hs)
      <4>1. PICK j \in DOMAIN gs : j > 1 /\ gs[j].inv /\ x = gs[j].id BY DEF DueOf, IdsOf
      <4>2. PICK i \in 1..n : F[i] = j BY <1>4, <2>10
      <4>3. i \in DOMAIN hs /\ i > 1 /\ hs[i].inv /\ x = hs[i].id
        BY <4>1, <4>2, <2>4, <2>8
      <4> QED BY <4>3 DEF DueOf, IdsOf
    <3> QED BY <3>1, <3>2
  <2>16. hs[c].id = gs[m].id /\ hs[c].key = gs[m].key
    <3>1. c \in 1..n BY <1>3, <1>4
    <3> QED BY <3>1, <2>8, <2>11
  <2> QED BY <1>3, <1>4, <2>14, <2>15, <2>16 DEF n
<1> QED BY <1>5, <1>6

(* A group with key k and identity id is inserted at c, below p.           *)
Inserts(gs, p, c, k, id, hs) ==
  /\ gs \in Seq(Group) /\ PreorderTree(gs) /\ p \in 1..Len(gs) /\ c \in Nat
  /\ Place(Len(gs), Siz(gs), p, c) /\ k \in Keys /\ id \in Nat
  /\ hs = InsertGroup(gs, c, p, k, id)
  /\ Unique(gs) /\ id \notin IdsOf(gs, DOMAIN gs)

(* Then the maps hold it, with its parent and its key.                     *)
InsertMaps(gs, p, c, k, id, hs) ==
  /\ Unique(hs) /\ hs[c].id = id
  /\ IdsOf(hs, DOMAIN hs) = IdsOf(gs, DOMAIN gs) \cup {id}
  /\ UpOf(hs) = [x \in DOMAIN UpOf(gs) \cup {id} |->
                   IF x = id THEN gs[p].id ELSE UpOf(gs)[x]]
  /\ LabelOf(hs) = [x \in DOMAIN LabelOf(gs) \cup {id} |->
                      IF x = id THEN k ELSE LabelOf(gs)[x]]
  /\ DueOf(hs) = DueOf(gs)
  /\ \A i \in 1..(c - 1) : hs[i].id = gs[i].id

(* An insertion adds one group to the abstract tree, below p.              *)
LEMMA InsertTreeMaps ==
  ASSUME NEW gs, NEW p, NEW c, NEW k, NEW id, NEW hs, Inserts(gs, p, c, k, id, hs)
  PROVE  InsertMaps(gs, p, c, k, id, hs)
<1> SUFFICES
      ASSUME gs \in Seq(Group), PreorderTree(gs), p \in 1..Len(gs), c \in Nat,
             Place(Len(gs), Siz(gs), p, c), k \in Keys, id \in Nat,
             hs = InsertGroup(gs, c, p, k, id),
             Unique(gs), id \notin IdsOf(gs, DOMAIN gs)
      PROVE  /\ Unique(hs) /\ hs[c].id = id
             /\ IdsOf(hs, DOMAIN hs) = IdsOf(gs, DOMAIN gs) \cup {id}
             /\ UpOf(hs) = [x \in DOMAIN UpOf(gs) \cup {id} |->
                              IF x = id THEN gs[p].id ELSE UpOf(gs)[x]]
             /\ LabelOf(hs) = [x \in DOMAIN LabelOf(gs) \cup {id} |->
                                 IF x = id THEN k ELSE LabelOf(gs)[x]]
             /\ DueOf(hs) = DueOf(gs)
             /\ \A i \in 1..(c - 1) : hs[i].id = gs[i].id
  BY DEF Inserts, InsertMaps
<1> DEFINE n == Len(gs)
           os == OpenAt(gs, c, NewGroup(k, id, p))
           A == Climb(os, p)
           F == [i \in 1..n |-> IF i < c THEN i ELSE i + 1]
<1>1. n \in Nat /\ DOMAIN gs = 1..n BY TableType
<1>2. /\ hs \in Seq(Group) /\ Len(hs) = n + 1 /\ c \in 2..(n + 1)
      /\ hs[c].parent = p /\ ~hs[c].inv
  BY InsertFacts
<1>3. p < c BY DEF Place
<1>4. DOMAIN hs = 1..(n + 1) BY <1>1, <1>2, TableType
<1>5. ASSUME NEW i \in 1..(n + 1)
      PROVE  os[i] = IF i = c THEN NewGroup(k, id, p)
                     ELSE IF i < c THEN gs[i]
                     ELSE WithParent(gs[i - 1], IF gs[i - 1].parent >= c
                                                THEN gs[i - 1].parent + 1
                                                ELSE gs[i - 1].parent)
  BY <1>1 DEF OpenAt
<1>6. ASSUME NEW i \in 1..(n + 1)
      PROVE  hs[i] = os[i] \/ \E s : hs[i] = WithSize(os[i], s)
  <2>1. DOMAIN os = 1..(n + 1) BY <1>1 DEF OpenAt
  <2>2. hs = Grow(os, A) BY DEF InsertGroup
  <2> HIDE DEF os, A, n
  <2> QED BY <2>1, <2>2 DEF Grow
<1> HIDE DEF os, A, n
<1>7. ASSUME NEW i \in 1..(n + 1), os[i] \in Group
      PROVE  hs[i].id = os[i].id /\ hs[i].key = os[i].key /\ hs[i].parent = os[i].parent
  <2>1. CASE hs[i] = os[i] BY <2>1
  <2>2. ASSUME NEW s, hs[i] = WithSize(os[i], s)
        PROVE  hs[i].id = os[i].id /\ hs[i].key = os[i].key /\ hs[i].parent = os[i].parent
    <3>1. WithSize(os[i], s).parent = os[i].parent BY <1>7 DEF WithSize, Group
    <3> QED BY <2>2, <3>1, <1>7, FieldsKept
  <2> QED BY <2>1, <2>2, <1>6
<1>8. hs[c].id = id /\ hs[c].key = k
  <2>1. c \in 1..(n + 1) BY <1>1, <1>2
  <2>2. os[c] = NewGroup(k, id, p) BY <2>1, <1>5
  <2>3. NewGroup(k, id, p) \in Group BY <1>1 DEF NewGroup, Group, n
  <2>4. NewGroup(k, id, p).id = id /\ NewGroup(k, id, p).key = k BY DEF NewGroup
  <2> QED BY <2>1, <2>2, <2>3, <2>4, <1>7
<1>9. ASSUME NEW i \in 1..n
      PROVE  /\ F[i] \in 1..(n + 1) /\ F[i] # c
             /\ hs[F[i]].id = gs[i].id /\ hs[F[i]].key = gs[i].key
             /\ gs[i].parent \in 1..n /\ F[gs[i].parent] = hs[F[i]].parent
  <2>1. gs[i] \in Group /\ gs[i].parent \in 1..n /\ gs[i].parent <= i
    BY ParentIn, TableType DEF n
  <2>2. CASE i < c
    <3>1. F[i] = i /\ i \in 1..(n + 1) /\ i # c BY <2>2, <1>1
    <3>2. os[i] = gs[i] BY <3>1, <2>2, <1>5
    <3>3. F[gs[i].parent] = gs[i].parent BY <2>1, <2>2, <1>1, <1>2
    <3> HIDE DEF F
    <3> QED BY <3>1, <3>2, <3>3, <2>1, <1>7
  <2>3. CASE ~(i < c)
    <3>1. F[i] = i + 1 /\ i + 1 \in 1..(n + 1) /\ i + 1 # c /\ ~(i + 1 < c) /\ (i + 1) - 1 = i
      BY <2>3, <1>1, <1>2
    <3>2. PICK q \in Nat : q = IF gs[i].parent >= c THEN gs[i].parent + 1 ELSE gs[i].parent
      BY <2>1, <1>1
    <3>3. os[i + 1] = WithParent(gs[i], q) BY <3>1, <3>2, <1>5
    <3>4. WithParent(gs[i], q) \in Group /\ WithParent(gs[i], q).parent = q
      BY <2>1, FieldsParent
    <3>5. WithParent(gs[i], q).id = gs[i].id /\ WithParent(gs[i], q).key = gs[i].key
      BY <2>1, FieldsKept
    <3>6. F[gs[i].parent] = q BY <2>1, <3>2, <1>1, <1>2
    <3> HIDE DEF F
    <3> QED BY <3>1, <3>3, <3>4, <3>5, <3>6, <2>1, <1>7
  <2> QED BY <2>2, <2>3
<1>10. \A i, j \in 1..n : F[i] = F[j] => i = j BY <1>1, <1>2
<1>11. F \in [1..n -> 1..(n + 1)] BY <1>9
<1>12. ASSUME NEW j \in 1..(n + 1), j # c PROVE \E i \in 1..n : F[i] = j
  <2>1. CASE j < c
    <3>1. j \in 1..n BY <2>1, <1>1, <1>2
    <3> QED BY <2>1, <3>1
  <2>2. CASE j > c
    <3>1. j - 1 \in 1..n /\ ~(j - 1 < c) /\ (j - 1) + 1 = j BY <2>2, <1>1, <1>2
    <3> QED BY <3>1
  <2> QED BY <2>1, <2>2, <1>1, <1>2, <1>12
<1>13. \A i \in 1..n : /\ i > 1 <=> F[i] > 1
                       /\ gs[i].inv = hs[F[i]].inv
  <2>1. \A i \in 1..(c - 1) : hs[i].inv = gs[i].inv BY InsertFacts
  <2>2. \A i \in c..n : hs[i + 1].inv = gs[i].inv BY InsertFacts DEF n
  <2>3. ASSUME NEW i \in 1..n PROVE (i > 1 <=> F[i] > 1) /\ gs[i].inv = hs[F[i]].inv
    <3>1. CASE i < c
      <4>1. i \in 1..(c - 1) /\ F[i] = i BY <3>1, <1>1, <1>2
      <4> QED BY <4>1, <2>1
    <3>2. CASE ~(i < c)
      <4>1. i \in c..n /\ F[i] = i + 1 /\ i > 1 /\ i + 1 > 1 BY <3>2, <1>1, <1>2
      <4> QED BY <4>1, <2>2
    <3> QED BY <3>1, <3>2
  <2> QED BY <2>3
<1>14. \A i \in 1..(c - 1) : i \in 1..n /\ F[i] = i BY <1>1, <1>2
<1> HIDE DEF F
<1>15. Carried(hs, gs, F) BY <1>1, <1>4, <1>9, <1>10, <1>11 DEF Carried
<1>16. ASSUME NEW j \in 1..(n + 1), j # c
       PROVE  hs[j].id \in IdsOf(gs, DOMAIN gs) /\ hs[j].id # id
  <2>1. PICK i \in 1..n : F[i] = j BY <1>12, <1>16
  <2>2. hs[j].id = gs[i].id BY <2>1, <1>9
  <2> QED BY <2>2, <1>1 DEF IdsOf
<1>17. Unique(hs)
  <2> SUFFICES ASSUME NEW i \in 1..(n + 1), NEW j \in 1..(n + 1), hs[i].id = hs[j].id
               PROVE  i = j
    BY <1>4 DEF Unique
  <2>1. CASE i = c \/ j = c BY <2>1, <1>8, <1>16
  <2>2. CASE i # c /\ j # c
    <3>1. PICK a \in 1..n : F[a] = i BY <1>12, <2>2
    <3>2. PICK b \in 1..n : F[b] = j BY <1>12, <2>2
    <3>3. gs[a].id = gs[b].id BY <3>1, <3>2, <1>9
    <3> QED BY <3>1, <3>2, <3>3, <1>1 DEF Unique
  <2> QED BY <2>1, <2>2
<1>18. /\ IdsOf(gs, DOMAIN gs) \subseteq IdsOf(hs, DOMAIN hs)
       /\ UpOf(gs) = [x \in IdsOf(gs, DOMAIN gs) |-> UpOf(hs)[x]]
       /\ LabelOf(gs) = [x \in IdsOf(gs, DOMAIN gs) |-> LabelOf(hs)[x]]
  BY <1>15, <1>17, CarriedTree
<1>19. c \in DOMAIN hs /\ p \in 1..n BY <1>1, <1>2, <1>4 DEF n
<1>20. UpOf(hs)[id] = gs[p].id /\ LabelOf(hs)[id] = k /\ id \in IdsOf(hs, DOMAIN hs)
  <2>1. /\ hs[c].id \in IdsOf(hs, DOMAIN hs)
        /\ UpOf(hs)[hs[c].id] = hs[hs[c].parent].id
        /\ LabelOf(hs)[hs[c].id] = hs[c].key
    BY <1>17, <1>19, MapsAt
  <2>2. p \in 1..(c - 1) BY <1>1, <1>2, <1>3, <1>19
  <2>3. hs[p].id = gs[p].id BY <2>2, <1>9, <1>14
  <2> QED BY <2>1, <2>3, <1>2, <1>8
<1>21. IdsOf(hs, DOMAIN hs) = IdsOf(gs, DOMAIN gs) \cup {id}
  <2>1. ASSUME NEW x \in IdsOf(hs, DOMAIN hs) PROVE x \in IdsOf(gs, DOMAIN gs) \cup {id}
    <3>1. PICK j \in 1..(n + 1) : x = hs[j].id BY <1>4 DEF IdsOf
    <3> QED BY <3>1, <1>8, <1>16
  <2> QED BY <2>1, <1>18, <1>20
<1>22. UpOf(hs) = [x \in DOMAIN UpOf(gs) \cup {id} |->
                     IF x = id THEN gs[p].id ELSE UpOf(gs)[x]]
  <2>1. UpOf(hs) = [x \in IdsOf(hs, DOMAIN hs) |-> UpOf(hs)[x]] BY DEF UpOf
  <2>2. DOMAIN UpOf(gs) = IdsOf(gs, DOMAIN gs) BY DEF UpOf
  <2>3. \A x \in IdsOf(gs, DOMAIN gs) : UpOf(gs)[x] = UpOf(hs)[x] BY <1>18
  <2> QED BY <2>1, <2>2, <2>3, <1>20, <1>21
<1>23. LabelOf(hs) = [x \in DOMAIN LabelOf(gs) \cup {id} |->
                        IF x = id THEN k ELSE LabelOf(gs)[x]]
  <2>1. LabelOf(hs) = [x \in IdsOf(hs, DOMAIN hs) |-> LabelOf(hs)[x]] BY DEF LabelOf
  <2>2. DOMAIN LabelOf(gs) = IdsOf(gs, DOMAIN gs) BY DEF LabelOf
  <2>3. \A x \in IdsOf(gs, DOMAIN gs) : LabelOf(gs)[x] = LabelOf(hs)[x] BY <1>18
  <2> QED BY <2>1, <2>2, <2>3, <1>20, <1>21
<1>24. DueOf(hs) = DueOf(gs)
  <2>1. ASSUME NEW x \in DueOf(hs) PROVE x \in DueOf(gs)
    <3>1. PICK j \in 1..(n + 1) : j > 1 /\ hs[j].inv /\ x = hs[j].id
      BY <1>4 DEF DueOf, IdsOf
    <3>2. PICK i \in 1..n : F[i] = j BY <3>1, <1>2, <1>12
    <3>3. i \in DOMAIN gs /\ i > 1 /\ gs[i].inv /\ x = gs[i].id
      BY <3>1, <3>2, <1>1, <1>9, <1>13
    <3> QED BY <3>3 DEF DueOf, IdsOf
  <2>2. ASSUME NEW x \in DueOf(gs) PROVE x \in DueOf(hs)
    <3>1. PICK i \in 1..n : i > 1 /\ gs[i].inv /\ x = gs[i].id BY <1>1 DEF DueOf, IdsOf
    <3>2. F[i] \in DOMAIN hs /\ F[i] > 1 /\ hs[F[i]].inv /\ x = hs[F[i]].id
      BY <3>1, <1>4, <1>9, <1>13
    <3> QED BY <3>2 DEF DueOf, IdsOf
  <2> QED BY <2>1, <2>2
<1>25. \A i \in 1..(c - 1) : hs[i].id = gs[i].id BY <1>9, <1>14
<1> QED BY <1>8, <1>17, <1>21, <1>22, <1>23, <1>24, <1>25

(* The frames that run.                                                    *)
Actives(st) == {d \in DOMAIN st : st[d].active}

(* The running groups are those of the frames up to the innermost that     *)
(* runs.                                                                   *)
LEMMA OpenIs ==
  ASSUME NEW gs \in Seq(Group), NEW st \in Seq(Frame), st # <<>>, NEW c, OpenPath(gs, st, c),
         NEW n, n = Innermost(st)
  PROVE  /\ n \in 1..Len(st) /\ Len(st) \in Nat
         /\ Actives(st) = 1..n
         /\ \A d \in 1..n : st[d].idx \in 1..Len(gs) /\ st[d].idx < c
         /\ OpenOf(gs, st) \in Seq(Nat) /\ Len(OpenOf(gs, st)) = n
         /\ \A d \in 1..n : OpenOf(gs, st)[d] = gs[st[d].idx].id
<1> DEFINE l == Len(st)
<1>1. l \in Nat \ {0} /\ DOMAIN st = 1..l BY EmptySeq, LenProperties
<1>2. /\ st[1].active
      /\ \A d \in 1..(l - 1) : st[d].active
      /\ \A d \in 1..l : st[d].active => st[d].idx \in 1..Len(gs) /\ st[d].idx < c
  BY DEF OpenPath
<1>3. n = IF st[l].active THEN l ELSE l - 1 BY DEF Innermost
<1> HIDE DEF l
<1>4. n \in 1..l
  <2>1. CASE st[l].active BY <2>1, <1>1, <1>3
  <2>2. CASE ~st[l].active
    <3>1. l # 1 BY <2>2, <1>2
    <3> QED BY <2>2, <3>1, <1>1, <1>3
  <2> QED BY <2>1, <2>2
<1>5. Actives(st) = 1..n
  <2>1. ASSUME NEW d \in 1..l PROVE st[d].active <=> d \in 1..n
    <3>1. CASE st[l].active
      <4>1. d \in 1..(l - 1) \/ d = l BY <1>1
      <4> QED BY <3>1, <4>1, <1>2, <1>3
    <3>2. CASE ~st[l].active
      <4>1. d \in 1..(l - 1) \/ d = l BY <1>1
      <4>2. l \notin 1..(l - 1) BY <1>1
      <4> QED BY <3>2, <4>1, <4>2, <1>2, <1>3
    <3> QED BY <3>1, <3>2
  <2>2. 1..n \subseteq 1..l BY <1>1, <1>4
  <2> QED BY <1>1, <2>1, <2>2 DEF Actives
<1>6. ASSUME NEW d \in 1..n
      PROVE  st[d].idx \in 1..Len(gs) /\ st[d].idx < c /\ gs[st[d].idx].id \in Nat
  <2>1. d \in 1..l /\ st[d].active
    <3>1. d \in Actives(st) BY <1>5
    <3> QED BY <3>1, <1>1 DEF Actives
  <2> QED BY <2>1, <1>2, TableType
<1>7. OpenOf(gs, st) = [d \in 1..n |-> gs[st[d].idx].id] BY <1>5 DEF OpenOf, Actives
<1>8. OpenOf(gs, st) \in [1..n -> Nat] BY <1>6, <1>7
<1>9. OpenOf(gs, st) \in Seq(Nat) /\ Len(OpenOf(gs, st)) = n
  <2>1. n \in Nat BY <1>1, <1>4
  <2> QED BY <1>8, <2>1, SeqOfFcn
<1> QED BY <1>1, <1>4, <1>5, <1>6, <1>7, <1>9 DEF l

(* The same frames run, and the groups before the cursor are the same.     *)
StillOpen(gs, st, c, hs, u) ==
  /\ gs \in Seq(Group) /\ st \in Seq(Frame) /\ st # <<>> /\ c \in Nat
  /\ OpenPath(gs, st, c)
  /\ \A i \in 1..(c - 1) : hs[i].id = gs[i].id
  /\ Actives(u) = Actives(st)
  /\ \A d \in Actives(st) : u[d].idx = st[d].idx

(* The running groups do not change if the same frames run and the table   *)
(* keeps the identities before the cursor.                                 *)
LEMMA OpenSame ==
  ASSUME NEW gs, NEW st, NEW c, NEW hs, NEW u, StillOpen(gs, st, c, hs, u)
  PROVE  OpenOf(hs, u) = OpenOf(gs, st)
<1>0. /\ gs \in Seq(Group) /\ st \in Seq(Frame) /\ st # <<>> /\ c \in Nat
      /\ OpenPath(gs, st, c)
      /\ \A i \in 1..(c - 1) : hs[i].id = gs[i].id
      /\ Actives(u) = Actives(st)
      /\ \A d \in Actives(st) : u[d].idx = st[d].idx
  BY DEF StillOpen
<1>1. ASSUME NEW d \in Actives(st) PROVE hs[u[d].idx].id = gs[st[d].idx].id
  <2>1. PICK n : n = Innermost(st) OBVIOUS
  <2>2. d \in 1..n BY <1>0, <2>1, OpenIs
  <2>3. st[d].idx \in 1..Len(gs) /\ st[d].idx < c BY <1>0, <2>1, <2>2, OpenIs
  <2>4. st[d].idx \in 1..(c - 1) BY <1>0, <2>3, TableType
  <2> QED BY <1>0, <2>4
<1>2. OpenOf(hs, u) = [d \in Actives(u) |-> hs[u[d].idx].id] BY DEF OpenOf, Actives
<1>3. OpenOf(gs, st) = [d \in Actives(st) |-> gs[st[d].idx].id] BY DEF OpenOf, Actives
<1> QED BY <1>0, <1>1, <1>2, <1>3

(* A frame is pushed for the group at x; on says that it runs.             *)
Pushes(gs, st, c, hs, x, on, u) ==
  /\ gs \in Seq(Group) /\ st \in Seq(Frame) /\ st # <<>> /\ c \in Nat
  /\ OpenPath(gs, st, c) /\ st[Len(st)].active
  /\ \A i \in 1..(c - 1) : hs[i].id = gs[i].id
  /\ on \in BOOLEAN
  /\ u = Append(st, [idx |-> x, active |-> on, end |-> 0])

(* What becomes of the running groups.                                     *)
Pushed(gs, st, hs, x, on, u) ==
  /\ ~on => OpenOf(hs, u) = OpenOf(gs, st)
  /\ on => OpenOf(hs, u) = Append(OpenOf(gs, st), hs[x].id)

(* Only a group that runs is added to the running groups.                  *)
LEMMA OpenPush ==
  ASSUME NEW gs, NEW st, NEW c, NEW hs, NEW x, NEW on, NEW u,
         Pushes(gs, st, c, hs, x, on, u)
  PROVE  Pushed(gs, st, hs, x, on, u)
<1> SUFFICES
      ASSUME gs \in Seq(Group), st \in Seq(Frame), st # <<>>, c \in Nat,
             OpenPath(gs, st, c), st[Len(st)].active,
             \A i \in 1..(c - 1) : hs[i].id = gs[i].id,
             on \in BOOLEAN,
             u = Append(st, [idx |-> x, active |-> on, end |-> 0])
      PROVE  /\ ~on => OpenOf(hs, u) = OpenOf(gs, st)
             /\ on => OpenOf(hs, u) = Append(OpenOf(gs, st), hs[x].id)
  BY DEF Pushes, Pushed
<1> DEFINE n == Len(st)
           f == [idx |-> x, active |-> on, end |-> 0]
<1>1. n = Innermost(st) BY DEF Innermost
<1>2. /\ n \in Nat \ {0} /\ Actives(st) = 1..n
      /\ OpenOf(gs, st) \in Seq(Nat) /\ Len(OpenOf(gs, st)) = n
  <2>1. n \in 1..Len(st) /\ Len(st) \in Nat /\ Actives(st) = 1..n BY <1>1, OpenIs
  <2>2. OpenOf(gs, st) \in Seq(Nat) /\ Len(OpenOf(gs, st)) = n BY <1>1, OpenIs
  <2> QED BY <2>1, <2>2
<1>3. DOMAIN st = 1..n BY LenProperties
<1>4. u = [d \in 1..(n + 1) |-> IF d = n + 1 THEN f ELSE st[d]] BY <1>2, <1>3
<1>5. f.active = on /\ f.idx = x OBVIOUS
<1> HIDE DEF n, f
<1>6. /\ DOMAIN u = 1..(n + 1)
      /\ u[n + 1] = f
      /\ \A d \in 1..n : u[d] = st[d]
  BY <1>2, <1>4
<1>7. \A d \in 1..n : st[d].active BY <1>2 DEF Actives
<1>8. ASSUME ~on PROVE OpenOf(hs, u) = OpenOf(gs, st)
  <2>1. Actives(u) = 1..n
    <3>1. \A d \in 1..(n + 1) : u[d].active <=> d \in 1..n BY <1>2, <1>5, <1>6, <1>7, <1>8
    <3>2. 1..n \subseteq 1..(n + 1) BY <1>2
    <3> QED BY <3>1, <3>2, <1>6 DEF Actives
  <2>2. \A d \in Actives(st) : u[d].idx = st[d].idx BY <1>2, <1>6
  <2>3. Actives(u) = Actives(st) BY <2>1, <1>2
  <2>4. StillOpen(gs, st, c, hs, u) BY <2>2, <2>3 DEF StillOpen
  <2> QED BY <2>4, OpenSame
<1>9. ASSUME on PROVE OpenOf(hs, u) = Append(OpenOf(gs, st), hs[x].id)
  <2>1. Actives(u) = 1..(n + 1)
    <3>1. ASSUME NEW d \in 1..(n + 1) PROVE u[d].active
      <4>1. d \in 1..n \/ d = n + 1 BY <1>2
      <4> QED BY <4>1, <1>5, <1>6, <1>7, <1>9
    <3> QED BY <3>1, <1>6 DEF Actives
  <2>2. OpenOf(hs, u) = [d \in 1..(n + 1) |-> hs[u[d].idx].id]
    BY <2>1 DEF OpenOf, Actives
  <2>3. ASSUME NEW d \in 1..n PROVE hs[u[d].idx].id = OpenOf(gs, st)[d]
    <3>1. st[d].idx \in 1..Len(gs) /\ st[d].idx < c
      BY <1>1, OpenIs
    <3>2. OpenOf(gs, st)[d] = gs[st[d].idx].id BY <1>1, OpenIs
    <3>3. st[d].idx \in 1..(c - 1) BY <3>1, TableType
    <3> QED BY <3>2, <3>3, <1>6
  <2>4. hs[u[n + 1].idx].id = hs[x].id BY <1>5, <1>6
  <2>5. Append(OpenOf(gs, st), hs[x].id) =
          [d \in 1..(n + 1) |-> IF d = n + 1 THEN hs[x].id ELSE OpenOf(gs, st)[d]]
    BY <1>2
  <2>6. ASSUME NEW d \in 1..(n + 1)
        PROVE  hs[u[d].idx].id = IF d = n + 1 THEN hs[x].id ELSE OpenOf(gs, st)[d]
    <3>1. d \in 1..n \/ d = n + 1 BY <1>2
    <3>2. n + 1 \notin 1..n BY <1>2
    <3> QED BY <3>1, <3>2, <2>3, <2>4
  <2> QED BY <2>2, <2>5, <2>6
<1> QED BY <1>8, <1>9

(* Popping a frame of a group that runs, or of one that does not.          *)
LEMMA OpenPop ==
  ASSUME NEW gs \in Seq(Group), NEW st \in Seq(Frame), st # <<>>, NEW c \in Nat,
         OpenPath(gs, st, c),
         NEW u, u = SubSeq(st, 1, Len(st) - 1)
  PROVE  /\ ~st[Len(st)].active => OpenOf(gs, u) = OpenOf(gs, st) /\ u # <<>>
         /\ st[Len(st)].active =>
              /\ OpenOf(gs, u) = SubSeq(OpenOf(gs, st), 1, Len(OpenOf(gs, st)) - 1)
              /\ Len(OpenOf(gs, st)) = Len(st)
              /\ u = <<>> <=> Len(st) = 1
<1> DEFINE l == Len(st)
<1>1. l \in Nat \ {0} /\ DOMAIN st = 1..l BY EmptySeq, LenProperties
<1>2. u = [d \in 1..(l - 1) |-> st[d]] BY <1>1
<1>3. u \in Seq(Frame) /\ Len(u) = l - 1 BY <1>1
<1>4. u = <<>> <=> l = 1
  <2>1. u = <<>> <=> Len(u) = 0 BY <1>3, EmptySeq
  <2> HIDE DEF l
  <2> QED BY <2>1, <1>1, <1>3
<1>5. PICK n : n = Innermost(st) OBVIOUS
<1>6. /\ n \in 1..l /\ Actives(st) = 1..n
      /\ OpenOf(gs, st) \in Seq(Nat) /\ Len(OpenOf(gs, st)) = n
  <2>1. n \in 1..Len(st) /\ Actives(st) = 1..n BY <1>5, OpenIs
  <2>2. OpenOf(gs, st) \in Seq(Nat) /\ Len(OpenOf(gs, st)) = n BY <1>5, OpenIs
  <2> QED BY <2>1, <2>2
<1>7. n = IF st[l].active THEN l ELSE l - 1 BY <1>5 DEF Innermost
<1> HIDE DEF l
<1>8. Actives(u) = {d \in 1..(l - 1) : d \in 1..n}
  <2>1. \A d \in 1..(l - 1) : u[d].active <=> d \in 1..n
    <3>1. \A d \in 1..l : st[d].active <=> d \in 1..n BY <1>1, <1>6 DEF Actives
    <3>2. 1..(l - 1) \subseteq 1..l BY <1>1
    <3> QED BY <3>1, <3>2, <1>2
  <2> QED BY <2>1, <1>2 DEF Actives
<1>9. ASSUME ~st[l].active PROVE OpenOf(gs, u) = OpenOf(gs, st) /\ u # <<>>
  <2>1. n = l - 1 BY <1>7, <1>9
  <2>2. l # 1 BY <2>1, <1>6
  <2>3. Actives(u) = Actives(st) BY <2>1, <1>6, <1>8
  <2>4. \A d \in Actives(st) : u[d].idx = st[d].idx BY <2>1, <1>2, <1>6
  <2>5. StillOpen(gs, st, c, gs, u) BY <2>3, <2>4 DEF StillOpen
  <2>6. OpenOf(gs, u) = OpenOf(gs, st) BY <2>5, OpenSame
  <2> QED BY <2>2, <2>6, <1>4
<1>10. ASSUME st[l].active
       PROVE  /\ OpenOf(gs, u) = SubSeq(OpenOf(gs, st), 1, Len(OpenOf(gs, st)) - 1)
              /\ Len(OpenOf(gs, st)) = l
  <2>1. n = l BY <1>7, <1>10
  <2>a. 1..(l - 1) \subseteq 1..n BY <2>1, <1>1
  <2>2. Actives(u) = 1..(l - 1) BY <2>a, <1>8
  <2>3. OpenOf(gs, u) = [d \in 1..(l - 1) |-> gs[u[d].idx].id] BY <2>2 DEF OpenOf, Actives
  <2>4. OpenOf(gs, st) = [d \in 1..l |-> gs[st[d].idx].id] BY <2>1, <1>6 DEF OpenOf, Actives
  <2>5. SubSeq(OpenOf(gs, st), 1, l - 1) = [d \in 1..(l - 1) |-> OpenOf(gs, st)[d]]
    BY <2>1, <1>1, <1>6
  <2>6. \A d \in 1..(l - 1) : OpenOf(gs, st)[d] = gs[u[d].idx].id
    <3>1. 1..(l - 1) \subseteq 1..l BY <1>1
    <3> QED BY <3>1, <2>4, <1>2
  <2> QED BY <2>1, <2>3, <2>5, <2>6, <1>6
<1> QED BY <1>4, <1>9, <1>10 DEF l

(* Every identity was given out, below the bound, to one group.            *)
Identified ==
  /\ nextId <= MaxIds + 1
  /\ IdsOf(groups, DOMAIN groups) \subseteq 1..(nextId - 1)
  /\ Unique(groups)

(* A step of the table is a step of the abstract tree, or none.            *)
TreeStep == AbstractTree!Next \/ UNCHANGED AbstractTree!treeVars

(* The maps are over the identities in the table.                          *)
LEMMA MapDomains ==
  ASSUME NEW gs
  PROVE  DOMAIN UpOf(gs) = IdsOf(gs, DOMAIN gs) /\ DOMAIN LabelOf(gs) = IdsOf(gs, DOMAIN gs)
BY DEF UpOf, LabelOf

(* The subtree of an identity, in the abstract tree.                       *)
LEMMA UnderIsUnderOf ==
  ASSUME NEW y
  PROVE  AbstractTree!Under(y) = UnderOf(UpOf(groups), y)
BY DEF AbstractTree!Under, AbstractTree!Chain, AbstractTree!live, UnderOf, ChainOf

(* The same places, the same identities.                                   *)
LEMMA SameIds ==
  ASSUME NEW gs, NEW hs, NEW I, \A i \in I : hs[i].id = gs[i].id
  PROVE  IdsOf(hs, I) = IdsOf(gs, I)
BY DEF IdsOf

(* What a walk has seen is what stands before its cursor.                  *)
LEMMA SeenIs ==
  ASSUME NEW gs \in Seq(Group), NEW st, st # <<>>, NEW c \in 1..(Len(gs) + 1)
  PROVE  SeenOf(gs, st, c) = IdsOf(gs, 1..(c - 1))
<1>1. DOMAIN gs = 1..Len(gs) /\ Len(gs) \in Nat BY TableType
<1>2. {i \in DOMAIN gs : i < c} = 1..(c - 1) BY <1>1
<1> QED BY <1>2 DEF SeenOf

(* Between walks nothing runs and nothing has been seen.                   *)
LEMMA NoWalk ==
  ASSUME NEW gs, NEW c
  PROVE  OpenOf(gs, <<>>) = <<>> /\ SeenOf(gs, <<>>, c) = {}
<1>1. {e \in DOMAIN <<>> : <<>>[e].active} = {} OBVIOUS
<1> QED BY <1>1 DEF OpenOf, SeenOf

(* The empty table is the empty tree.                                      *)
LEMMA InitTree == Init => AbstractTree!Init
<1> SUFFICES ASSUME Init PROVE AbstractTree!Init OBVIOUS
<1>1. groups = <<>> /\ stack = <<>> /\ nextId = 1 BY DEF Init
<1>2. DOMAIN <<>> = {} OBVIOUS
<1>3. IdsOf(<<>>, {}) = {} BY DEF IdsOf
<1>4. UpOf(<<>>) = <<>> BY <1>2, <1>3 DEF UpOf
<1>5. LabelOf(<<>>) = <<>> BY <1>2, <1>3 DEF LabelOf
<1>6. DueOf(<<>>) = {} BY <1>2 DEF DueOf, IdsOf
<1>7. 1..(nextId - 1) = {} BY <1>1
<1> QED BY <1>1, <1>4, <1>5, <1>6, <1>7, NoWalk DEF AbstractTree!Init

(* A step that leaves the table and the walk alone is no step of the tree. *)
LEMMA StutterTree ==
  ASSUME UNCHANGED <<groups, nextId, stack, cursor>>
  PROVE  TreeStep
<1>1. UNCHANGED AbstractTree!treeVars BY DEF AbstractTree!treeVars
<1> QED BY <1>1 DEF TreeStep

(* An identity in the table is in bounds.                                  *)
LEMMA IdBound ==
  ASSUME Inv, Identified, NEW i \in DOMAIN groups
  PROVE  groups[i].id \in 1..MaxIds /\ groups[i].id \in DOMAIN UpOf(groups)
<1>1. groups[i].id \in IdsOf(groups, DOMAIN groups) BY DEF IdsOf
<1>2. nextId \in Nat \ {0} BY DEF Inv, TypeOK
<1>3. groups[i].id \in 1..(nextId - 1) BY <1>1 DEF Identified
<1>4. groups[i].id \in 1..MaxIds BY <1>2, <1>3, ConstantsAssumption DEF Identified
<1> QED BY <1>1, <1>4, MapDomains

(* Same identities, same parents, same keys: groups only become due.       *)
LEMMA MakeDueTree ==
  ASSUME Inv, Identified, stack = <<>>, stack' = <<>>, nextId' = nextId,
         SameGroups(groups, groups'),
         \A i \in DOMAIN groups : groups[i].inv => groups'[i].inv
  PROVE  TreeStep /\ Identified'
<1>1. /\ groups \in Seq(Group) /\ PreorderTree(groups) /\ Unique(groups)
      /\ IdsOf(groups, DOMAIN groups) \subseteq 1..(nextId - 1) /\ nextId <= MaxIds + 1
  BY AtRest DEF Identified
<1>2. Unique(groups') /\ UpOf(groups') = UpOf(groups) /\ LabelOf(groups') = LabelOf(groups)
  BY <1>1, SameTree
<1>3. DOMAIN groups' = DOMAIN groups /\ \A i \in DOMAIN groups : groups'[i].id = groups[i].id
  BY DEF SameGroups
<1>4. IdsOf(groups', DOMAIN groups') = IdsOf(groups, DOMAIN groups) BY <1>3 DEF IdsOf
<1>5. DueOf(groups) \subseteq DueOf(groups') BY <1>3 DEF DueOf, IdsOf
<1>6. DueOf(groups') \subseteq DOMAIN UpOf(groups)
  <2>1. DueOf(groups') \subseteq IdsOf(groups', DOMAIN groups') BY DEF DueOf, IdsOf
  <2> QED BY <2>1, <1>4, MapDomains
<1>7. AbstractTree!MakeDue
  <2>1. /\ OpenOf(groups, stack) = <<>> /\ OpenOf(groups', stack') = <<>>
        /\ SeenOf(groups, stack, cursor) = {} /\ SeenOf(groups', stack', cursor') = {}
    BY NoWalk
  <2> QED BY <2>1, <1>2, <1>5, <1>6 DEF AbstractTree!MakeDue, AbstractTree!live
<1>8. TreeStep BY <1>7 DEF TreeStep, AbstractTree!Next
<1> QED BY <1>1, <1>2, <1>4, <1>8 DEF Identified

(* Draining and reloading mark groups and leave the rest of them alone.    *)
Marks(gs, hs) ==
  /\ gs \in Seq(Group)
  /\ DOMAIN hs = DOMAIN gs
  /\ \A i \in DOMAIN gs : \E v, w \in BOOLEAN : hs[i] = Marked(gs[i], v, w)

(* Then only sizes and flags differ, and no group stops being due.         *)
LEMMA MarkedGroups ==
  ASSUME NEW gs, NEW hs, Marks(gs, hs)
  PROVE  SameGroups(gs, hs) /\ \A i \in DOMAIN gs : gs[i].inv => hs[i].inv
<1>1. ASSUME NEW i \in DOMAIN gs
      PROVE  /\ hs[i].id = gs[i].id /\ hs[i].key = gs[i].key
             /\ hs[i].parent = gs[i].parent
             /\ gs[i].inv => hs[i].inv
  <2>1. gs[i] \in Group BY TableType DEF Marks
  <2>2. PICK v, w \in BOOLEAN : hs[i] = Marked(gs[i], v, w) BY DEF Marks
  <2>3. hs[i].id = gs[i].id /\ hs[i].key = gs[i].key BY <2>1, <2>2, FieldsKept
  <2>4. hs[i].parent = gs[i].parent /\ hs[i].inv = (gs[i].inv \/ v)
    BY <2>1, <2>2, FieldsMarked
  <2> QED BY <2>3, <2>4
<1>2. DOMAIN hs = DOMAIN gs BY DEF Marks
<1>3. SameGroups(gs, hs) BY <1>1, <1>2 DEF SameGroups
<1>4. \A i \in DOMAIN gs : gs[i].inv => hs[i].inv BY <1>1
<1> QED BY <1>3, <1>4

(* CelsSessionHotReload makes groups due.                                  *)
LEMMA HotReloadTree == ASSUME Inv, Identified, HotReload PROVE TreeStep /\ Identified'
<1>1. stack = <<>> /\ stack' = <<>> /\ nextId' = nextId BY IdleRest DEF HotReload, walk
<1>2. groups \in Seq(Group) BY <1>1, AtRest
<1>3. groups' = [i \in DOMAIN groups |-> Marked(groups[i], TRUE, i > 1)]
  BY DEF HotReload, Reloaded
<1>4. /\ SameGroups(groups, groups')
      /\ \A i \in DOMAIN groups : groups[i].inv => groups'[i].inv
  <2>1. \A i \in DOMAIN groups : groups'[i] = Marked(groups[i], TRUE, i > 1) BY <1>3
  <2>2. ASSUME NEW i \in DOMAIN groups
        PROVE  \E v, w \in BOOLEAN : groups'[i] = Marked(groups[i], v, w)
    <3>1. groups'[i] = Marked(groups[i], TRUE, i > 1) BY <2>1
    <3>2. TRUE \in BOOLEAN /\ (i > 1) \in BOOLEAN OBVIOUS
    <3> QED BY <3>1, <3>2, Zenon
  <2>3. DOMAIN groups' = DOMAIN groups BY <1>3
  <2>4. Marks(groups, groups') BY <1>2, <2>2, <2>3 DEF Marks
  <2> QED BY <2>4, MarkedGroups
<1> QED BY <1>1, <1>4, MakeDueTree

(* So does the start of a drain iteration.                                 *)
LEMMA DrainTree ==
  ASSUME Inv, Identified, stack = <<>>, stack' = <<>>, nextId' = nextId,
         NEW Q, groups' = Drained(groups, Q)
  PROVE  TreeStep /\ Identified'
<1> DEFINE hit == {Least(WithKey(groups, k)) : k \in {x \in Q : WithKey(groups, x) # {}}}
           In(i) == \E t \in hit : t <= i /\ i <= t + groups[t].size
           Above(i) == \E t \in hit : t > 1 /\ i \in Climb(groups, groups[t].parent)
<1>1. groups \in Seq(Group) BY AtRest
<1>2. groups' = [i \in DOMAIN groups |-> Marked(groups[i], In(i), Above(i))] BY DEF Drained
<1>3. \A i \in DOMAIN groups : In(i) \in BOOLEAN /\ Above(i) \in BOOLEAN OBVIOUS
<1> HIDE DEF hit, In, Above
<1>4. /\ SameGroups(groups, groups')
      /\ \A i \in DOMAIN groups : groups[i].inv => groups'[i].inv
  <2>1. \A i \in DOMAIN groups : groups'[i] = Marked(groups[i], In(i), Above(i)) BY <1>2
  <2>2. \A i \in DOMAIN groups : \E v, w \in BOOLEAN : groups'[i] = Marked(groups[i], v, w)
    BY <1>3, <2>1
  <2>3. DOMAIN groups' = DOMAIN groups BY <1>2
  <2>4. Marks(groups, groups') BY <1>1, <2>2, <2>3 DEF Marks
  <2> QED BY <2>4, MarkedGroups
<1> QED BY <1>4, MakeDueTree

(* The first drain iteration.                                              *)
LEMMA RecomposeTree == ASSUME Inv, Identified, Recompose PROVE TreeStep /\ Identified'
<1>1. stack = <<>> BY IdleRest DEF Recompose
<1>2. /\ stack' = <<>> /\ nextId' = nextId
      /\ groups' = Drained(groups, queue \cup nextQueue)
  BY <1>1 DEF Recompose, BeginIteration
<1>3. PICK Q : Q = queue \cup nextQueue OBVIOUS
<1> QED BY <1>1, <1>2, <1>3, DrainTree

(* A further drain iteration.                                              *)
LEMMA NextIterationTree == ASSUME Inv, Identified, NextIteration PROVE TreeStep /\ Identified'
<1>1. /\ stack = <<>> /\ stack' = <<>> /\ nextId' = nextId
      /\ groups' = Drained(groups, queue)
  BY DEF NextIteration, BeginIteration, BetweenCompositions
<1>3. PICK Q : Q = queue OBVIOUS
<1> QED BY <1>1, <1>3, DrainTree

(* Pruning by key, between walks, tears a subtree down.                    *)
LEMMA PruneByKeyTree ==
  ASSUME Inv, Identified, stack = <<>>, stack' = <<>>, nextId' = nextId,
         NEW k, groups' = PruneByKey(groups, k)
  PROVE  TreeStep /\ Identified'
<1>1. /\ groups \in Seq(Group) /\ PreorderTree(groups) /\ Unique(groups)
      /\ DOMAIN groups = 1..Len(groups) /\ Len(groups) \in Nat
      /\ IdsOf(groups, DOMAIN groups) \subseteq 1..(nextId - 1) /\ nextId <= MaxIds + 1
  BY AtRest DEF Identified
<1>2. CASE WithKey(groups, k) = {}
  <2>1. groups' = groups BY <1>2 DEF PruneByKey
  <2>2. Identified' BY <2>1, <1>1 DEF Identified
  <2>3. UNCHANGED AbstractTree!treeVars
    <3>1. /\ OpenOf(groups, stack) = <<>> /\ OpenOf(groups', stack') = <<>>
          /\ SeenOf(groups, stack, cursor) = {} /\ SeenOf(groups', stack', cursor') = {}
      BY NoWalk
    <3> QED BY <3>1, <2>1 DEF AbstractTree!treeVars
  <2> QED BY <2>2, <2>3 DEF TreeStep
<1>3. CASE WithKey(groups, k) # {}
  <2>1. PICK r \in 1..Len(groups) : groups' = PruneSubtree(groups, r)
    <3>1. WithKey(groups, k) \subseteq Nat /\ WithKey(groups, k) \subseteq 1..Len(groups)
      BY <1>1 DEF WithKey
    <3>2. Least(WithKey(groups, k)) \in 1..Len(groups) BY <1>3, <3>1, LeastIs
    <3> QED BY <1>3, <3>2 DEF PruneByKey
  <2>2. PICK x : x = groups[r].id OBVIOUS
  <2>3. PICK X : X = IdsOf(groups, r..(r + groups[r].size)) OBVIOUS
  <2>4. PICK hs : hs = PruneSubtree(groups, r) OBVIOUS
  <2>5. /\ Unique(hs)
        /\ IdsOf(hs, DOMAIN hs) = IdsOf(groups, DOMAIN groups) \ X
        /\ UpOf(hs) = [z \in DOMAIN UpOf(groups) \ X |-> UpOf(groups)[z]]
        /\ LabelOf(hs) = [z \in DOMAIN LabelOf(groups) \ X |-> LabelOf(groups)[z]]
        /\ DueOf(hs) = DueOf(groups) \ X
    <3>1. Prunes(groups, r, hs, X) BY <1>1, <2>3, <2>4 DEF Prunes
    <3>2. PruneMaps(groups, hs, X) BY <3>1, PruneTree
    <3> QED BY <3>2 DEF PruneMaps
  <2>6. x \in 1..MaxIds /\ x \in DOMAIN UpOf(groups) BY <1>1, <2>2, IdBound
  <2>7. AbstractTree!Under(x) = X BY <1>1, <2>2, <2>3, UnderIs, UnderIsUnderOf
  <2>8. groups' = hs BY <2>1, <2>4
  <2>9. AbstractTree!TearDown(x)
    <3>1. /\ OpenOf(groups, stack) = <<>> /\ OpenOf(groups', stack') = <<>>
          /\ SeenOf(groups, stack, cursor) = {} /\ SeenOf(groups', stack', cursor') = {}
      BY NoWalk
    <3> QED BY <3>1, <2>5, <2>6, <2>7, <2>8
          DEF AbstractTree!TearDown, AbstractTree!live, AbstractTree!Unmounted, AbstractTree!Without
  <2>10. TreeStep BY <2>6, <2>9 DEF TreeStep, AbstractTree!Next
  <2>11. Identified' BY <1>1, <2>5, <2>8 DEF Identified
  <2> QED BY <2>10, <2>11
<1> QED BY <1>2, <1>3

(* An unloaded module has its composition torn down.                       *)
LEMMA HostPruneTree ==
  ASSUME Inv, Identified, NEW k \in RootKeys, HostPrune(k) PROVE TreeStep /\ Identified'
<1>1. stack = <<>> /\ stack' = <<>> /\ nextId' = nextId BY IdleRest DEF HostPrune, walk
<1>2. groups' = PruneByKey(groups, k) BY DEF HostPrune
<1> QED BY <1>1, <1>2, PruneByKeyTree

(* So has a composition whose lifecycle is over.                           *)
LEMMA EndCompositionTree ==
  ASSUME Inv, Identified, EndComposition PROVE TreeStep /\ Identified'
<1>1. /\ stack = <<>> /\ stack' = <<>> /\ nextId' = nextId
      /\ groups' = PruneByKey(groups, attached[comp].key)
  BY DEF EndComposition, BetweenCompositions
<1>2. PICK k : k = attached[comp].key OBVIOUS
<1> QED BY <1>1, <1>2, PruneByKeyTree

(* CelsEnterComposition opens the root it kept, or mounts a new one.       *)
LEMMA EnterCompositionTree ==
  ASSUME Inv, Identified, EnterComposition PROVE TreeStep /\ Identified'
<1> DEFINE f == [idx |-> 1, active |-> TRUE, end |-> 0]
<1>1. stack = <<>> /\ cursor' = 2 /\ stack' = <<f>>
  BY DEF EnterComposition, BetweenCompositions
<1>2. PICK k \in Keys : k = attached[comp].key
  <2> DEFINE T == [key : RootKeys, on : BOOLEAN]
  <2>1. attached \in Seq(T) /\ comp \in DOMAIN attached BY DEF EnterComposition, Inv, TypeOK
  <2> HIDE DEF T
  <2>2. attached[comp] \in T BY <2>1, LenProperties, ElementOfSeq
  <2>3. attached[comp].key \in RootKeys BY <2>2 DEF T
  <2> QED BY <2>3, ConstantsAssumption
<1>3. /\ groups \in Seq(Group) /\ Len(groups) \in Nat /\ PreorderTree(groups)
      /\ DOMAIN groups = 1..Len(groups) /\ Unique(groups)
      /\ IdsOf(groups, DOMAIN groups) \subseteq 1..(nextId - 1) /\ nextId <= MaxIds + 1
      /\ nextId \in Nat \ {0}
  BY <1>1, AtRest DEF Identified, Inv, TypeOK
<1>4. \/ groups' = groups /\ groups # <<>> /\ nextId' = nextId
      \/ groups' = <<NewGroup(k, nextId, 1)>> /\ nextId' = nextId + 1 /\ nextId <= MaxIds
  <2>1. CASE groups = <<>> BY <2>1, <1>2 DEF EnterComposition
  <2>2. CASE groups # <<>> /\ groups[1].key = k BY <2>2, <1>2 DEF EnterComposition
  <2>3. CASE groups # <<>> /\ groups[1].key # k
    <3>1. Len(groups) >= 1 BY <2>3, <1>3, EmptySeq
    <3>2. PruneSubtree(groups, 1) = <<>> BY <3>1, <1>3, PruneRoot
    <3> QED BY <3>2, <2>3, <1>2 DEF EnterComposition
  <2> QED BY <2>1, <2>2, <2>3
<1>5. OpenOf(groups, stack) = <<>> /\ SeenOf(groups, stack, cursor) = {} BY <1>1, NoWalk
<1>6. OpenOf(groups', stack') = <<groups'[1].id>>
  <2>1. {e \in DOMAIN stack' : stack'[e].active} = {1} BY <1>1
  <2>2. OpenOf(groups', stack') = [d \in {1} |-> groups'[stack'[d].idx].id]
    BY <2>1 DEF OpenOf
  <2> QED BY <2>2, <1>1
<1>7. 1 \in DOMAIN groups' => SeenOf(groups', stack', cursor') = {groups'[1].id}
  <2>1. stack' # <<>> BY <1>1
  <2>2. \A i \in DOMAIN groups' : i \in Nat \ {0}
    <3>1. groups' \in Seq(Group) /\ DOMAIN groups' = 1..Len(groups')
      <4>1. Inv' BY EnterCompositionInv
      <4>2. groups' \in Seq(Group) BY <4>1 DEF Inv, TypeOK
      <4> QED BY <4>2, TableType
    <3> QED BY <3>1
  <2>3. 1 \in DOMAIN groups' => {i \in DOMAIN groups' : i < cursor'} = {1}
    BY <2>2, <1>1
  <2> QED BY <2>1, <2>3 DEF SeenOf, IdsOf
<1>8. CASE groups' = groups /\ groups # <<>> /\ nextId' = nextId
  <2>1. 1 \in DOMAIN groups
    <3>1. Len(groups) # 0 BY <1>3, <1>8, EmptySeq
    <3> QED BY <3>1, <1>3
  <2>2. PICK x : x = groups[1].id OBVIOUS
  <2>3. x \in 1..MaxIds /\ x \in DOMAIN UpOf(groups) BY <2>1, <2>2, IdBound
  <2>4. groups[1].parent = 1 BY <2>1, <1>3 DEF PreorderTree
  <2>5. UpOf(groups)[x] = x BY <2>1, <2>2, <2>4, <1>3, MapsAt
  <2>6. x \notin DueOf(groups)
    <3> DEFINE I == {i \in DOMAIN groups : i > 1 /\ groups[i].inv}
    <3>1. 1 \notin I /\ I \in SUBSET DOMAIN groups OBVIOUS
    <3> HIDE DEF I
    <3>2. groups[1].id \notin IdsOf(groups, I) BY <3>1, <2>1, <1>3, IdIn
    <3> QED BY <3>2, <2>2 DEF DueOf, I
  <2>7. AbstractTree!OpenRoot(x)
    BY <1>5, <1>6, <1>7, <1>8, <2>1, <2>2, <2>3, <2>5, <2>6
    DEF AbstractTree!OpenRoot, AbstractTree!live
  <2>8. TreeStep BY <2>3, <2>7 DEF TreeStep, AbstractTree!Next
  <2>9. Identified' BY <1>3, <1>8 DEF Identified
  <2> QED BY <2>8, <2>9
<1>9. CASE groups' = <<NewGroup(k, nextId, 1)>> /\ nextId' = nextId + 1 /\ nextId <= MaxIds
  <2>1. DOMAIN groups' = {1} BY <1>9
  <2>2. groups'[1].id = nextId /\ groups'[1].key = k /\ groups'[1].parent = 1
        /\ ~groups'[1].inv
    BY <1>9 DEF NewGroup
  <2>3. Unique(groups') BY <2>1 DEF Unique
  <2>4. IdsOf(groups', DOMAIN groups') = {nextId} BY <2>1, <2>2 DEF IdsOf
  <2>5. UpOf(groups')[nextId] = nextId /\ LabelOf(groups')[nextId] = k
    <3>1. PICK i \in DOMAIN groups' : i = 1 BY <2>1
    <3>2. /\ UpOf(groups')[groups'[i].id] = groups'[groups'[i].parent].id
          /\ LabelOf(groups')[groups'[i].id] = groups'[i].key
      BY <2>3, MapsAt
    <3> QED BY <3>1, <3>2, <2>2
  <2>6. UpOf(groups') = [z \in {nextId} |-> nextId]
    <3>1. UpOf(groups') = [z \in {nextId} |-> UpOf(groups')[z]] BY <2>4 DEF UpOf
    <3> QED BY <3>1, <2>5
  <2>7. LabelOf(groups') = [z \in {nextId} |-> k]
    <3>1. LabelOf(groups') = [z \in {nextId} |-> LabelOf(groups')[z]] BY <2>4 DEF LabelOf
    <3> QED BY <3>1, <2>5
  <2>8. DueOf(groups') = {} BY <2>1 DEF DueOf, IdsOf
  <2>9. nextId \notin 1..(nextId - 1) /\ 1..(nextId' - 1) = 1..(nextId - 1) \cup {nextId}
    BY <1>3, <1>9
  <2>10. nextId \in 1..MaxIds BY <1>3, <1>9, ConstantsAssumption
  <2>11. AbstractTree!MountRoot(nextId, k)
    <3>1. DOMAIN <<>> \cup {nextId} = {nextId} OBVIOUS
    <3>2. AbstractTree!ExtendWith(<<>>, nextId, nextId) = [z \in {nextId} |-> nextId]
      BY <3>1 DEF AbstractTree!ExtendWith
    <3>3. AbstractTree!ExtendWith(<<>>, nextId, k) = [z \in {nextId} |-> k]
      BY <3>1 DEF AbstractTree!ExtendWith
    <3> QED BY <3>2, <3>3, <1>5, <1>6, <1>7, <2>1, <2>2, <2>6, <2>7, <2>8, <2>9
            DEF AbstractTree!MountRoot
  <2>12. TreeStep BY <2>10, <2>11 DEF TreeStep, AbstractTree!Next
  <2>13. Identified'
    <3>1. nextId' <= MaxIds + 1 BY <1>3, <1>9, ConstantsAssumption
    <3> QED BY <3>1, <2>3, <2>4, <2>9 DEF Identified
  <2> QED BY <2>12, <2>13
<1> QED BY <1>4, <1>8, <1>9

(* What the abstract tree sees of a running body.                          *)
LEMMA BodyTree ==
  ASSUME Inv, Identified, Running, Top.active
  PROVE  /\ OpenOf(groups, stack) \in Seq(Nat) /\ OpenOf(groups, stack) # <<>>
         /\ Len(OpenOf(groups, stack)) = Len(stack)
         /\ AbstractTree!Last(OpenOf(groups, stack)) = groups[Top.idx].id
         /\ SeenOf(groups, stack, cursor) = IdsOf(groups, 1..(cursor - 1))
         /\ cursor \in 2..(Len(groups) + 1)
<1>1. /\ groups \in Seq(Group) /\ Len(groups) \in Nat /\ PreorderTree(groups)
      /\ stack \in Seq(Frame) /\ stack # <<>> /\ Len(stack) \in Nat \ {0}
      /\ stack[Len(stack)] = Top /\ cursor \in Nat /\ OpenPath(groups, stack, cursor)
      /\ Top.idx \in 1..Len(groups) /\ AtBoundary(groups, Top.idx, cursor)
  BY BodyFacts
<1>2. PICK n : n = Innermost(stack) OBVIOUS
<1>3. n = Len(stack) BY <1>1, <1>2 DEF Innermost
<1>4. /\ OpenOf(groups, stack) \in Seq(Nat) /\ Len(OpenOf(groups, stack)) = n
      /\ \A d \in 1..n : OpenOf(groups, stack)[d] = groups[stack[d].idx].id
  BY <1>1, <1>2, OpenIs
<1>5. OpenOf(groups, stack) # <<>> BY <1>1, <1>3, <1>4, EmptySeq
<1>6. OpenOf(groups, stack)[n] = groups[Top.idx].id
  <2>1. n \in 1..n BY <1>1, <1>3
  <2> QED BY <2>1, <1>1, <1>3, <1>4
<1>7. cursor \in 2..(Len(groups) + 1)
  <2>1. PICK p \in 1..Len(groups) : p = Top.idx BY <1>1
  <2>2. AtBoundary(groups, p, cursor) BY <1>1, <2>1
  <2> QED BY <2>2, <1>1, BoundaryPlace
<1>8. SeenOf(groups, stack, cursor) = IdsOf(groups, 1..(cursor - 1))
  <2>1. cursor \in 1..(Len(groups) + 1) BY <1>1, <1>7
  <2> QED BY <2>1, <1>1, SeenIs
<1> QED BY <1>3, <1>4, <1>5, <1>6, <1>7, <1>8 DEF AbstractTree!Last

(* A child of the running body from the cursor on has not been visited.    *)
LEMMA NotVisited ==
  ASSUME Inv, Identified, Running, Top.active,
         NEW m \in 1..Len(groups), m >= cursor, groups[m].parent = Top.idx
  PROVE  AbstractTree!Unvisited(groups[m].id)
<1>1. groups \in Seq(Group) /\ DOMAIN groups = 1..Len(groups) /\ Unique(groups)
  BY BodyFacts DEF Identified
<1>2. /\ OpenOf(groups, stack) # <<>>
      /\ AbstractTree!Last(OpenOf(groups, stack)) = groups[Top.idx].id
      /\ SeenOf(groups, stack, cursor) = IdsOf(groups, 1..(cursor - 1))
      /\ cursor \in 2..(Len(groups) + 1)
  BY BodyTree
<1>3. groups[m].id \in DOMAIN UpOf(groups) /\ UpOf(groups)[groups[m].id] = groups[Top.idx].id
  BY <1>1, IdBound, MapsAt
<1>4. groups[m].id \notin IdsOf(groups, 1..(cursor - 1))
  <2>1. Len(groups) \in Nat BY <1>1, TableType
  <2>2. PICK I \in SUBSET DOMAIN groups : I = 1..(cursor - 1) BY <1>1, <1>2, <2>1
  <2>3. m \notin I BY <2>1, <2>2, <1>2
  <2>4. groups[m].id \notin IdsOf(groups, I) BY <2>3, <1>1, IdIn
  <2> QED BY <2>2, <2>4
<1> QED BY <1>2, <1>3, <1>4 DEF AbstractTree!Unvisited, AbstractTree!live

(* Each child the body did not visit is dropped with its subtree.          *)
LEMMA PruneUnvisitedTree ==
  ASSUME Inv, Identified, PruneUnvisited PROVE TreeStep /\ Identified'
<1>1. /\ Running /\ Top.active /\ cursor < ExpectedEnd /\ cursor <= Len(groups)
      /\ cursor' = cursor /\ nextId' = nextId
      /\ groups' = PruneSubtree(groups, cursor)
      /\ stack' = [stack EXCEPT ![Len(stack)].end = ExpectedEnd - (1 + groups[cursor].size)]
  BY DEF PruneUnvisited, MustPrune
<1>2. /\ groups \in Seq(Group) /\ Len(groups) \in Nat
      /\ DOMAIN groups = 1..Len(groups) /\ PreorderTree(groups)
      /\ stack \in Seq(Frame) /\ stack # <<>> /\ stack[Len(stack)] = Top
      /\ Len(stack) \in Nat \ {0}
      /\ cursor \in Nat /\ OpenPath(groups, stack, cursor)
      /\ Top.idx \in 1..Len(groups) /\ AtBoundary(groups, Top.idx, cursor)
  BY <1>1, BodyFacts
<1>3. /\ IdsOf(groups, DOMAIN groups) \subseteq 1..(nextId - 1) /\ nextId <= MaxIds + 1
      /\ Unique(groups)
  BY DEF Identified
<1>4. PICK p \in 1..Len(groups) : p = Top.idx BY <1>2
<1>5. /\ \A i \in 1..Len(groups) : groups[i].size \in Nat
      /\ \A i \in 1..Len(groups) : Siz(groups)[i] = groups[i].size /\ Par(groups)[i] = groups[i].parent
      /\ Arrays(Len(groups), Par(groups), Siz(groups)) /\ Tree(Len(groups), Par(groups), Siz(groups))
  BY <1>2, TableType, TableTree
<1>6. Place(Len(groups), Siz(groups), p, cursor) /\ cursor \in 2..(Len(groups) + 1)
  BY <1>2, <1>4, BoundaryPlace
<1>7. ExpectedEnd = p + 1 + groups[p].size BY <1>1, <1>4, TopEnd DEF ParentEnd
<1>8. cursor \in 2..Len(groups) /\ cursor <= p + Siz(groups)[p]
  BY <1>1, <1>2, <1>5, <1>6, <1>7
<1>9. groups[cursor].parent = p
  <2>1. SiblingFrom(Len(groups), Par(groups), Siz(groups), p, cursor, cursor)
    BY <1>2, <1>5, <1>6, <1>8, CursorIsSibling
  <2> QED BY <2>1, <1>5, <1>8 DEF SiblingFrom
<1>10. PICK x : x = groups[cursor].id OBVIOUS
<1>11. PICK X : X = IdsOf(groups, cursor..(cursor + groups[cursor].size)) OBVIOUS
<1>12. PICK hs : hs = PruneSubtree(groups, cursor) OBVIOUS
<1>13. /\ PruneMaps(groups, hs, X)
       /\ \A i \in 1..(cursor - 1) : i \in DOMAIN hs /\ hs[i].id = groups[i].id
  <2>1. Prunes(groups, cursor, hs, X) BY <1>2, <1>3, <1>8, <1>11, <1>12 DEF Prunes
  <2> QED BY <2>1, PruneTree
<1>14. groups' = hs BY <1>1, <1>12
<1>15. AbstractTree!Unvisited(x)
  <2>1. cursor \in 1..Len(groups) /\ cursor >= cursor BY <1>8
  <2> QED BY <2>1, <1>1, <1>4, <1>9, <1>10, NotVisited
<1>16. AbstractTree!Under(x) = X
  <2>1. cursor \in 1..Len(groups) BY <1>8
  <2> QED BY <2>1, <1>2, <1>3, <1>10, <1>11, UnderIs, UnderIsUnderOf
<1>17. OpenOf(groups', stack') = OpenOf(groups, stack)
  <2>1. PICK e : e = ExpectedEnd - (1 + groups[cursor].size) OBVIOUS
  <2>2. stack' = [stack EXCEPT ![Len(stack)].end = e] BY <1>1, <2>1
  <2>3. DOMAIN stack = 1..Len(stack) /\ \A d \in DOMAIN stack : stack[d] \in Frame
    BY <1>2, LenProperties, ElementOfSeq
  <2>4. ASSUME NEW d \in DOMAIN stack
        PROVE  stack'[d].active = stack[d].active /\ stack'[d].idx = stack[d].idx
    <3>1. stack[d] \in Frame BY <2>3
    <3>2. CASE d = Len(stack)
      <4>1. stack'[d] = [stack[d] EXCEPT !.end = e] BY <2>2, <3>2
      <4> QED BY <4>1, <3>1 DEF Frame
    <3>3. CASE d # Len(stack)
      <4>1. stack'[d] = stack[d] BY <2>2, <3>3
      <4> QED BY <4>1
    <3> QED BY <3>2, <3>3
  <2>5. DOMAIN stack' = DOMAIN stack BY <2>2
  <2>6. Actives(stack') = Actives(stack) BY <2>4, <2>5 DEF Actives
  <2>7. \A d \in Actives(stack) : stack'[d].idx = stack[d].idx BY <2>4 DEF Actives
  <2>8. StillOpen(groups, stack, cursor, groups', stack')
    BY <2>6, <2>7, <1>2, <1>13, <1>14 DEF StillOpen
  <2> QED BY <2>8, OpenSame
<1>18. SeenOf(groups', stack', cursor') = SeenOf(groups, stack, cursor)
  <2>1. Inv' BY PruneUnvisitedInv
  <2>2. groups' \in Seq(Group) BY <2>1 DEF Inv, TypeOK
  <2>3. stack' # <<>>
    <3>1. DOMAIN stack' = DOMAIN stack BY <1>1
    <3>2. DOMAIN stack = 1..Len(stack) BY <1>2, LenProperties
    <3> QED BY <3>1, <3>2, <1>2
  <2>4. cursor' \in 1..(Len(groups') + 1)
    <3>1. DOMAIN groups' = 1..Len(groups') /\ Len(groups') \in Nat BY <2>2, TableType
    <3>2. cursor - 1 \in 1..(cursor - 1) BY <1>8
    <3>3. cursor - 1 \in 1..Len(groups') BY <3>1, <3>2, <1>13, <1>14
    <3> QED BY <3>1, <3>3, <1>1, <1>8
  <2>5. SeenOf(groups', stack', cursor') = IdsOf(groups', 1..(cursor' - 1))
    BY <2>2, <2>3, <2>4, SeenIs
  <2>6. SeenOf(groups, stack, cursor) = IdsOf(groups, 1..(cursor - 1)) BY <1>1, BodyTree
  <2>7. \A i \in 1..(cursor - 1) : hs[i].id = groups[i].id BY <1>13
  <2>8. IdsOf(hs, 1..(cursor - 1)) = IdsOf(groups, 1..(cursor - 1)) BY <2>7, SameIds
  <2> QED BY <2>5, <2>6, <2>8, <1>1, <1>14
<1>19. AbstractTree!Drop(x)
  BY <1>1, <1>13, <1>14, <1>15, <1>16, <1>17, <1>18
  DEF AbstractTree!Drop, AbstractTree!Unmounted, AbstractTree!Without, PruneMaps
<1>20. TreeStep
  <2>1. x \in 1..MaxIds BY <1>2, <1>8, <1>10, IdBound
  <2> QED BY <2>1, <1>19 DEF TreeStep, AbstractTree!Next
<1>21. Identified' BY <1>1, <1>3, <1>13, <1>14 DEF Identified, PruneMaps
<1> QED BY <1>20, <1>21

(* CelsExitGroup returns from a group that ran: everything below it has    *)
(* been visited and is settled.                                            *)
LEMMA ExitGroupTree ==
  ASSUME Inv, Identified, ExitGroup PROVE TreeStep /\ Identified'
<1>1. /\ Running /\ ~MustPrune /\ groups' = groups /\ cursor' = cursor
      /\ nextId' = nextId /\ stack' = SubSeq(stack, 1, Len(stack) - 1)
  BY DEF ExitGroup, Running, tree
<1>2. /\ groups \in Seq(Group) /\ Len(groups) \in Nat
      /\ DOMAIN groups = 1..Len(groups) /\ PreorderTree(groups)
      /\ stack \in Seq(Frame) /\ stack # <<>> /\ stack[Len(stack)] = Top
      /\ cursor \in Nat /\ OpenPath(groups, stack, cursor)
      /\ \A i \in 1..Len(groups) : i > 1 /\ i < cursor => Clean(groups, i)
      /\ Top.active => Top.idx \in 1..Len(groups)
  BY <1>1, BodyFacts
<1>3. Unique(groups) BY DEF Identified
<1>4. Identified' BY <1>1 DEF Identified
<1>5. /\ ~Top.active => OpenOf(groups, stack') = OpenOf(groups, stack) /\ stack' # <<>>
      /\ Top.active =>
           /\ OpenOf(groups, stack') = SubSeq(OpenOf(groups, stack), 1, Len(OpenOf(groups, stack)) - 1)
           /\ Len(OpenOf(groups, stack)) = Len(stack)
           /\ stack' = <<>> <=> Len(stack) = 1
  <2>1. PICK u : u = SubSeq(stack, 1, Len(stack) - 1) OBVIOUS
  <2>2. /\ ~stack[Len(stack)].active => OpenOf(groups, u) = OpenOf(groups, stack) /\ u # <<>>
        /\ stack[Len(stack)].active =>
             /\ OpenOf(groups, u) = SubSeq(OpenOf(groups, stack), 1, Len(OpenOf(groups, stack)) - 1)
             /\ Len(OpenOf(groups, stack)) = Len(stack)
             /\ u = <<>> <=> Len(stack) = 1
    BY <2>1, <1>2, OpenPop
  <2> QED BY <2>1, <2>2, <1>1, <1>2
<1>6. CASE ~Top.active
  <2>1. SeenOf(groups', stack', cursor') = SeenOf(groups, stack, cursor)
    BY <1>1, <1>2, <1>5, <1>6 DEF SeenOf
  <2>2. UNCHANGED AbstractTree!treeVars BY <2>1, <1>1, <1>5, <1>6 DEF AbstractTree!treeVars
  <2> QED BY <2>2, <1>4 DEF TreeStep
<1>7. CASE Top.active
  <2>1. PICK p \in 1..Len(groups) : p = Top.idx BY <1>2, <1>7
  <2>2. cursor = p + 1 + groups[p].size
    <3>1. cursor >= ExpectedEnd \/ cursor > Len(groups) BY <1>1, <1>2, <1>7, TopEnd DEF MustPrune
    <3>2. cursor = ParentEnd BY <3>1, <1>1, <1>2, <1>7, TopEnd
    <3> QED BY <3>2, <2>1 DEF ParentEnd
  <2>3. groups[p].size \in Nat BY <1>2, TableType
  <2>4. /\ OpenOf(groups, stack) # <<>>
        /\ AbstractTree!Last(OpenOf(groups, stack)) = groups[p].id
        /\ SeenOf(groups, stack, cursor) = IdsOf(groups, 1..(cursor - 1))
    BY <1>1, <1>7, <2>1, BodyTree
  <2>5. ASSUME NEW y \in DOMAIN UpOf(groups), UpOf(groups)[y] = groups[p].id
        PROVE  y \in SeenOf(groups, stack, cursor)
    <3>0. y \in IdsOf(groups, DOMAIN groups) BY MapDomains
    <3>1. PICK j \in DOMAIN groups : y = groups[j].id BY <3>0 DEF IdsOf
    <3>2. j \in 1..Len(groups) /\ groups[j].parent \in DOMAIN groups BY <3>1, <1>2, ParentIn
    <3>3. groups[groups[j].parent].id = groups[p].id BY <3>1, <2>5, <1>3, MapsAt
    <3>4. groups[j].parent = p BY <3>2, <3>3, <1>2, <1>3 DEF Unique
    <3>5. j <= p + groups[p].size
      <4>1. CASE j = 1 BY <4>1, <2>3
      <4>2. CASE j # 1 BY <4>2, <3>2, <3>4, <1>2 DEF PreorderTree
      <4> QED BY <4>1, <4>2
    <3>6. j \in 1..(cursor - 1) BY <3>2, <3>5, <2>2, <2>3, <1>2
    <3> QED BY <3>1, <3>6, <2>4 DEF IdsOf
  <2>6. \A i \in AbstractTree!live : ~AbstractTree!Unvisited(i)
    BY <2>4, <2>5 DEF AbstractTree!live, AbstractTree!Unvisited
  <2>7. AbstractTree!Under(groups[p].id) \cap DueOf(groups) = {}
    <3>1. AbstractTree!Under(groups[p].id) = IdsOf(groups, p..(p + groups[p].size))
      BY <1>2, <1>3, UnderIs, UnderIsUnderOf
    <3>2. ASSUME NEW y \in IdsOf(groups, p..(p + groups[p].size)), y \in DueOf(groups)
          PROVE  FALSE
      <4>1. PICK i \in p..(p + groups[p].size) : y = groups[i].id BY DEF IdsOf
      <4>2. PICK j \in DOMAIN groups : j > 1 /\ groups[j].inv /\ y = groups[j].id
        BY <3>2 DEF DueOf, IdsOf
      <4>3. i \in 1..Len(groups)
        <5>1. p + groups[p].size <= Len(groups) BY <1>2 DEF PreorderTree
        <5> QED BY <5>1, <1>2, <2>3
      <4>4. i = j BY <4>1, <4>2, <4>3, <1>2, <1>3 DEF Unique
      <4>5. i < cursor BY <2>2, <2>3, <1>2
      <4> QED BY <4>2, <4>3, <4>4, <4>5, <1>2 DEF Clean
    <3> QED BY <3>1, <3>2
  <2>8. SeenOf(groups', stack', cursor') =
          IF Len(OpenOf(groups, stack)) = 1 THEN {} ELSE SeenOf(groups, stack, cursor)
    <3>1. CASE Len(stack) = 1
      <4>1. stack' = <<>> BY <3>1, <1>5, <1>7
      <4>2. SeenOf(groups', stack', cursor') = {} BY <4>1, NoWalk
      <4> QED BY <4>2, <3>1, <1>5, <1>7
    <3>2. CASE Len(stack) # 1
      <4>1. stack' # <<>> BY <3>2, <1>5, <1>7
      <4>2. SeenOf(groups', stack', cursor') = SeenOf(groups, stack, cursor)
        BY <4>1, <1>1, <1>2 DEF SeenOf
      <4> QED BY <4>2, <3>2, <1>5, <1>7
    <3> QED BY <3>1, <3>2
  <2>9. OpenOf(groups', stack') = SubSeq(OpenOf(groups, stack), 1, Len(OpenOf(groups, stack)) - 1)
    BY <1>1, <1>5, <1>7
  <2>10. AbstractTree!Close
    BY <2>4, <2>6, <2>7, <2>8, <2>9, <1>1 DEF AbstractTree!Close
  <2> QED BY <2>10, <1>4 DEF TreeStep, AbstractTree!Next
<1> QED BY <1>6, <1>7

(* An entry refused for depth or for a full table is no step of the tree.  *)
LEMMA NotEnteredTree ==
  ASSUME Inv, Identified, NEW k, EnterTooDeep \/ EnterFull(k)
  PROVE  TreeStep /\ Identified'
<1>1. Running /\ Top.active /\ UNCHANGED <<cursor, groups, nextId>>
  BY DEF EnterTooDeep, EnterFull, InBody, tree
<1>2. stack' = Append(stack, [idx |-> 0, active |-> FALSE, end |-> 0])
  BY DEF EnterTooDeep, EnterFull, Push
<1>3. /\ groups \in Seq(Group) /\ stack \in Seq(Frame) /\ stack # <<>>
      /\ stack[Len(stack)] = Top /\ cursor \in Nat /\ OpenPath(groups, stack, cursor)
  BY <1>1, BodyFacts
<1>4. OpenOf(groups', stack') = OpenOf(groups, stack)
  <2>1. PICK x : x = 0 OBVIOUS
  <2>2. PICK on \in BOOLEAN : on = FALSE OBVIOUS
  <2>3. PICK u : u = Append(stack, [idx |-> x, active |-> on, end |-> 0]) OBVIOUS
  <2>4. Pushes(groups, stack, cursor, groups, x, on, u)
    BY <2>3, <1>1, <1>3 DEF Pushes
  <2>5. OpenOf(groups, u) = OpenOf(groups, stack) BY <2>2, <2>4, OpenPush DEF Pushed
  <2>6. stack' = u BY <2>1, <2>2, <2>3, <1>2
  <2> QED BY <2>5, <2>6, <1>1
<1>5. stack' # <<>> BY <1>2, <1>3
<1>6. SeenOf(groups', stack', cursor') = SeenOf(groups, stack, cursor)
  BY <1>1, <1>3, <1>5 DEF SeenOf
<1>7. UNCHANGED AbstractTree!treeVars BY <1>1, <1>4, <1>6 DEF AbstractTree!treeVars
<1>8. Identified' BY <1>1 DEF Identified
<1> QED BY <1>7, <1>8 DEF TreeStep

(* Bringing the key's group to the cursor moves nothing in the tree.       *)
LEMMA EnterTree ==
  ASSUME Inv, Identified, InBody, NEW k, Matches(k) # {}, NEW hs, hs = Relocated(k)
  PROVE  /\ Unique(hs) /\ UpOf(hs) = UpOf(groups) /\ LabelOf(hs) = LabelOf(groups)
         /\ DueOf(hs) = DueOf(groups)
         /\ hs[cursor].id \in 1..MaxIds /\ AbstractTree!Unvisited(hs[cursor].id)
         /\ hs \in Seq(Group) /\ PreorderTree(hs) /\ cursor \in 2..Len(hs)
         /\ \A i \in 1..(cursor - 1) : hs[i] = groups[i]
<1>1. Running /\ Top.active BY DEF InBody
<1>2. /\ groups \in Seq(Group) /\ Len(groups) \in Nat /\ PreorderTree(groups)
      /\ cursor \in Nat /\ DOMAIN groups = 1..Len(groups)
      /\ Top.idx \in 1..Len(groups) /\ AtBoundary(groups, Top.idx, cursor)
  BY <1>1, BodyFacts
<1>3. PICK p \in 1..Len(groups) : p = Top.idx BY <1>2
<1>4. Matches(k) \subseteq Siblings(groups, cursor, p + 1 + groups[p].size)
  BY <1>3 DEF Matches, ParentEnd
<1>5. Matches(k) \subseteq Nat
  <2>1. groups[p].size \in Nat BY <1>2, TableType
  <2> QED BY <1>4, <1>2, <2>1 DEF Siblings
<1>6. Least(Matches(k)) \in Matches(k) BY <1>5, LeastIs
<1>7. PICK m \in Siblings(groups, cursor, p + 1 + groups[p].size) : m = Least(Matches(k))
  BY <1>4, <1>6
<1>8. hs = IF m = cursor THEN groups ELSE MoveSubtree(groups, m, cursor)
  BY <1>7 DEF Relocated
<1>9. PICK c : c = cursor OBVIOUS
<1>10. Fetches(groups, p, c, m, hs)
  BY <1>2, <1>3, <1>7, <1>8, <1>9 DEF Fetches
<1>11. /\ Unique(hs) /\ UpOf(hs) = UpOf(groups) /\ LabelOf(hs) = LabelOf(groups)
       /\ DueOf(hs) = DueOf(groups)
       /\ m \in c..Len(groups) /\ groups[m].parent = p /\ hs[c].id = groups[m].id
  BY <1>10, RelocateTree DEF Identified
<1>12. m \in 1..Len(groups) /\ m >= cursor
  <2>1. cursor \in 2..(Len(groups) + 1) BY <1>1, BodyTree
  <2> QED BY <2>1, <1>2, <1>9, <1>11
<1>13. groups[m].id \in 1..MaxIds BY <1>2, <1>12, IdBound
<1>14. AbstractTree!Unvisited(groups[m].id) BY <1>1, <1>3, <1>11, <1>12, NotVisited
<1>15. /\ hs \in Seq(Group) /\ PreorderTree(hs) /\ cursor \in 2..Len(hs)
       /\ \A i \in 1..(cursor - 1) : hs[i] = groups[i]
  BY EnterFacts
<1> QED BY <1>9, <1>11, <1>13, <1>14, <1>15

(* A clean group is passed over with its subtree.                          *)
LEMMA EnterCleanTree ==
  ASSUME Inv, Identified, NEW k \in Keys, EnterClean(k) PROVE TreeStep /\ Identified'
<1>1. /\ InBody /\ Running /\ Top.active /\ Push(cursor, FALSE) /\ nextId' = nextId
      /\ Matches(k) # {} /\ groups' = Relocated(k)
      /\ Clean(groups', cursor) /\ cursor' = cursor + 1 + groups'[cursor].size
  BY DEF EnterClean, InBody, Clean, PastSubtree
<1>2. PICK hs : hs = Relocated(k) OBVIOUS
<1>3. /\ Unique(hs) /\ UpOf(hs) = UpOf(groups) /\ LabelOf(hs) = LabelOf(groups)
      /\ DueOf(hs) = DueOf(groups)
      /\ hs[cursor].id \in 1..MaxIds /\ AbstractTree!Unvisited(hs[cursor].id)
      /\ hs \in Seq(Group) /\ PreorderTree(hs) /\ cursor \in 2..Len(hs)
      /\ \A i \in 1..(cursor - 1) : hs[i] = groups[i]
  BY <1>1, <1>2, EnterTree
<1>4. groups' = hs BY <1>1, <1>2
<1>5. Identified'
  <2>1. IdsOf(hs, DOMAIN hs) = IdsOf(groups, DOMAIN groups) BY <1>3, MapDomains
  <2> QED BY <2>1, <1>1, <1>3, <1>4 DEF Identified
<1>6. /\ DOMAIN hs = 1..Len(hs) /\ Len(hs) \in Nat
      /\ hs[cursor].size \in Nat /\ cursor + hs[cursor].size <= Len(hs)
  BY <1>3, TableType DEF PreorderTree
<1>7. PICK u \in Nat : u = hs[cursor].size BY <1>6
<1>8. AbstractTree!Under(hs[cursor].id) = IdsOf(hs, cursor..(cursor + u))
  <2>1. cursor \in 1..Len(hs) BY <1>3
  <2>2. UnderOf(UpOf(hs), hs[cursor].id) = IdsOf(hs, cursor..(cursor + hs[cursor].size))
    BY <2>1, <1>3, UnderIs
  <2> QED BY <2>2, <1>3, <1>7, UnderIsUnderOf
<1>9. /\ groups \in Seq(Group) /\ stack \in Seq(Frame) /\ stack # <<>>
      /\ stack[Len(stack)] = Top /\ cursor \in Nat /\ OpenPath(groups, stack, cursor)
      /\ \A x \in RunningIn(stack) : x < cursor
  BY <1>1, BodyFacts
<1>10. AbstractTree!Under(hs[cursor].id) \cap DueOf(groups) = {}
  <2>1. SkipSafe(hs, RunningIn(stack)) BY <1>1, <1>2, EnterFacts
  <2>2. ASSUME NEW i \in cursor..(cursor + u) PROVE i \in DOMAIN hs /\ ~hs[i].inv
    <3>1. i \in DOMAIN hs /\ cursor \in DOMAIN hs BY <1>3, <1>6, <1>7
    <3>2. CASE i = cursor BY <3>1, <3>2, <1>1, <1>4 DEF Clean
    <3>3. CASE i # cursor
      <4>1. cursor < i /\ i <= cursor + hs[cursor].size /\ cursor > 1 BY <3>3, <1>3, <1>7
      <4>2. cursor \notin RunningIn(stack) BY <1>9
      <4>3. Clean(hs, i) BY <3>1, <4>1, <4>2, <2>1, <1>1, <1>4 DEF SkipSafe
      <4> QED BY <3>1, <4>3 DEF Clean
    <3> QED BY <3>2, <3>3
  <2>3. ASSUME NEW y \in IdsOf(hs, cursor..(cursor + u)), y \in DueOf(hs) PROVE FALSE
    <3>1. PICK i \in cursor..(cursor + u) : y = hs[i].id BY DEF IdsOf
    <3>2. PICK j \in DOMAIN hs : hs[j].inv /\ y = hs[j].id BY <2>3 DEF DueOf, IdsOf
    <3>3. i \in DOMAIN hs /\ ~hs[i].inv BY <2>2
    <3>4. i = j BY <3>1, <3>2, <3>3, <1>3 DEF Unique
    <3> QED BY <3>2, <3>3, <3>4
  <2> QED BY <2>3, <1>3, <1>8
<1>11. stack' = Append(stack, [idx |-> cursor, active |-> FALSE, end |-> 0])
  BY <1>1 DEF Push
<1>12. OpenOf(groups', stack') = OpenOf(groups, stack)
  <2>1. PICK x : x = cursor OBVIOUS
  <2>2. PICK on \in BOOLEAN : on = FALSE OBVIOUS
  <2>3. PICK v : v = Append(stack, [idx |-> x, active |-> on, end |-> 0]) OBVIOUS
  <2>4. Pushes(groups, stack, cursor, hs, x, on, v)
    BY <2>3, <1>1, <1>3, <1>9 DEF Pushes
  <2>5. OpenOf(hs, v) = OpenOf(groups, stack) BY <2>2, <2>4, OpenPush DEF Pushed
  <2>6. stack' = v BY <2>1, <2>2, <2>3, <1>11
  <2> QED BY <2>5, <2>6, <1>4
<1>13. SeenOf(groups', stack', cursor') =
         SeenOf(groups, stack, cursor) \cup AbstractTree!Under(hs[cursor].id)
  <2>1. stack' # <<>> BY <1>9, <1>11
  <2>2. cursor' = cursor + 1 + u BY <1>1, <1>4, <1>7
  <2>3. cursor' \in 1..(Len(hs) + 1) BY <2>2, <1>3, <1>6, <1>7
  <2>4. SeenOf(groups', stack', cursor') = IdsOf(hs, 1..(cursor' - 1))
    BY <2>1, <2>3, <1>3, <1>4, SeenIs
  <2>5. SeenOf(groups, stack, cursor) = IdsOf(groups, 1..(cursor - 1)) BY <1>1, BodyTree
  <2>6. \A i \in 1..(cursor - 1) : hs[i].id = groups[i].id BY <1>3
  <2>7. IdsOf(hs, 1..(cursor - 1)) = IdsOf(groups, 1..(cursor - 1)) BY <2>6, SameIds
  <2>8. 1..(cursor' - 1) = 1..(cursor - 1) \cup cursor..(cursor + u)
    <3>1. cursor \in 1..Len(hs) BY <1>3
    <3>2. PICK x \in Nat : x = cursor /\ x >= 1 BY <3>1, <1>6
    <3>3. cursor' - 1 = x + u BY <2>2, <3>2, <1>7
    <3>4. 1..(x + u) = 1..(x - 1) \cup x..(x + u) BY <3>2, <1>7
    <3> QED BY <3>2, <3>3, <3>4
  <2>9. IdsOf(hs, 1..(cursor' - 1)) =
          IdsOf(hs, 1..(cursor - 1)) \cup IdsOf(hs, cursor..(cursor + u))
    BY <2>8 DEF IdsOf
  <2> QED BY <2>4, <2>5, <2>7, <2>9, <1>8
<1>14. AbstractTree!PassOver(hs[cursor].id)
  BY <1>1, <1>3, <1>4, <1>10, <1>12, <1>13 DEF AbstractTree!PassOver
<1>15. TreeStep BY <1>3, <1>14 DEF TreeStep, AbstractTree!Next
<1> QED BY <1>5, <1>15

(* A dirty group runs again, and is no longer due.                         *)
LEMMA EnterDirtyTree ==
  ASSUME Inv, Identified, NEW k \in Keys, EnterDirty(k) PROVE TreeStep /\ Identified'
<1>1. /\ InBody /\ Running /\ Top.active /\ Push(cursor, TRUE) /\ nextId' = nextId
      /\ Matches(k) # {} /\ cursor' = cursor + 1
  BY DEF EnterDirty, InBody
<1>2. PICK hs : hs = Relocated(k) /\ groups' = [hs EXCEPT ![cursor] = Settled(hs[cursor])]
  BY DEF EnterDirty
<1>3. /\ Unique(hs) /\ UpOf(hs) = UpOf(groups) /\ LabelOf(hs) = LabelOf(groups)
      /\ DueOf(hs) = DueOf(groups)
      /\ hs[cursor].id \in 1..MaxIds /\ AbstractTree!Unvisited(hs[cursor].id)
      /\ hs \in Seq(Group) /\ PreorderTree(hs) /\ cursor \in 2..Len(hs)
      /\ \A i \in 1..(cursor - 1) : hs[i] = groups[i]
  BY <1>1, <1>2, EnterTree
<1>4. DOMAIN hs = 1..Len(hs) /\ Len(hs) \in Nat /\ cursor \in DOMAIN hs /\ hs[cursor] \in Group
  BY <1>3, TableType
<1>5. PICK ts : ts = groups' OBVIOUS
<1>6. /\ DOMAIN ts = DOMAIN hs
      /\ \A i \in DOMAIN hs : ts[i] = IF i = cursor THEN Settled(hs[cursor]) ELSE hs[i]
  BY <1>2, <1>4, <1>5
<1>7. /\ Settled(hs[cursor]).id = hs[cursor].id /\ Settled(hs[cursor]).key = hs[cursor].key
      /\ Settled(hs[cursor]).parent = hs[cursor].parent /\ ~Settled(hs[cursor]).inv
  BY <1>4, FieldsKept, FieldsSettled
<1>8. SameGroups(hs, ts) BY <1>6, <1>7 DEF SameGroups
<1>9. Unique(ts) /\ UpOf(ts) = UpOf(hs) /\ LabelOf(ts) = LabelOf(hs) BY <1>3, <1>8, SameTree
<1>10. DueOf(ts) = DueOf(hs) \ {hs[cursor].id}
  <2>1. \A i \in DOMAIN hs : ts[i].id = hs[i].id BY <1>6, <1>7
  <2>2. \A i \in DOMAIN hs : ts[i].inv <=> hs[i].inv /\ i # cursor BY <1>6, <1>7
  <2>3. ASSUME NEW y \in DueOf(ts) PROVE y \in DueOf(hs) \ {hs[cursor].id}
    <3>1. PICK i \in DOMAIN ts : i > 1 /\ ts[i].inv /\ y = ts[i].id BY DEF DueOf, IdsOf
    <3>2. i \in DOMAIN hs /\ hs[i].inv /\ i # cursor /\ y = hs[i].id
      BY <3>1, <2>1, <2>2, <1>6
    <3>3. y # hs[cursor].id BY <3>2, <1>3, <1>4 DEF Unique
    <3> QED BY <3>1, <3>2, <3>3 DEF DueOf, IdsOf
  <2>4. ASSUME NEW y \in DueOf(hs) \ {hs[cursor].id} PROVE y \in DueOf(ts)
    <3>1. PICK i \in DOMAIN hs : i > 1 /\ hs[i].inv /\ y = hs[i].id BY DEF DueOf, IdsOf
    <3>2. i \in DOMAIN ts /\ ts[i].inv /\ y = ts[i].id BY <3>1, <2>1, <2>2, <2>4, <1>6
    <3> QED BY <3>1, <3>2 DEF DueOf, IdsOf
  <2> QED BY <2>3, <2>4
<1>11. Identified'
  <2>1. IdsOf(ts, DOMAIN ts) = IdsOf(groups, DOMAIN groups) BY <1>3, <1>9, MapDomains
  <2> QED BY <2>1, <1>1, <1>5, <1>9 DEF Identified
<1>12. /\ groups \in Seq(Group) /\ stack \in Seq(Frame) /\ stack # <<>>
       /\ stack[Len(stack)] = Top /\ cursor \in Nat /\ OpenPath(groups, stack, cursor)
  BY <1>1, BodyFacts
<1>13. stack' = Append(stack, [idx |-> cursor, active |-> TRUE, end |-> 0])
  BY <1>1 DEF Push
<1>14. \A i \in 1..(cursor - 1) : ts[i].id = groups[i].id
  <2>1. \A i \in 1..(cursor - 1) : i \in DOMAIN hs /\ i # cursor BY <1>3, <1>4
  <2> QED BY <2>1, <1>3, <1>6
<1>15. ts[cursor].id = hs[cursor].id BY <1>4, <1>6, <1>7
<1>16. OpenOf(ts, stack') = Append(OpenOf(groups, stack), hs[cursor].id)
  <2>1. PICK x : x = cursor OBVIOUS
  <2>2. PICK on \in BOOLEAN : on = TRUE OBVIOUS
  <2>3. PICK v : v = Append(stack, [idx |-> x, active |-> on, end |-> 0]) OBVIOUS
  <2>4. Pushes(groups, stack, cursor, ts, x, on, v)
    BY <2>3, <1>1, <1>12, <1>14 DEF Pushes
  <2>a. on BY <2>2
  <2>b. Pushed(groups, stack, ts, x, on, v) BY <2>4, OpenPush
  <2>5. OpenOf(ts, v) = Append(OpenOf(groups, stack), ts[x].id) BY <2>a, <2>b DEF Pushed
  <2>6. stack' = v BY <2>1, <2>2, <2>3, <1>13
  <2> QED BY <2>1, <2>5, <2>6, <1>15
<1>17. SeenOf(ts, stack', cursor') = SeenOf(groups, stack, cursor) \cup {hs[cursor].id}
  <2>1. stack' # <<>> BY <1>12, <1>13
  <2>2. ts \in Seq(Group) /\ cursor' \in 1..(Len(ts) + 1)
    <3>1. Inv' BY EnterDirtyInv
    <3>2. ts \in Seq(Group) BY <3>1, <1>5 DEF Inv, TypeOK
    <3>3. DOMAIN ts = 1..Len(ts) /\ Len(ts) \in Nat BY <3>2, TableType
    <3>4. cursor \in 1..Len(ts) BY <3>3, <1>4, <1>6
    <3> QED BY <3>2, <3>3, <3>4, <1>1
  <2>4. SeenOf(ts, stack', cursor') = IdsOf(ts, 1..(cursor' - 1)) BY <2>1, <2>2, SeenIs
  <2>5. SeenOf(groups, stack, cursor) = IdsOf(groups, 1..(cursor - 1)) BY <1>1, BodyTree
  <2>6. IdsOf(ts, 1..(cursor - 1)) = IdsOf(groups, 1..(cursor - 1)) BY <1>14, SameIds
  <2>7. 1..(cursor' - 1) = 1..(cursor - 1) \cup {cursor} BY <1>1, <1>3
  <2>8. IdsOf(ts, 1..(cursor' - 1)) = IdsOf(ts, 1..(cursor - 1)) \cup {ts[cursor].id}
    BY <2>7 DEF IdsOf
  <2> QED BY <2>4, <2>5, <2>6, <2>8, <1>15
<1>18. AbstractTree!Rerun(hs[cursor].id)
  BY <1>1, <1>3, <1>5, <1>9, <1>10, <1>16, <1>17 DEF AbstractTree!Rerun
<1>19. TreeStep BY <1>3, <1>18 DEF TreeStep, AbstractTree!Next
<1> QED BY <1>11, <1>19

(* A new key mounts a group below the running one.                         *)
LEMMA EnterNewTree ==
  ASSUME Inv, Identified, NEW k \in Keys, EnterNew(k) PROVE TreeStep /\ Identified'
<1>1. /\ Running /\ Top.active /\ Push(cursor, TRUE) /\ nextId <= MaxIds
      /\ nextId' = nextId + 1 /\ cursor' = cursor + 1
      /\ groups' = InsertGroup(groups, cursor, Top.idx, k, nextId)
  BY DEF EnterNew, InBody
<1>2. /\ groups \in Seq(Group) /\ Len(groups) \in Nat /\ PreorderTree(groups)
      /\ DOMAIN groups = 1..Len(groups)
      /\ stack \in Seq(Frame) /\ stack # <<>> /\ stack[Len(stack)] = Top
      /\ cursor \in Nat /\ OpenPath(groups, stack, cursor)
      /\ Top.idx \in 1..Len(groups) /\ AtBoundary(groups, Top.idx, cursor)
  BY <1>1, BodyFacts
<1>3. /\ nextId \in Nat \ {0} /\ nextId \in 1..MaxIds /\ Unique(groups)
      /\ IdsOf(groups, DOMAIN groups) \subseteq 1..(nextId - 1)
  BY <1>1, ConstantsAssumption DEF Inv, TypeOK, Identified
<1>4. PICK p \in 1..Len(groups) : p = Top.idx BY <1>2
<1>5. PICK x : x = nextId OBVIOUS
<1>6. PICK hs : hs = InsertGroup(groups, cursor, p, k, x) OBVIOUS
<1>7. /\ x \in Nat /\ x \notin 1..(nextId - 1) /\ 1..(nextId' - 1) = 1..(nextId - 1) \cup {x}
  BY <1>1, <1>3, <1>5
<1>8. PICK c : c = cursor OBVIOUS
<1>9. InsertMaps(groups, p, c, k, x, hs)
  <2>1. Place(Len(groups), Siz(groups), p, cursor) BY <1>2, <1>4, BoundaryPlace
  <2>2. x \notin IdsOf(groups, DOMAIN groups) BY <1>3, <1>7
  <2>3. Inserts(groups, p, c, k, x, hs)
    BY <2>1, <2>2, <1>2, <1>3, <1>6, <1>7, <1>8 DEF Inserts
  <2> QED BY <2>3, InsertTreeMaps
<1>10. groups' = hs BY <1>1, <1>4, <1>5, <1>6
<1>11. /\ hs[cursor].id = x
       /\ \A i \in 1..(cursor - 1) : hs[i].id = groups[i].id
       /\ Unique(hs) /\ IdsOf(hs, DOMAIN hs) = IdsOf(groups, DOMAIN groups) \cup {x}
  BY <1>8, <1>9 DEF InsertMaps
<1>12. stack' = Append(stack, [idx |-> cursor, active |-> TRUE, end |-> 0])
  BY <1>1 DEF Push
<1>13. OpenOf(hs, stack') = Append(OpenOf(groups, stack), x)
  <2>1. PICK on \in BOOLEAN : on = TRUE OBVIOUS
  <2>2. PICK v : v = Append(stack, [idx |-> c, active |-> on, end |-> 0]) OBVIOUS
  <2>3. Pushes(groups, stack, cursor, hs, c, on, v)
    BY <2>2, <1>1, <1>2, <1>11 DEF Pushes
  <2>a. on BY <2>1
  <2>b. Pushed(groups, stack, hs, c, on, v) BY <2>3, OpenPush
  <2>4. OpenOf(hs, v) = Append(OpenOf(groups, stack), hs[c].id) BY <2>a, <2>b DEF Pushed
  <2>5. stack' = v BY <2>1, <2>2, <1>8, <1>12
  <2> QED BY <2>4, <2>5, <1>8, <1>11
<1>14. SeenOf(hs, stack', cursor') = SeenOf(groups, stack, cursor) \cup {x}
  <2>1. stack' # <<>> BY <1>2, <1>12
  <2>2. hs \in Seq(Group) /\ cursor' \in 1..(Len(hs) + 1)
    <3>1. Inv' BY EnterNewInv
    <3>2. hs \in Seq(Group) BY <3>1, <1>10 DEF Inv, TypeOK
    <3>3. Len(hs) \in Nat BY <3>2, TableType
    <3>4. OpenPath(hs, stack', cursor') /\ cursor' \in Nat
      BY <3>1, <2>1, <1>10 DEF Inv, WalkOK, TypeOK
    <3>5. cursor' <= Len(hs) + 1
      <4>1. Len(stack') = Len(stack) + 1 /\ Len(stack) \in Nat
            /\ stack'[Len(stack')] = [idx |-> cursor, active |-> TRUE, end |-> 0]
        BY <1>2, <1>12
      <4>2. stack'[Len(stack')].active /\ Len(stack') \in 1..Len(stack') BY <4>1
      <4>3. cursor \in 1..Len(hs)
        <5>1. stack'[Len(stack')].idx = cursor BY <4>1
        <5> QED BY <3>4, <4>2, <5>1 DEF OpenPath
      <4> QED BY <4>3, <3>3, <1>1
    <3> QED BY <3>2, <3>3, <3>4, <3>5, <1>1, <1>2
  <2>4. SeenOf(hs, stack', cursor') = IdsOf(hs, 1..(cursor' - 1)) BY <2>1, <2>2, SeenIs
  <2>5. /\ SeenOf(groups, stack, cursor) = IdsOf(groups, 1..(cursor - 1))
        /\ cursor \in 2..(Len(groups) + 1)
    BY <1>1, BodyTree
  <2>6. IdsOf(hs, 1..(cursor - 1)) = IdsOf(groups, 1..(cursor - 1)) BY <1>11, SameIds
  <2>7. 1..(cursor' - 1) = 1..(cursor - 1) \cup {cursor} BY <2>5, <1>1
  <2>8. IdsOf(hs, 1..(cursor' - 1)) = IdsOf(hs, 1..(cursor - 1)) \cup {hs[cursor].id}
    BY <2>7 DEF IdsOf
  <2> QED BY <2>4, <2>5, <2>6, <2>8, <1>11
<1>15. AbstractTree!Mount(x, k)
  <2>1. /\ OpenOf(groups, stack) # <<>>
        /\ AbstractTree!Last(OpenOf(groups, stack)) = groups[p].id
    BY <1>1, <1>4, BodyTree
  <2>2. UpOf(hs) = AbstractTree!ExtendWith(UpOf(groups), x, groups[p].id)
    BY <1>9 DEF InsertMaps, AbstractTree!ExtendWith
  <2>3. LabelOf(hs) = AbstractTree!ExtendWith(LabelOf(groups), x, k)
    BY <1>9 DEF InsertMaps, AbstractTree!ExtendWith
  <2>4. DueOf(hs) = DueOf(groups) BY <1>9 DEF InsertMaps
  <2> QED BY <2>1, <2>2, <2>3, <2>4, <1>7, <1>10, <1>13, <1>14 DEF AbstractTree!Mount
<1>16. TreeStep
  <2>1. x \in 1..MaxIds BY <1>3, <1>5
  <2> QED BY <2>1, <1>15 DEF TreeStep, AbstractTree!Next
<1>17. Identified'
  <2>1. nextId' <= MaxIds + 1 BY <1>1, <1>3, ConstantsAssumption
  <2> QED BY <2>1, <1>3, <1>7, <1>10, <1>11 DEF Identified
<1> QED BY <1>16, <1>17

(* Every step of the reconciler is a step of the abstract tree, or none.   *)
LEMMA NextTree ==
  ASSUME Inv, Identified, [Next]_vars
  PROVE  TreeStep /\ Identified'
<1>1. ASSUME UNCHANGED <<groups, nextId, stack, cursor>> PROVE TreeStep /\ Identified'
  BY <1>1, StutterTree DEF Identified
<1>2. CASE UNCHANGED vars BY <1>1, <1>2 DEF vars, tree, walk
<1>3. CASE Host
  <2>1. ASSUME NEW k \in RootKeys, Attach(k) \/ Detach(k) PROVE TreeStep /\ Identified'
    BY <1>1, <2>1 DEF Attach, Detach, tree, walk
  <2> QED BY <1>3, <2>1, HostPruneTree, HotReloadTree DEF Host
<1>4. CASE Traverse
  <2>1. ASSUME SkipDetached \/ EnterCompositionFull \/ DidNotConverge \/ Converge
        PROVE  TreeStep /\ Identified'
    BY <1>1, <2>1 DEF SkipDetached, EnterCompositionFull, DidNotConverge, Converge, tree
  <2> QED BY <1>4, <2>1, RecomposeTree, EndCompositionTree, EnterCompositionTree,
             NextIterationTree, PruneUnvisitedTree, ExitGroupTree DEF Traverse
<1>5. CASE Body
  <2>1. CASE EnterTooDeep
    <3>1. \E k : k = 0 OBVIOUS
    <3> QED BY <2>1, <3>1, NotEnteredTree
  <2>2. ASSUME NEW k \in Keys, InvalidateKey(k) \/ InvalidateKeyImmediate(k)
        PROVE  TreeStep /\ Identified'
    BY <1>1, <2>2 DEF InvalidateKey, InvalidateKeyImmediate, tree, walk
  <2>3. ASSUME NEW k \in Keys, EnterClean(k) \/ EnterDirty(k) \/ EnterFull(k) \/ EnterNew(k)
        PROVE  TreeStep /\ Identified'
    BY <2>3, EnterCleanTree, EnterDirtyTree, NotEnteredTree, EnterNewTree
  <2> QED BY <1>5, <2>1, <2>2, <2>3 DEF Body
<1> QED BY <1>2, <1>3, <1>4, <1>5 DEF Next

(* No identity is given to two groups, whatever is inserted, moved and     *)
(* pruned.                                                                 *)
LEMMA InitIdentified == Init => Identified
<1> SUFFICES ASSUME Init PROVE Identified OBVIOUS
<1>1. groups = <<>> /\ nextId = 1 BY DEF Init
<1>2. DOMAIN groups = {} BY <1>1
<1>3. IdsOf(groups, DOMAIN groups) = {} /\ Unique(groups) BY <1>2 DEF IdsOf, Unique
<1> QED BY <1>1, <1>3, ConstantsAssumption DEF Identified

(* The table of groups implements CompositionTree: every behaviour of the  *)
(* reconciler is one of the abstract tree, for every capacity of the       *)
(* table, every depth and every set of keys.                               *)
THEOREM RefinesTree == Spec => ImplementsCompositionTree
<1>1. Init => Inv /\ Identified BY InitInv, InitIdentified
<1>2. Inv /\ Identified /\ [Next]_vars => Inv' /\ Identified' BY NextInv, NextTree
<1>3. Inv /\ Identified /\ [Next]_vars => [AbstractTree!Next]_(AbstractTree!treeVars)
  BY NextTree DEF TreeStep
<1> QED BY <1>1, <1>2, <1>3, InitTree, PTL DEF Spec, ImplementsCompositionTree, AbstractTree!Spec
=============================================================================
