--------------------------- MODULE SlotArenaProofs ---------------------------
(***************************************************************************)
(* Proofs about SlotArena, for all keys, sizes and capacities: its types,  *)
(* that the slots are apart and counted, that every call finds the memory  *)
(* it was given, and that memory in use does not move.                     *)
(*                                                                         *)
(* What is left of a table once a group is released, and the bytes of the  *)
(* slots, are loops over the table: Induction's lemmas say what they       *)
(* compute.                                                                *)
(***************************************************************************)
EXTENDS SlotArena, Induction, SequenceTheorems

\* What the first fit looks for: the least of some positions.
LEMMA LeastOf ==
  ASSUME NEW T \in SUBSET Nat, T # {}
  PROVE  Least(T) \in T /\ \A n \in T : Least(T) <= n
  BY LeastElement DEF Least

\* The constants, and the fields of a slot.
LEMMA ConstantTypes ==
  /\ Calls \in Nat /\ Calls > 0 /\ ArenaSize \in Nat /\ MaxSlots \in Nat /\ MaxHooks \in Nat
  /\ MaxIds \in Nat /\ MaxReloads \in Nat
  /\ \A s \in Sizes : s \in Nat /\ s > 0
  /\ \A s \in BufferSizes : s \in Nat
<1>1. Sizes \subseteq Nat \ {0} /\ BufferSizes \subseteq Nat \ {0} /\ MaxReloads \in Nat
  BY SlotAssumption
<1>2. /\ Calls \in Nat \ {0} /\ ArenaSize \in Nat \ {0} /\ MaxSlots \in Nat \ {0}
      /\ MaxHooks \in Nat \ {0} /\ MaxIds \in Nat \ {0}
  BY SlotAssumption
<1>3. \A n \in Nat \ {0} : n \in Nat /\ n > 0
  OBVIOUS
<1> QED
  BY <1>1, <1>2, <1>3

LEMMA SlotType ==
  ASSUME NEW e \in Slot
  PROVE  /\ e.gid \in 1 .. MaxIds /\ e.off \in Nat /\ e.at \in Nat
         /\ e.size \in Sizes /\ e.size \in Nat /\ e.size > 0 /\ End(e) \in Nat
<1>1. e.gid \in 1 .. MaxIds /\ e.off \in Nat /\ e.at \in Nat /\ e.size \in Sizes
  BY DEF Slot
<1>2. e.size \in Nat /\ e.size > 0
  BY <1>1, ConstantTypes
<1> QED
  BY <1>1, <1>2 DEF End

-----------------------------------------------------------------------------
(* What is left of a table without one group.                              *)

\* The loop of ReleaseSlotsForGroup, turn by turn.
LEMMA WithoutTurn ==
  ASSUME NEW S, NEW seq \in Seq(S), NEW gid
  PROVE  /\ WithoutUpTo(seq, gid)[0] = <<>>
         /\ \A n \in 1 .. Len(seq) :
              WithoutUpTo(seq, gid)[n] =
                IF seq[n].gid = gid THEN WithoutUpTo(seq, gid)[n - 1]
                ELSE Append(WithoutUpTo(seq, gid)[n - 1], seq[n])
<1> DEFINE L == Len(seq)
           Turn(v, n) == IF seq[n].gid = gid THEN v ELSE Append(v, seq[n])
           step == [n \in 1 .. L |-> [v \in Seq(S) |-> Turn(v, n)]]
           Is(f) == f = [n \in 0 .. Len(seq) |->
                           IF n = 0 THEN <<>>
                           ELSE IF seq[n].gid = gid THEN f[n - 1]
                           ELSE Append(f[n - 1], seq[n])]
<1>1. step \in [1 .. L -> [Seq(S) -> Seq(S)]]
  OBVIOUS
<1>2. \A n \in 1 .. L : \A v \in Seq(S) : step[n][v] = Turn(v, n)
  OBVIOUS
<1>3. L \in Nat /\ <<>> \in Seq(S)
  OBVIOUS
<1> HIDE DEF step, L
<1>4. PICK f : Solves(f, L, Seq(S), <<>>, step)
  BY <1>1, <1>3, Recursion
<1>5. Is(f)
  <2>1. /\ f \in [0 .. L -> Seq(S)] /\ f[0] = <<>>
        /\ \A n \in 1 .. L : f[n] = step[n][f[n - 1]]
    BY <1>4 DEF Solves
  <2> HIDE DEF Turn
  <2>2. \A n \in 1 .. L : n \in 0 .. L /\ n # 0 /\ f[n - 1] \in Seq(S)
    BY <1>3, <2>1
  <2>3. \A n \in 0 .. L : n = 0 \/ n \in 1 .. L
    BY <1>3
  <2>4. \A n \in 1 .. L : f[n] = Turn(f[n - 1], n)
    BY <1>2, <2>1, <2>2
  <2>5. \A n \in 0 .. L : f[n] = IF n = 0 THEN <<>> ELSE Turn(f[n - 1], n)
    BY <2>1, <2>2, <2>3, <2>4, Zenon
  <2>6. f = [n \in 0 .. L |-> IF n = 0 THEN <<>> ELSE Turn(f[n - 1], n)]
    BY <2>1, <2>5, Zenon
  <2> QED
    BY <2>6 DEF L, Turn
<1>6. Is(WithoutUpTo(seq, gid))
  <2>1. \E g : Is(g)
    BY <1>5
  <2> QED
    BY <2>1 DEF WithoutUpTo
<1> DEFINE kept == WithoutUpTo(seq, gid)
<1>7. kept = [n \in 0 .. L |-> IF n = 0 THEN <<>> ELSE Turn(kept[n - 1], n)]
  BY <1>6 DEF L
<1> HIDE DEF kept, Is, Turn
<1>8. \A n \in 0 .. L : kept[n] = IF n = 0 THEN <<>> ELSE Turn(kept[n - 1], n)
  BY <1>7, Zenon
<1>9. 0 \in 0 .. L /\ \A n \in 1 .. L : n \in 0 .. L /\ n # 0
  BY <1>3
<1> QED
  BY <1>8, <1>9 DEF kept, L, Turn

\* v is what the first n of seq hold that is not of group gid, in order.
Keeps(v, seq, gid, n) ==
  /\ \A i \in 1 .. Len(v) : \E m \in 1 .. n : v[i] = seq[m] /\ seq[m].gid # gid
  /\ \A i, j \in 1 .. Len(v) : i < j =>
       \E l, m \in 1 .. n : l < m /\ v[i] = seq[l] /\ v[j] = seq[m]
  /\ \A m \in 1 .. n : seq[m].gid # gid => \E i \in 1 .. Len(v) : v[i] = seq[m]

\* One turn of the loop.
LEMMA KeepsTurn ==
  ASSUME NEW S, NEW seq \in Seq(S), NEW gid, NEW n \in 0 .. Len(seq) - 1,
         NEW v \in Seq(S), Len(v) <= n, Keeps(v, seq, gid, n),
         NEW w, w = IF seq[n + 1].gid = gid THEN v ELSE Append(v, seq[n + 1])
  PROVE  w \in Seq(S) /\ Len(w) <= n + 1 /\ Keeps(w, seq, gid, n + 1)
<1> DEFINE e == seq[n + 1]
<1>1. n \in Nat /\ n + 1 \in 1 .. Len(seq) /\ e \in S /\ Len(v) \in Nat
  OBVIOUS
<1>2. \A m \in 1 .. n : m \in 1 .. n + 1 /\ m < n + 1
  BY <1>1
<1>3. \A m \in 1 .. n + 1 : m \in 1 .. n \/ m = n + 1
  BY <1>1
<1>4. n + 1 \in 1 .. n + 1
  BY <1>1
<1>5. CASE e.gid = gid
  <2>1. w = v
    BY <1>5
  <2> HIDE DEF e
  <2>2. Keeps(v, seq, gid, n + 1)
    <3>1. \A i \in 1 .. Len(v) : \E m \in 1 .. n + 1 : v[i] = seq[m] /\ seq[m].gid # gid
      BY <1>2 DEF Keeps
    <3>2. \A i, j \in 1 .. Len(v) : i < j =>
            \E l, m \in 1 .. n + 1 : l < m /\ v[i] = seq[l] /\ v[j] = seq[m]
      <4> SUFFICES ASSUME NEW i \in 1 .. Len(v), NEW j \in 1 .. Len(v), i < j
                   PROVE  \E l, m \in 1 .. n + 1 : l < m /\ v[i] = seq[l] /\ v[j] = seq[m]
        OBVIOUS
      <4>1. PICK l \in 1 .. n, m \in 1 .. n : l < m /\ v[i] = seq[l] /\ v[j] = seq[m]
        BY DEF Keeps
      <4> QED
        BY <4>1, <1>2
    <3>3. \A m \in 1 .. n + 1 : seq[m].gid # gid => \E i \in 1 .. Len(v) : v[i] = seq[m]
      BY <1>3, <1>5 DEF Keeps, e
    <3> QED
      BY <3>1, <3>2, <3>3 DEF Keeps
  <2> QED
    BY <1>1, <2>1, <2>2
<1>6. CASE e.gid # gid
  <2>1. /\ w \in Seq(S) /\ Len(w) = Len(v) + 1 /\ w[Len(v) + 1] = e
        /\ \A i \in 1 .. Len(v) : w[i] = v[i]
    BY <1>1, <1>6
  <2>2. \A i \in 1 .. Len(w) : i \in 1 .. Len(v) \/ i = Len(v) + 1
    BY <1>1, <2>1
  <2>3. \A i \in 1 .. Len(v) : i \in 1 .. Len(w) /\ i < Len(v) + 1 /\ ~(Len(v) + 1 < i)
    BY <1>1, <2>1
  <2>4. Len(v) + 1 \in 1 .. Len(w) /\ ~(Len(v) + 1 < Len(v) + 1) /\ Len(w) <= n + 1
    BY <1>1, <2>1
  <2> HIDE DEF e
  <2>5. \A i \in 1 .. Len(w) : \E m \in 1 .. n + 1 : w[i] = seq[m] /\ seq[m].gid # gid
    <3> SUFFICES ASSUME NEW i \in 1 .. Len(w)
                 PROVE  \E m \in 1 .. n + 1 : w[i] = seq[m] /\ seq[m].gid # gid
      OBVIOUS
    <3>1. CASE i \in 1 .. Len(v)
      <4>1. PICK m \in 1 .. n : v[i] = seq[m] /\ seq[m].gid # gid
        BY <3>1 DEF Keeps
      <4> QED
        BY <3>1, <4>1, <1>2, <2>1
    <3>2. CASE i = Len(v) + 1
      BY <3>2, <1>4, <1>6, <2>1, Zenon DEF e
    <3> QED
      BY <3>1, <3>2, <2>2
  <2>6. \A i, j \in 1 .. Len(w) : i < j =>
          \E l, m \in 1 .. n + 1 : l < m /\ w[i] = seq[l] /\ w[j] = seq[m]
    <3> SUFFICES ASSUME NEW i \in 1 .. Len(w), NEW j \in 1 .. Len(w), i < j
                 PROVE  \E l, m \in 1 .. n + 1 : l < m /\ w[i] = seq[l] /\ w[j] = seq[m]
      OBVIOUS
    <3>1. i \in 1 .. Len(v)
      BY <2>1, <1>1
    <3>2. CASE j \in 1 .. Len(v)
      <4>1. PICK l \in 1 .. n, m \in 1 .. n : l < m /\ v[i] = seq[l] /\ v[j] = seq[m]
        BY <3>1, <3>2, Zenon DEF Keeps
      <4> QED
        BY <4>1, <3>1, <3>2, <1>2, <2>1
    <3>3. CASE j = Len(v) + 1
      <4>1. PICK l \in 1 .. n : v[i] = seq[l]
        BY <3>1, Zenon DEF Keeps
      <4> QED
        BY <4>1, <3>1, <3>3, <1>2, <1>4, <2>1 DEF e
    <3> QED
      BY <3>2, <3>3, <2>2
  <2>7. \A m \in 1 .. n + 1 : seq[m].gid # gid => \E i \in 1 .. Len(w) : w[i] = seq[m]
    <3> SUFFICES ASSUME NEW m \in 1 .. n + 1, seq[m].gid # gid
                 PROVE  \E i \in 1 .. Len(w) : w[i] = seq[m]
      OBVIOUS
    <3>1. CASE m \in 1 .. n
      <4>1. PICK i \in 1 .. Len(v) : v[i] = seq[m]
        BY <3>1 DEF Keeps
      <4> QED
        BY <4>1, <2>1, <2>3
    <3>2. CASE m = n + 1
      BY <3>2, <2>1, <2>4, Zenon DEF e
    <3> QED
      BY <3>1, <3>2, <1>3
  <2> QED
    BY <2>1, <2>4, <2>5, <2>6, <2>7 DEF Keeps
<1> QED
  BY <1>5, <1>6

\* Every turn of the loop.
LEMMA KeepsUpTo ==
  ASSUME NEW S, NEW seq \in Seq(S), NEW gid, NEW n \in 0 .. Len(seq)
  PROVE  /\ WithoutUpTo(seq, gid)[n] \in Seq(S)
         /\ Len(WithoutUpTo(seq, gid)[n]) <= n
         /\ Keeps(WithoutUpTo(seq, gid)[n], seq, gid, n)
<1> DEFINE kept == WithoutUpTo(seq, gid)
           Good(m) == kept[m] \in Seq(S) /\ Len(kept[m]) <= m /\ Keeps(kept[m], seq, gid, m)
           P == {m \in 0 .. Len(seq) : Good(m)}
<1>1. Len(seq) \in Nat /\ P \in SUBSET Nat
  OBVIOUS
<1>2. 0 \in P
  <2>1. kept[0] = <<>>
    BY WithoutTurn
  <2>2. <<>> \in Seq(S) /\ Len(<<>>) = 0
    OBVIOUS
  <2>3. Keeps(<<>>, seq, gid, 0)
    BY <2>2 DEF Keeps
  <2>4. 0 \in 0 .. Len(seq)
    BY <1>1
  <2> HIDE DEF kept
  <2>5. Good(0)
    BY <2>1, <2>2, <2>3
  <2> HIDE DEF Good
  <2> QED
    BY <2>4, <2>5
<1>3. ASSUME NEW m \in 0 .. Len(seq) - 1, m \in P
      PROVE  m + 1 \in P
  <2>1. m + 1 \in 1 .. Len(seq) /\ m + 1 \in 0 .. Len(seq) /\ (m + 1) - 1 = m
    BY <1>1
  <2>2. kept[m + 1] = IF seq[m + 1].gid = gid THEN kept[m] ELSE Append(kept[m], seq[m + 1])
    BY <2>1, WithoutTurn
  <2>3. Good(m)
    BY <1>3
  <2> HIDE DEF kept
  <2>4. Good(m + 1)
    BY <2>2, <2>3, KeepsTurn
  <2> HIDE DEF Good
  <2> QED
    BY <2>1, <2>4
<1> HIDE DEF Good, P, kept
<1>4. n \in P
  BY <1>1, <1>2, <1>3, UpTo
<1> QED
  BY <1>4 DEF P, Good, kept

\* The whole loop.
LEMMA KeepsAll ==
  ASSUME NEW S, NEW seq \in Seq(S), NEW gid
  PROVE  /\ Without(seq, gid) \in Seq(S)
         /\ Len(Without(seq, gid)) <= Len(seq)
         /\ Keeps(Without(seq, gid), seq, gid, Len(seq))
<1>1. Len(seq) \in 0 .. Len(seq)
  OBVIOUS
<1> QED
  BY <1>1, KeepsUpTo DEF Without

\* What is left after a group is released is the rest of the table.
LEMMA WithoutIs ==
  ASSUME NEW S, NEW seq \in Seq(S), NEW gid, NEW v, v = Without(seq, gid)
  PROVE  /\ v \in Seq(S) /\ Len(v) <= Len(seq)
         /\ \A i \in DOMAIN v : \E m \in DOMAIN seq : v[i] = seq[m] /\ seq[m].gid # gid
         /\ \A i, j \in DOMAIN v : i < j =>
              \E l, m \in DOMAIN seq : l < m /\ v[i] = seq[l] /\ v[j] = seq[m]
         /\ \A m \in DOMAIN seq : seq[m].gid # gid => \E i \in DOMAIN v : v[i] = seq[m]
<1>1. v \in Seq(S) /\ Len(v) <= Len(seq) /\ Keeps(v, seq, gid, Len(seq))
  BY KeepsAll
<1>2. DOMAIN v = 1 .. Len(v) /\ DOMAIN seq = 1 .. Len(seq)
  BY <1>1
<1>3. /\ \A i \in 1 .. Len(v) : \E m \in 1 .. Len(seq) : v[i] = seq[m] /\ seq[m].gid # gid
      /\ \A i, j \in 1 .. Len(v) : i < j =>
           \E l, m \in 1 .. Len(seq) : l < m /\ v[i] = seq[l] /\ v[j] = seq[m]
      /\ \A m \in 1 .. Len(seq) : seq[m].gid # gid => \E i \in 1 .. Len(v) : v[i] = seq[m]
  BY <1>1 DEF Keeps
<1>4. \A i \in DOMAIN v : \E m \in DOMAIN seq : v[i] = seq[m] /\ seq[m].gid # gid
  BY <1>2, <1>3
<1>5. \A i, j \in DOMAIN v : i < j =>
        \E l, m \in DOMAIN seq : l < m /\ v[i] = seq[l] /\ v[j] = seq[m]
  <2> SUFFICES ASSUME NEW i \in DOMAIN v, NEW j \in DOMAIN v, i < j
               PROVE  \E l, m \in DOMAIN seq : l < m /\ v[i] = seq[l] /\ v[j] = seq[m]
    OBVIOUS
  <2>1. i \in 1 .. Len(v) /\ j \in 1 .. Len(v)
    BY <1>2
  <2>2. PICK l \in 1 .. Len(seq), m \in 1 .. Len(seq) : l < m /\ v[i] = seq[l] /\ v[j] = seq[m]
    BY <1>3, <2>1
  <2> QED
    BY <1>2, <2>2
<1>6. \A m \in DOMAIN seq : seq[m].gid # gid => \E i \in DOMAIN v : v[i] = seq[m]
  BY <1>2, <1>3
<1> QED
  BY <1>1, <1>4, <1>5, <1>6

-----------------------------------------------------------------------------
(* The bytes of the slots.                                                 *)

\* The sum of the slots of some groups, slot by slot.
LEMMA BytesTurn ==
  ASSUME NEW ss \in Seq(Slot), NEW gids
  PROVE  /\ BytesUpTo(ss, gids) \in [0 .. Len(ss) -> Nat]
         /\ BytesUpTo(ss, gids)[0] = 0
         /\ \A n \in 1 .. Len(ss) :
              BytesUpTo(ss, gids)[n] =
                BytesUpTo(ss, gids)[n - 1] + (IF ss[n].gid \in gids THEN ss[n].size ELSE 0)
<1> DEFINE L == Len(ss)
           Turn(v, n) == v + (IF ss[n].gid \in gids THEN ss[n].size ELSE 0)
           step == [n \in 1 .. L |-> [v \in Nat |-> Turn(v, n)]]
           Is(f) == f = [n \in 0 .. Len(ss) |->
                           IF n = 0 THEN 0
                           ELSE f[n - 1] + (IF ss[n].gid \in gids THEN ss[n].size ELSE 0)]
<1>0. \A n \in 1 .. L : \A v \in Nat : Turn(v, n) \in Nat
  <2>1. \A n \in 1 .. L : ss[n].size \in Nat
    <3> SUFFICES ASSUME NEW n \in 1 .. L
                 PROVE  ss[n].size \in Nat
      OBVIOUS
    <3>1. ss[n] \in Slot
      OBVIOUS
    <3> QED
      BY <3>1, SlotType
  <2> QED
    BY <2>1
<1>1. step \in [1 .. L -> [Nat -> Nat]]
  <2> HIDE DEF Turn
  <2> QED
    BY <1>0
<1>2. \A n \in 1 .. L : \A v \in Nat : step[n][v] = Turn(v, n)
  OBVIOUS
<1>3. L \in Nat
  OBVIOUS
<1> HIDE DEF step, L
<1>4. PICK f : Solves(f, L, Nat, 0, step)
  BY <1>1, <1>3, Recursion
<1>5. Is(f)
  <2>1. /\ f \in [0 .. L -> Nat] /\ f[0] = 0
        /\ \A n \in 1 .. L : f[n] = step[n][f[n - 1]]
    BY <1>4 DEF Solves
  <2> HIDE DEF Turn
  <2>2. \A n \in 1 .. L : n \in 0 .. L /\ n # 0 /\ f[n - 1] \in Nat
    BY <1>3, <2>1
  <2>3. \A n \in 0 .. L : n = 0 \/ n \in 1 .. L
    BY <1>3
  <2>4. \A n \in 1 .. L : f[n] = Turn(f[n - 1], n)
    BY <1>2, <2>1, <2>2
  <2>5. \A n \in 0 .. L : f[n] = IF n = 0 THEN 0 ELSE Turn(f[n - 1], n)
    BY <2>1, <2>2, <2>3, <2>4, Zenon
  <2>6. f = [n \in 0 .. L |-> IF n = 0 THEN 0 ELSE Turn(f[n - 1], n)]
    BY <2>1, <2>5, Zenon
  <2> QED
    BY <2>6 DEF L, Turn
<1>6. Is(BytesUpTo(ss, gids))
  <2>1. \E g : Is(g)
    BY <1>5
  <2> QED
    BY <2>1 DEF BytesUpTo
<1> DEFINE bytes == BytesUpTo(ss, gids)
<1>7. bytes = [n \in 0 .. L |-> IF n = 0 THEN 0 ELSE Turn(bytes[n - 1], n)]
  BY <1>6 DEF L
<1> HIDE DEF bytes, Is, Turn
<1>9. \A n \in 0 .. L : bytes[n] = IF n = 0 THEN 0 ELSE Turn(bytes[n - 1], n)
  BY <1>7, Zenon
<1>10. 0 \in 0 .. L /\ \A n \in 1 .. L : n \in 0 .. L /\ n # 0
  BY <1>3
<1>11. bytes[0] = 0 /\ \A n \in 1 .. L : bytes[n] = Turn(bytes[n - 1], n)
  BY <1>9, <1>10
<1>12. \A n \in 0 .. L : bytes[n] \in Nat
  <2> DEFINE P == {n \in 0 .. L : bytes[n] \in Nat}
  <2>1. P \in SUBSET Nat /\ 0 \in P
    BY <1>3, <1>10, <1>11
  <2>2. ASSUME NEW n \in 0 .. L - 1, n \in P
        PROVE  n + 1 \in P
    <3>1. n + 1 \in 1 .. L /\ n + 1 \in 0 .. L /\ (n + 1) - 1 = n
      BY <1>3
    <3>2. bytes[n + 1] \in Nat
      BY <3>1, <2>2, <1>0, <1>11
    <3> QED
      BY <3>1, <3>2
  <2> HIDE DEF P
  <2>3. \A n \in 0 .. L : n \in P
    BY <1>3, <2>1, <2>2, UpTo
  <2> QED
    BY <2>3 DEF P
<1>13. bytes \in [0 .. L -> Nat]
  <2>1. bytes = [n \in 0 .. L |-> bytes[n]]
    BY <1>7, Zenon
  <2> QED
    BY <2>1, <1>12
<1> QED
  BY <1>11, <1>13 DEF bytes, L, Turn

\* The bytes of the first slots depend on them alone.
LEMMA BytesPrefix ==
  ASSUME NEW ss \in Seq(Slot), NEW tt \in Seq(Slot), NEW gids, NEW N \in Nat,
         N <= Len(ss), N <= Len(tt), \A n \in 1 .. N : ss[n] = tt[n]
  PROVE  \A n \in 0 .. N : BytesUpTo(ss, gids)[n] = BytesUpTo(tt, gids)[n]
<1> DEFINE a == BytesUpTo(ss, gids)
           b == BytesUpTo(tt, gids)
           P == {n \in 0 .. N : a[n] = b[n]}
<1>1. /\ a[0] = 0 /\ b[0] = 0
      /\ \A n \in 1 .. N : a[n] = a[n - 1] + (IF ss[n].gid \in gids THEN ss[n].size ELSE 0)
      /\ \A n \in 1 .. N : b[n] = b[n - 1] + (IF ss[n].gid \in gids THEN ss[n].size ELSE 0)
  <2>1. \A n \in 1 .. N : n \in 1 .. Len(ss) /\ n \in 1 .. Len(tt)
    OBVIOUS
  <2> QED
    BY <2>1, BytesTurn
<1> HIDE DEF a, b
<1>2. P \in SUBSET Nat /\ 0 \in P
  BY <1>1
<1>3. ASSUME NEW n \in 0 .. N - 1, n \in P
      PROVE  n + 1 \in P
  <2>1. n + 1 \in 1 .. N /\ n + 1 \in 0 .. N /\ (n + 1) - 1 = n
    OBVIOUS
  <2>2. a[n + 1] = b[n + 1]
    BY <2>1, <1>1, <1>3
  <2> QED
    BY <2>1, <2>2
<1> HIDE DEF P
<1>4. \A n \in 0 .. N : n \in P
  BY <1>2, <1>3, UpTo
<1> QED
  BY <1>4 DEF P, a, b

\* A slot at the end adds its bytes.
LEMMA BytesAppend ==
  ASSUME NEW ss \in Seq(Slot), NEW e \in Slot, NEW gids
  PROVE  Bytes(Append(ss, e), gids) =
           Bytes(ss, gids) + (IF e.gid \in gids THEN e.size ELSE 0)
<1> DEFINE tt == Append(ss, e)
           n == Len(ss)
<1>1. /\ tt \in Seq(Slot) /\ Len(tt) = n + 1 /\ n \in Nat /\ n + 1 \in 1 .. Len(tt)
      /\ tt[n + 1] = e /\ \A i \in 1 .. n : ss[i] = tt[i]
  OBVIOUS
<1> HIDE DEF tt
<1>2. BytesUpTo(tt, gids)[n + 1] =
        BytesUpTo(tt, gids)[(n + 1) - 1] + (IF e.gid \in gids THEN e.size ELSE 0)
  BY <1>1, BytesTurn
<1>3. n \in 0 .. n /\ n <= Len(ss) /\ n <= Len(tt) /\ (n + 1) - 1 = n
  BY <1>1
<1>4. BytesUpTo(ss, gids)[n] = BytesUpTo(tt, gids)[n]
  BY <1>1, <1>3, BytesPrefix
<1> QED
  BY <1>1, <1>2, <1>3, <1>4 DEF Bytes, tt

\* A slot put anywhere adds its bytes.
LEMMA BytesInsertAt ==
  ASSUME NEW ss \in Seq(Slot), NEW k \in 1 .. Len(ss) + 1, NEW e \in Slot, NEW gids,
         e.gid \in gids
  PROVE  /\ InsertAt(ss, k, e) \in Seq(Slot)
         /\ Len(InsertAt(ss, k, e)) = Len(ss) + 1
         /\ Bytes(InsertAt(ss, k, e), gids) = Bytes(ss, gids) + e.size
<1> DEFINE tt == InsertAt(ss, k, e)
           L == Len(ss)
<1>1. tt \in Seq(Slot) /\ Len(tt) = L + 1
  <2>1. \A m \in 1 .. L + 1 :
          (IF m < k THEN ss[m] ELSE IF m = k THEN e ELSE ss[m - 1]) \in Slot
    <3> SUFFICES ASSUME NEW m \in 1 .. L + 1
                 PROVE  (IF m < k THEN ss[m] ELSE IF m = k THEN e ELSE ss[m - 1]) \in Slot
      OBVIOUS
    <3>1. m < k => m \in 1 .. L
      OBVIOUS
    <3>2. ~(m < k) /\ m # k => m - 1 \in 1 .. L
      OBVIOUS
    <3> QED
      BY <3>1, <3>2
  <2>2. tt \in [1 .. L + 1 -> Slot]
    BY <2>1, Zenon DEF InsertAt
  <2>3. L + 1 \in Nat
    OBVIOUS
  <2> HIDE DEF tt, L
  <2> QED
    BY <2>2, <2>3
<1>2. /\ \A m \in 1 .. k - 1 : tt[m] = ss[m]
      /\ tt[k] = e
      /\ \A m \in k + 1 .. L + 1 : tt[m] = ss[m - 1]
  BY DEF InsertAt
<1>3. L \in Nat /\ k \in Nat /\ k >= 1 /\ k <= L + 1 /\ e.size \in Nat
  BY SlotType
<1> HIDE DEF tt, L
<1> DEFINE a == BytesUpTo(ss, gids)
           b == BytesUpTo(tt, gids)
<1>4. \A n \in 0 .. k - 1 : a[n] = b[n]
  <2>1. k - 1 \in Nat /\ k - 1 <= Len(ss) /\ k - 1 <= Len(tt)
    BY <1>1, <1>3 DEF L
  <2> QED
    BY <1>1, <1>2, <2>1, BytesPrefix
<1>5. /\ a \in [0 .. L -> Nat] /\ b \in [0 .. L + 1 -> Nat]
      /\ \A n \in 1 .. L : a[n] = a[n - 1] + (IF ss[n].gid \in gids THEN ss[n].size ELSE 0)
      /\ \A n \in 1 .. L + 1 : b[n] = b[n - 1] + (IF tt[n].gid \in gids THEN tt[n].size ELSE 0)
  <2>1. /\ a \in [0 .. L -> Nat]
        /\ \A n \in 1 .. L : a[n] = a[n - 1] + (IF ss[n].gid \in gids THEN ss[n].size ELSE 0)
    BY BytesTurn DEF L
  <2>2. /\ b \in [0 .. L + 1 -> Nat]
        /\ \A n \in 1 .. L + 1 : b[n] = b[n - 1] + (IF tt[n].gid \in gids THEN tt[n].size ELSE 0)
    BY <1>1, BytesTurn
  <2> HIDE DEF a, b
  <2> QED
    BY <2>1, <2>2
<1> HIDE DEF a, b
<1> DEFINE P == {d \in 0 .. L + 1 - k : b[k + d] = a[k + d - 1] + e.size}
<1>6. P \in SUBSET Nat /\ 0 \in P
  <2>1. b[k] = b[k - 1] + e.size
    <3>1. k \in 1 .. L + 1
      BY <1>3
    <3> QED
      BY <1>2, <1>5, <3>1
  <2>2. b[k - 1] = a[k - 1]
    BY <1>3, <1>4
  <2>3. k + 0 = k /\ 0 \in 0 .. L + 1 - k
    BY <1>3
  <2> QED
    BY <1>3, <2>1, <2>2, <2>3
<1>7. ASSUME NEW d \in 0 .. (L + 1 - k) - 1, d \in P
      PROVE  d + 1 \in P
  <2> DEFINE n == k + d
  <2>1. /\ n \in 1 .. L /\ n + 1 \in 1 .. L + 1 /\ n + 1 \in k + 1 .. L + 1
        /\ (n + 1) - 1 = n /\ k + (d + 1) = n + 1 /\ d + 1 \in 0 .. L + 1 - k
        /\ k + d - 1 = n - 1 /\ k + (d + 1) - 1 = n /\ n - 1 \in 0 .. L /\ n \in 0 .. L
    BY <1>3
  <2>2. b[n] = a[n - 1] + e.size
    BY <1>7, <2>1
  <2> HIDE DEF n
  <2>3. tt[n + 1] = ss[n]
    BY <1>2, <2>1
  <2>4. b[n + 1] = b[n] + (IF ss[n].gid \in gids THEN ss[n].size ELSE 0)
    BY <1>5, <2>1, <2>3
  <2>5. a[n] = a[n - 1] + (IF ss[n].gid \in gids THEN ss[n].size ELSE 0)
    BY <1>5, <2>1
  <2>6. a[n] \in Nat /\ a[n - 1] \in Nat
    BY <1>5, <2>1
  <2>7. (IF ss[n].gid \in gids THEN ss[n].size ELSE 0) \in Nat
    <3>1. ss[n] \in Slot
      BY <2>1 DEF L
    <3>2. ss[n].size \in Nat
      BY <3>1, SlotType
    <3> QED
      BY <3>2
  <2>8. b[n + 1] = a[n] + e.size
    <3> DEFINE x == IF ss[n].gid \in gids THEN ss[n].size ELSE 0
    <3>1. /\ x \in Nat /\ e.size \in Nat /\ a[n] \in Nat /\ a[n - 1] \in Nat
          /\ b[n] = a[n - 1] + e.size /\ b[n + 1] = b[n] + x /\ a[n] = a[n - 1] + x
      BY <1>3, <2>2, <2>4, <2>5, <2>6, <2>7
    <3> HIDE DEF x
    <3> QED
      BY <3>1
  <2> QED
    BY <2>1, <2>8
<1> HIDE DEF P
<1>8. L + 1 - k \in P
  <2>1. L + 1 - k \in Nat /\ L + 1 - k \in 0 .. L + 1 - k
    BY <1>3
  <2> QED
    BY <1>6, <1>7, <2>1, UpTo
<1>9. b[L + 1] = a[L] + e.size
  <2>1. b[k + (L + 1 - k)] = a[k + (L + 1 - k) - 1] + e.size
    BY <1>8 DEF P
  <2>2. k + (L + 1 - k) = L + 1 /\ k + (L + 1 - k) - 1 = L
    BY <1>3
  <2> QED
    BY <2>1, <2>2
<1> QED
  BY <1>1, <1>9 DEF Bytes, a, b, tt, L

\* The bytes of a group and those that stay are all the bytes.
LEMMA BytesWithout ==
  ASSUME NEW ss \in Seq(Slot), NEW gid
  PROVE  /\ Bytes(Without(ss, gid), 1 .. MaxIds) \in Nat
         /\ Bytes(Without(ss, gid), 1 .. MaxIds)
              = Bytes(ss, 1 .. MaxIds) - Bytes(ss, {gid})
<1> DEFINE all == 1 .. MaxIds
           kept == WithoutUpTo(ss, gid)
           a == BytesUpTo(ss, all)
           b == BytesUpTo(ss, {gid})
           L == Len(ss)
           P == {n \in 0 .. L : Bytes(kept[n], all) + b[n] = a[n]}
<1>1. L \in Nat /\ \A n \in 1 .. L : ss[n] \in Slot /\ ss[n].gid \in all /\ ss[n].size \in Nat
  <2>1. L \in Nat /\ \A n \in 1 .. L : ss[n] \in Slot
    OBVIOUS
  <2> QED
    BY <2>1, SlotType
<1>2. /\ a \in [0 .. L -> Nat] /\ a[0] = 0
      /\ \A n \in 1 .. L : a[n] = a[n - 1] + (IF ss[n].gid \in all THEN ss[n].size ELSE 0)
  BY BytesTurn
<1>3. /\ b \in [0 .. L -> Nat] /\ b[0] = 0
      /\ \A n \in 1 .. L : b[n] = b[n - 1] + (IF ss[n].gid \in {gid} THEN ss[n].size ELSE 0)
  BY BytesTurn
<1>4. /\ kept[0] = <<>>
      /\ \A n \in 1 .. L : kept[n] = IF ss[n].gid = gid THEN kept[n - 1]
                                     ELSE Append(kept[n - 1], ss[n])
  BY WithoutTurn
<1>5. \A n \in 0 .. L : kept[n] \in Seq(Slot)
  BY KeepsUpTo
<1>6. ASSUME NEW v \in Seq(Slot)
      PROVE  Bytes(v, all) \in Nat
  <2>1. Len(v) \in 0 .. Len(v)
    OBVIOUS
  <2> QED
    BY <2>1, BytesTurn DEF Bytes
<1>7. Bytes(<<>>, all) = 0
  <2> DEFINE none == <<>>
  <2>1. none \in Seq(Slot) /\ Len(none) = 0
    OBVIOUS
  <2> HIDE DEF none
  <2>2. Bytes(none, all) = 0
    BY <2>1, BytesTurn DEF Bytes
  <2> QED
    BY <2>2 DEF none
<1> HIDE DEF all, kept, a, b, L
<1>8. P \in SUBSET Nat /\ 0 \in P
  BY <1>1, <1>2, <1>3, <1>4, <1>7
<1>9. ASSUME NEW n \in 0 .. L - 1, n \in P
      PROVE  n + 1 \in P
  <2>1. n + 1 \in 1 .. L /\ n + 1 \in 0 .. L /\ (n + 1) - 1 = n /\ n \in 0 .. L
    BY <1>1
  <2> DEFINE e == ss[n + 1]
  <2>2. e \in Slot /\ e.gid \in all /\ e.size \in Nat
    BY <2>1, <1>1
  <2>3. a[n + 1] = a[n] + e.size /\ a[n] \in Nat /\ b[n] \in Nat /\ b[n + 1] \in Nat
    BY <2>1, <2>2, <1>2, <1>3
  <2>4. /\ kept[n] \in Seq(Slot) /\ Bytes(kept[n], all) \in Nat
        /\ Bytes(kept[n], all) + b[n] = a[n]
    BY <2>1, <1>5, <1>6, <1>9
  <2>5. CASE e.gid = gid
    <3>1. kept[n + 1] = kept[n] /\ b[n + 1] = b[n] + e.size
      BY <2>1, <2>5, <1>3, <1>4
    <3> QED
      BY <2>1, <2>2, <2>3, <2>4, <3>1
  <2>6. CASE e.gid # gid
    <3>1. kept[n + 1] = Append(kept[n], e)
      BY <2>1, <2>6, <1>4
    <3>3. b[n + 1] = b[n]
      <4>1. b[n + 1] = b[n] + 0
        BY <2>1, <2>6, <1>3
      <4> QED
        BY <4>1, <2>3
    <3>2. Bytes(Append(kept[n], e), all) = Bytes(kept[n], all) + e.size
      BY <2>2, <2>4, BytesAppend
    <3>4. Bytes(kept[n + 1], all) + b[n + 1] = a[n + 1]
      BY <2>2, <2>3, <2>4, <3>1, <3>2, <3>3
    <3> QED
      BY <2>1, <3>4
  <2> QED
    BY <2>5, <2>6
<1> HIDE DEF P
<1>10. L \in P /\ L \in 0 .. L
  <2>1. L \in 0 .. L
    BY <1>1
  <2>2. \A n \in 0 .. L : n \in P
    BY <1>1, <1>8, <1>9, UpTo
  <2> QED
    BY <2>1, <2>2
<1>11. Bytes(kept[L], all) + b[L] = a[L] /\ a[L] \in Nat /\ b[L] \in Nat
  BY <1>2, <1>3, <1>10 DEF P
<1>12. Bytes(kept[L], all) \in Nat
  BY <1>5, <1>6, <1>10
<1>13. Bytes(kept[L], all) = a[L] - b[L]
  BY <1>11, <1>12
<1> QED
  BY <1>12, <1>13 DEF Without, Bytes, kept, a, b, L, all

-----------------------------------------------------------------------------
(* The arena.                                                              *)

\* Slots stand in arena order and share no byte.
Apart(ss) == \A m, n \in DOMAIN ss : m < n => End(ss[m]) <= ss[n].at

\* The slots of group g in the table ss.
OwnIn(ss, g) == {ss[n] : n \in {m \in DOMAIN ss : ss[m].gid = g}}

\* The place of a new slot: where the slot before it ends, and in front of
\* the slots that stay behind it.
LEMMA InsertionIs ==
  ASSUME NEW ss \in Seq(Slot), NEW bytes, NEW size \in Nat, NEW k, k = Insertion(ss, bytes, size)
  PROVE  /\ k \in 1 .. Len(ss) + 1
         /\ EndBefore(ss, k) \in Nat
         /\ k \in 1 .. Len(ss) => EndBefore(ss, k) + size <= ss[k].at
<1> DEFINE gaps == {m \in 1 .. Len(ss) : GapFits(EndBefore(ss, m), size, ss[m].at)}
<1>1. Len(ss) \in Nat
  OBVIOUS
<1>2. gaps \cup {Len(ss) + 1} \in SUBSET Nat /\ gaps \cup {Len(ss) + 1} # {}
  BY <1>1
<1>3. k = Len(ss) + 1 \/ k = Least(gaps \cup {Len(ss) + 1})
  BY DEF Insertion
<1> HIDE DEF gaps
<1>4. k = Len(ss) + 1 \/ k \in gaps
  BY <1>2, <1>3, LeastOf
<1>5. k \in 1 .. Len(ss) + 1 /\ (k \in 1 .. Len(ss) => k \in gaps)
  BY <1>1, <1>4 DEF gaps
<1>6. EndBefore(ss, k) \in Nat
  <2>1. CASE k = 1
    BY <2>1 DEF EndBefore
  <2>2. CASE k # 1
    <3>1. k - 1 \in 1 .. Len(ss)
      BY <1>1, <1>5, <2>2
    <3>2. ss[k - 1] \in Slot
      BY <3>1
    <3> QED
      BY <2>2, <3>2, SlotType DEF EndBefore
  <2> QED
    BY <2>1, <2>2
<1> QED
  BY <1>5, <1>6 DEF gaps, GapFits

\* The table with a slot put into it.
LEMMA InsertAtIs ==
  ASSUME NEW ss \in Seq(Slot), NEW k \in 1 .. Len(ss) + 1, NEW e, NEW tt, tt = InsertAt(ss, k, e)
  PROVE  /\ DOMAIN tt = 1 .. Len(ss) + 1
         /\ \A m \in DOMAIN tt :
              \/ m < k /\ m \in DOMAIN ss /\ tt[m] = ss[m]
              \/ m = k /\ tt[m] = e
              \/ k < m /\ m - 1 \in DOMAIN ss /\ tt[m] = ss[m - 1]
         /\ \A m \in DOMAIN ss : \E n \in DOMAIN tt : tt[n] = ss[m]
         /\ k \in DOMAIN tt /\ tt[k] = e
<1>1. /\ Len(ss) \in Nat /\ k \in Nat /\ 1 <= k /\ k <= Len(ss) + 1
      /\ DOMAIN ss = 1 .. Len(ss) /\ DOMAIN tt = 1 .. Len(ss) + 1
  BY DEF InsertAt
<1>2. \A m \in 1 .. Len(ss) + 1 : tt[m] = IF m < k THEN ss[m] ELSE IF m = k THEN e ELSE ss[m - 1]
  BY DEF InsertAt
<1>3. \A m \in DOMAIN tt :
        \/ m < k /\ m \in DOMAIN ss /\ tt[m] = ss[m]
        \/ m = k /\ tt[m] = e
        \/ k < m /\ m - 1 \in DOMAIN ss /\ tt[m] = ss[m - 1]
  <2> SUFFICES ASSUME NEW m \in 1 .. Len(ss) + 1
               PROVE  \/ m < k /\ m \in DOMAIN ss /\ tt[m] = ss[m]
                      \/ m = k /\ tt[m] = e
                      \/ k < m /\ m - 1 \in DOMAIN ss /\ tt[m] = ss[m - 1]
    BY <1>1
  <2>1. CASE m < k
    BY <2>1, <1>1, <1>2
  <2>2. CASE m = k
    BY <2>2, <1>1, <1>2
  <2>3. CASE k < m
    BY <2>3, <1>1, <1>2
  <2> QED
    BY <1>1, <2>1, <2>2, <2>3
<1>4. ASSUME NEW m \in DOMAIN ss
      PROVE  \E n \in DOMAIN tt : tt[n] = ss[m]
  <2>1. m \in 1 .. Len(ss)
    BY <1>1
  <2>2. CASE m < k
    <3>1. m \in DOMAIN tt /\ tt[m] = ss[m]
      BY <1>1, <1>2, <2>1, <2>2
    <3> QED
      BY <3>1
  <2>3. CASE ~(m < k)
    <3>1. m + 1 \in 1 .. Len(ss) + 1 /\ ~(m + 1 < k) /\ m + 1 # k /\ (m + 1) - 1 = m
      BY <1>1, <2>1, <2>3
    <3>2. m + 1 \in DOMAIN tt /\ tt[m + 1] = ss[m]
      BY <1>1, <1>2, <3>1
    <3> QED
      BY <3>2
  <2> QED
    BY <2>2, <2>3
<1>5. k \in DOMAIN tt /\ tt[k] = e
  BY <1>1, <1>2
<1> QED
  BY <1>1, <1>3, <1>4, <1>5

\* A slot put where Insertion says keeps the slots apart.
LEMMA InsertApart ==
  ASSUME NEW ss \in Seq(Slot), Apart(ss), NEW bytes, NEW e \in Slot,
         NEW k, k = Insertion(ss, bytes, e.size), e.at = EndBefore(ss, k)
  PROVE  Apart(InsertAt(ss, k, e))
<1> DEFINE tt == InsertAt(ss, k, e)
<1>1. e.size \in Nat /\ e.at \in Nat /\ End(e) = e.at + e.size
  BY SlotType DEF End
<1>2. /\ k \in 1 .. Len(ss) + 1
      /\ k \in 1 .. Len(ss) => End(e) <= ss[k].at
  BY <1>1, InsertionIs
<1>3. /\ DOMAIN tt = 1 .. Len(ss) + 1
      /\ \A m \in DOMAIN tt :
              \/ m < k /\ m \in DOMAIN ss /\ tt[m] = ss[m]
              \/ m = k /\ tt[m] = e
              \/ k < m /\ m - 1 \in DOMAIN ss /\ tt[m] = ss[m - 1]
  BY <1>2, InsertAtIs
<1>4. \A m \in DOMAIN ss : ss[m].at \in Nat /\ End(ss[m]) \in Nat /\ ss[m].at <= End(ss[m])
  <2> SUFFICES ASSUME NEW m \in DOMAIN ss
               PROVE  ss[m].at \in Nat /\ End(ss[m]) \in Nat /\ ss[m].at <= End(ss[m])
    OBVIOUS
  <2>1. ss[m] \in Slot
    OBVIOUS
  <2>2. ss[m].at \in Nat /\ ss[m].size \in Nat
    BY <2>1, SlotType
  <2> QED
    BY <2>2 DEF End
<1>5. DOMAIN ss = 1 .. Len(ss) /\ Len(ss) \in Nat /\ k \in Nat
  BY <1>2
<1> HIDE DEF tt
\* What stands before the new slot ends before it.
<1>6. ASSUME NEW m \in DOMAIN ss, m < k
      PROVE  End(ss[m]) <= e.at
  <2>1. m \in Nat /\ k # 1 /\ k - 1 \in DOMAIN ss
    BY <1>2, <1>5, <1>6
  <2>2. e.at = End(ss[k - 1])
    BY <2>1 DEF EndBefore
  <2>3. CASE m = k - 1
    BY <2>2, <2>3, <1>4, <2>1
  <2>4. CASE m # k - 1
    <3>1. m < k - 1
      BY <2>1, <2>4, <1>5, <1>6
    <3>2. End(ss[m]) <= ss[k - 1].at
      BY <2>1, <3>1 DEF Apart
    <3> QED
      BY <2>1, <2>2, <3>2, <1>4
  <2> QED
    BY <2>3, <2>4
\* What stands behind it starts behind it.
<1>7. ASSUME NEW m \in DOMAIN ss, k <= m
      PROVE  End(e) <= ss[m].at
  <2>1. m \in Nat /\ k \in DOMAIN ss /\ End(e) <= ss[k].at
    BY <1>2, <1>5, <1>7
  <2>2. CASE m = k
    BY <2>1, <2>2
  <2>3. CASE m # k
    <3>1. k < m
      BY <2>1, <2>3, <1>5, <1>7
    <3>2. End(ss[k]) <= ss[m].at
      BY <2>1, <3>1 DEF Apart
    <3> QED
      BY <2>1, <3>2, <1>1, <1>4
  <2> QED
    BY <2>2, <2>3
<1> SUFFICES ASSUME NEW m \in DOMAIN tt, NEW n \in DOMAIN tt, m < n
             PROVE  End(tt[m]) <= tt[n].at
  BY DEF Apart, tt
<1>8. m \in Nat /\ n \in Nat
  BY <1>3
<1>9. CASE n < k
  <2>1. m \in DOMAIN ss /\ n \in DOMAIN ss /\ tt[m] = ss[m] /\ tt[n] = ss[n]
    BY <1>3, <1>5, <1>8, <1>9
  <2> QED
    BY <2>1 DEF Apart
<1>10. CASE n = k
  <2>1. m \in DOMAIN ss /\ tt[m] = ss[m] /\ tt[n] = e
    BY <1>3, <1>5, <1>8, <1>10
  <2> QED
    BY <2>1, <1>6, <1>10
<1>11. CASE k < n
  <2>1. n - 1 \in DOMAIN ss /\ tt[n] = ss[n - 1]
    BY <1>3, <1>5, <1>8, <1>11
  <2>2. CASE m < k
    <3>1. m \in DOMAIN ss /\ tt[m] = ss[m] /\ m < n - 1
      BY <1>3, <1>5, <1>8, <1>11, <2>2
    <3> QED
      BY <2>1, <3>1 DEF Apart
  <2>3. CASE m = k
    <3>1. tt[m] = e /\ k <= n - 1
      BY <1>3, <1>5, <1>8, <1>11, <2>3
    <3> QED
      BY <2>1, <3>1, <1>7
  <2>4. CASE k < m
    <3>1. m - 1 \in DOMAIN ss /\ tt[m] = ss[m - 1] /\ m - 1 < n - 1
      BY <1>3, <1>5, <1>8, <1>11, <2>4
    <3> QED
      BY <2>1, <3>1 DEF Apart
  <2> QED
    BY <1>5, <1>8, <2>2, <2>3, <2>4
<1> QED
  BY <1>5, <1>8, <1>9, <1>10, <1>11

\* Releasing a group keeps the slots apart.
LEMMA WithoutApart ==
  ASSUME NEW ss \in Seq(Slot), Apart(ss), NEW gid
  PROVE  Apart(Without(ss, gid))
<1> DEFINE v == Without(ss, gid)
<1>1. \A i, j \in DOMAIN v : i < j =>
         \E l, m \in DOMAIN ss : l < m /\ v[i] = ss[l] /\ v[j] = ss[m]
  BY WithoutIs
<1> HIDE DEF v
<1> SUFFICES ASSUME NEW i \in DOMAIN v, NEW j \in DOMAIN v, i < j
             PROVE  End(v[i]) <= v[j].at
  BY DEF Apart, v
<1>2. PICK l \in DOMAIN ss, m \in DOMAIN ss : l < m /\ v[i] = ss[l] /\ v[j] = ss[m]
  BY <1>1
<1> QED
  BY <1>2 DEF Apart

\* A new slot is its group's, and nobody else's.
LEMMA OwnInsert ==
  ASSUME NEW ss \in Seq(Slot), NEW k \in 1 .. Len(ss) + 1, NEW e \in Slot, NEW g
  PROVE  OwnIn(InsertAt(ss, k, e), g) = IF e.gid = g THEN OwnIn(ss, g) \cup {e} ELSE OwnIn(ss, g)
<1> DEFINE tt == InsertAt(ss, k, e)
<1>1. /\ \A m \in DOMAIN tt :
              \/ m < k /\ m \in DOMAIN ss /\ tt[m] = ss[m]
              \/ m = k /\ tt[m] = e
              \/ k < m /\ m - 1 \in DOMAIN ss /\ tt[m] = ss[m - 1]
      /\ \A m \in DOMAIN ss : \E n \in DOMAIN tt : tt[n] = ss[m]
      /\ k \in DOMAIN tt /\ tt[k] = e
  BY InsertAtIs
<1> HIDE DEF tt
<1>3. \A m \in DOMAIN tt : (\E n \in DOMAIN ss : tt[m] = ss[n]) \/ tt[m] = e
  BY <1>1
<1>2. \A s : s \in OwnIn(tt, g) <=> s \in (IF e.gid = g THEN OwnIn(ss, g) \cup {e} ELSE OwnIn(ss, g))
  <2> SUFFICES ASSUME NEW s
               PROVE  s \in OwnIn(tt, g) <=>
                        s \in (IF e.gid = g THEN OwnIn(ss, g) \cup {e} ELSE OwnIn(ss, g))
    OBVIOUS
  <2>1. s \in OwnIn(tt, g) <=> s.gid = g /\ \E n \in DOMAIN tt : tt[n] = s
    BY DEF OwnIn
  <2>2. s \in OwnIn(ss, g) <=> s.gid = g /\ \E n \in DOMAIN ss : ss[n] = s
    BY DEF OwnIn
  <2>3. (\E n \in DOMAIN tt : tt[n] = s) <=> (s = e \/ \E n \in DOMAIN ss : ss[n] = s)
    BY <1>1, <1>3
  <2> QED
    BY <2>1, <2>2, <2>3
<1> QED
  BY <1>2 DEF tt

\* Releasing a group takes nobody else's slots.
LEMMA OwnWithout ==
  ASSUME NEW ss \in Seq(Slot), NEW gid, NEW g, g # gid
  PROVE  OwnIn(Without(ss, gid), g) = OwnIn(ss, g)
<1> DEFINE v == Without(ss, gid)
<1>1. /\ \A i \in DOMAIN v : \E m \in DOMAIN ss : v[i] = ss[m] /\ ss[m].gid # gid
      /\ \A m \in DOMAIN ss : ss[m].gid # gid => \E i \in DOMAIN v : v[i] = ss[m]
  BY WithoutIs
<1> HIDE DEF v
<1>2. \A s : s \in OwnIn(v, g) <=> s \in OwnIn(ss, g)
  <2> SUFFICES ASSUME NEW s
               PROVE  s \in OwnIn(v, g) <=> s \in OwnIn(ss, g)
    OBVIOUS
  <2>1. s \in OwnIn(v, g) <=> s.gid = g /\ \E n \in DOMAIN v : v[n] = s
    BY DEF OwnIn
  <2>2. s \in OwnIn(ss, g) <=> s.gid = g /\ \E n \in DOMAIN ss : ss[n] = s
    BY DEF OwnIn
  <2> QED
    BY <1>1, <2>1, <2>2
<1> QED
  BY <1>2 DEF v

\* The slots of a table belong to the groups of G.
OwnedBy(ss, G) == \A n \in DOMAIN ss : ss[n].gid \in G

LEMMA InsertOwned ==
  ASSUME NEW ss \in Seq(Slot), NEW k \in 1 .. Len(ss) + 1, NEW e, NEW G, OwnedBy(ss, G), e.gid \in G
  PROVE  OwnedBy(InsertAt(ss, k, e), G)
<1> DEFINE tt == InsertAt(ss, k, e)
<1>1. \A m \in DOMAIN tt : (\E n \in DOMAIN ss : tt[m] = ss[n]) \/ tt[m] = e
  BY InsertAtIs
<1> HIDE DEF tt
<1> QED
  BY <1>1 DEF OwnedBy, tt

LEMMA WithoutOwned ==
  ASSUME NEW ss \in Seq(Slot), NEW gid, NEW G, OwnedBy(ss, G)
  PROVE  OwnedBy(Without(ss, gid), G \ {gid})
<1> DEFINE v == Without(ss, gid)
<1>1. \A i \in DOMAIN v : \E m \in DOMAIN ss : v[i] = ss[m] /\ ss[m].gid # gid
  BY WithoutIs
<1> HIDE DEF v
<1> QED
  BY <1>1 DEF OwnedBy, v

-----------------------------------------------------------------------------
(* The inductive invariant.                                                *)

\* A group runs once, and only a running group is fresh.
GroupsOK ==
  /\ nextId >= 1
  /\ mounted \subseteq 1 .. nextId - 1
  /\ Running \subseteq mounted /\ fresh \subseteq Running
  /\ \A d, e \in DOMAIN stack : stack[d].gid = stack[e].gid => d = e

\* Where the slot of the n-th call ends.
After(slotOf, n) == IF n = 0 THEN 0 ELSE slotOf[n].off + slotOf[n].size

\* slotOf answers the first c calls, with every slot of own.
Answers(slotOf, own, c) ==
  /\ \A n \in 1 .. c : slotOf[n].off = After(slotOf, n - 1)
  /\ \A m, n \in 1 .. c : m < n => slotOf[m].off < slotOf[n].off
  /\ \A s \in own : \E n \in 1 .. c : slotOf[n] = s

\* The body of g, where it runs, is where those slots end: behind the last
\* of them the first time, behind some of them later.
InStep(slotOf, g, c) ==
  /\ g \notin fresh => c = Calls
  /\ \A d \in DOMAIN stack : stack[d].gid = g =>
       /\ stack[d].call <= c
       /\ stack[d].off = After(slotOf, stack[d].call)
       /\ g \in fresh => stack[d].call = c

RecallOf(g) ==
  \E c \in 0 .. Calls : \E slotOf \in [1 .. c -> Own(g)] :
    Answers(slotOf, Own(g), c) /\ InStep(slotOf, g, c)

RecallOK == \A g \in mounted \ broken : RecallOf(g)

StoppedOK == stopped => Top.gid \in broken

Inv == TypeOK /\ GroupsOK /\ SlotsDisjoint /\ RecallOK /\ StoppedOK

\* SlotsDisjoint, in parts.
LEMMA DisjointIs ==
  SlotsDisjoint <=> Apart(slots) /\ OwnedBy(slots, mounted) /\ used = Bytes(slots, 1 .. MaxIds)
  BY DEF SlotsDisjoint, Apart, OwnedBy

LEMMA OwnIs ==
  ASSUME NEW g
  PROVE  Own(g) = OwnIn(slots, g)
  BY DEF Own, OwnIn

-----------------------------------------------------------------------------
(* Frames and hooks.                                                       *)

\* The running body.
LEMMA TopIs ==
  ASSUME TypeOK, GroupsOK, stack # <<>>
  PROVE  /\ Len(stack) \in DOMAIN stack /\ Len(stack) \in Nat /\ Len(stack) > 0
         /\ Top = stack[Len(stack)] /\ Top \in Frame
         /\ Top.gid \in 1 .. MaxIds /\ Top.off \in Nat /\ Top.call \in 0 .. Calls
         /\ Top.gid \in mounted /\ Top.gid \in Running /\ keyOf[Top.gid] \in Keys
<1>1. stack \in Seq(Frame) /\ keyOf \in [mounted -> Keys]
  BY DEF TypeOK
<1>2. Len(stack) \in DOMAIN stack /\ Len(stack) \in Nat /\ Len(stack) > 0 /\ stack[Len(stack)] \in Frame
  BY <1>1
<1>3. Top = stack[Len(stack)]
  BY DEF Top
<1>4. Top.gid \in 1 .. MaxIds /\ Top.off \in Nat /\ Top.call \in 0 .. Calls
  BY <1>2, <1>3 DEF Frame
<1>5. Top.gid \in Running
  BY <1>2, <1>3 DEF Running
<1>6. Top.gid \in mounted
  BY <1>5 DEF GroupsOK
<1>7. keyOf[Top.gid] \in Keys
  BY <1>1, <1>6
<1> QED
  BY <1>2, <1>3, <1>4, <1>5, <1>6, <1>7

\* The size the running body asks for.
LEMMA WantedIs ==
  ASSUME TypeOK, GroupsOK, Calling
  PROVE  /\ stack # <<>> /\ ~stopped /\ Top.call + 1 \in 1 .. Calls /\ Top.call < Calls
         /\ Wanted \in Sizes /\ Wanted \in Nat
<1>1. stack # <<>> /\ ~stopped /\ Top.call < Calls
  BY DEF Calling
<1>2. Top.call \in 0 .. Calls /\ keyOf[Top.gid] \in Keys
  BY <1>1, TopIs
<1>3. Top.call + 1 \in 1 .. Calls
  BY <1>1, <1>2, ConstantTypes
<1>4. Wanted \in Sizes
  BY <1>2, <1>3 DEF Wanted, TypeOK
<1> QED
  BY <1>1, <1>3, <1>4, ConstantTypes

\* What a call does to the frame of its body.
LEMMA AdvancedIs ==
  ASSUME NEW f \in Frame, NEW taken \in Nat
  PROVE  /\ Advanced(f, taken).gid = f.gid
         /\ Advanced(f, taken).call = f.call + 1
         /\ Advanced(f, taken).off = f.off + taken
         /\ Advanced(f, taken) = [gid |-> f.gid, off |-> f.off + taken, call |-> f.call + 1]
  BY DEF Advanced

\* A call moves the frame of the running body, and no other.
LEMMA CalledIs ==
  ASSUME TypeOK, GroupsOK, Calling, NEW taken \in Nat, stack' = Called(taken)
  PROVE  /\ stack' \in Seq(Frame) /\ Len(stack') = Len(stack) /\ DOMAIN stack' = DOMAIN stack
         /\ \A d \in DOMAIN stack : d # Len(stack) => stack'[d] = stack[d]
         /\ stack'[Len(stack)].gid = Top.gid
         /\ stack'[Len(stack)].call = Top.call + 1
         /\ stack'[Len(stack)].off = Top.off + taken
         /\ Running' = Running
<1> DEFINE L == Len(stack)
           frame == Advanced(Top, taken)
<1>1. /\ L \in DOMAIN stack /\ Top = stack[L] /\ Top \in Frame
      /\ Top.gid \in 1 .. MaxIds /\ Top.off \in Nat /\ Top.call + 1 \in 0 .. Calls
  <2>1. Top.call + 1 \in 1 .. Calls
    BY WantedIs
  <2>2. Top.call + 1 \in 0 .. Calls
    BY <2>1, ConstantTypes
  <2> QED
    BY <2>2, TopIs, WantedIs
<1>2. /\ frame.gid = Top.gid /\ frame.call = Top.call + 1 /\ frame.off = Top.off + taken
      /\ frame = [gid |-> Top.gid, off |-> Top.off + taken, call |-> Top.call + 1]
  BY <1>1, AdvancedIs
<1>3. frame \in Frame
  BY <1>1, <1>2 DEF Frame
<1> HIDE DEF frame
<1>4. stack' = [stack EXCEPT ![L] = frame]
  BY <1>1 DEF Called, frame
<1>5. stack \in Seq(Frame)
  BY DEF TypeOK
<1> HIDE DEF L
<1>6. /\ stack' \in Seq(Frame) /\ Len(stack') = Len(stack) /\ DOMAIN stack' = DOMAIN stack
      /\ \A d \in DOMAIN stack : d # L => stack'[d] = stack[d]
      /\ stack'[L] = frame
  BY <1>1, <1>3, <1>4, <1>5
<1>7. Running' = Running
  <2>1. \A d \in DOMAIN stack : stack'[d].gid = stack[d].gid
    BY <1>1, <1>2, <1>6
  <2> QED
    BY <1>6, <2>1 DEF Running
<1> QED
  BY <1>2, <1>6, <1>7 DEF L

\* A body is entered above the running one.
LEMMA EnterIs ==
  ASSUME TypeOK, NEW gid \in 1 .. MaxIds, Enter(gid)
  PROVE  /\ stack' \in Seq(Frame) /\ Len(stack') = Len(stack) + 1 /\ Len(stack) \in Nat
         /\ DOMAIN stack' = 1 .. Len(stack) + 1 /\ DOMAIN stack = 1 .. Len(stack)
         /\ \A d \in DOMAIN stack : stack'[d] = stack[d]
         /\ stack'[Len(stack) + 1].gid = gid
         /\ stack'[Len(stack) + 1].off = 0
         /\ stack'[Len(stack) + 1].call = 0
         /\ Running' = Running \cup {gid}
<1> DEFINE frame == [gid |-> gid, off |-> 0, call |-> 0]
           L == Len(stack)
<1>1. frame \in Frame /\ frame.gid = gid /\ frame.off = 0 /\ frame.call = 0
  BY ConstantTypes DEF Frame
<1>2. stack' = Append(stack, frame) /\ stack \in Seq(Frame)
  BY DEF Enter, TypeOK
<1> HIDE DEF frame
<1>3. /\ stack' \in Seq(Frame) /\ Len(stack') = L + 1 /\ L \in Nat
      /\ DOMAIN stack' = 1 .. L + 1 /\ DOMAIN stack = 1 .. L
      /\ \A d \in DOMAIN stack : stack'[d] = stack[d]
      /\ stack'[L + 1] = frame
  BY <1>1, <1>2
<1> HIDE DEF L
<1>4. \A d \in 1 .. L + 1 : d \in 1 .. L \/ d = L + 1
  BY <1>3
<1>5. L + 1 \in 1 .. L + 1 /\ \A d \in 1 .. L : d \in 1 .. L + 1
  BY <1>3
<1>6. Running' = Running \cup {gid}
  <2>1. \A d \in DOMAIN stack' : stack'[d].gid \in Running \cup {gid}
    BY <1>1, <1>3, <1>4 DEF Running
  <2>2. \A d \in DOMAIN stack : stack[d].gid \in Running'
    BY <1>3, <1>5 DEF Running
  <2>3. gid \in Running'
    BY <1>1, <1>3, <1>5 DEF Running
  <2>4. Running' \subseteq Running \cup {gid}
    BY <2>1 DEF Running
  <2>5. Running \subseteq Running'
    <3> HIDE <2>1
    <3>1. \A x \in Running : \E d \in DOMAIN stack : x = stack[d].gid
      BY DEF Running
    <3> QED
      BY <2>2, <3>1
  <2> QED
    BY <2>3, <2>4, <2>5
<1> QED
  BY <1>1, <1>3, <1>6 DEF L

\* The frame of a group that is entered is its only one.
LEMMA EnterFrames ==
  ASSUME TypeOK, GroupsOK, NEW gid \in 1 .. MaxIds, gid \notin Running, Enter(gid)
  PROVE  /\ stack' \in Seq(Frame) /\ Running' = Running \cup {gid}
         /\ \A d, e \in DOMAIN stack' : stack'[d].gid = stack'[e].gid => d = e
         /\ \A d \in DOMAIN stack' : stack'[d].gid = gid => stack'[d].call = 0 /\ stack'[d].off = 0
         /\ \A d \in DOMAIN stack' : stack'[d].gid # gid => \E e \in DOMAIN stack : stack'[d] = stack[e]
<1> DEFINE L == Len(stack)
<1>1. /\ stack' \in Seq(Frame) /\ L \in Nat
      /\ DOMAIN stack' = 1 .. L + 1 /\ DOMAIN stack = 1 .. L
      /\ \A d \in DOMAIN stack : stack'[d] = stack[d]
      /\ stack'[L + 1].gid = gid
      /\ stack'[L + 1].off = 0
      /\ stack'[L + 1].call = 0
      /\ Running' = Running \cup {gid}
  BY EnterIs
<1> HIDE DEF L
<1>2. \A d \in DOMAIN stack' : d \in DOMAIN stack \/ d = L + 1
  BY <1>1
<1>3. \A d \in DOMAIN stack : stack[d].gid # gid
  BY DEF Running
<1>4. \A d, e \in DOMAIN stack : stack[d].gid = stack[e].gid => d = e
  BY DEF GroupsOK
<1>5. \A d, e \in DOMAIN stack' : stack'[d].gid = stack'[e].gid => d = e
  BY <1>1, <1>2, <1>3, <1>4
<1>6. \A d \in DOMAIN stack' : stack'[d].gid = gid => stack'[d].call = 0 /\ stack'[d].off = 0
  BY <1>1, <1>2, <1>3
<1>7. \A d \in DOMAIN stack' : stack'[d].gid # gid => \E e \in DOMAIN stack : stack'[d] = stack[e]
  BY <1>1, <1>2
<1> QED
  BY <1>1, <1>5, <1>6, <1>7

\* The hook of the call being made.
LEMMA NewHookIs ==
  ASSUME TypeOK, GroupsOK, Calling
  PROVE  NewHook \in Hook
<1>1. Top.gid \in 1 .. MaxIds /\ keyOf[Top.gid] \in Keys /\ Top.call + 1 \in 1 .. Calls
  BY TopIs, WantedIs
<1>2. Me \in Instance
  BY <1>1 DEF Me, Instance
<1> QED
  BY <1>1, <1>2 DEF NewHook, Hook

LEMMA RegisteredIs ==
  ASSUME TypeOK, GroupsOK, Calling, NEW hs \in Seq(Hook), Len(hs) <= MaxHooks
  PROVE  Registered(hs) \in Seq(Hook) /\ Len(Registered(hs)) <= MaxHooks
<1>1. NewHook \in Hook
  BY NewHookIs
<1>2. CASE Len(hs) >= MaxHooks
  BY <1>2 DEF Registered
<1>3. CASE ~(Len(hs) >= MaxHooks)
  <2>1. Registered(hs) = Append(hs, NewHook)
    BY <1>3 DEF Registered
  <2>2. Append(hs, NewHook) \in Seq(Hook) /\ Len(Append(hs, NewHook)) = Len(hs) + 1
    BY <1>1
  <2>3. Len(hs) \in Nat /\ MaxHooks \in Nat
    BY ConstantTypes
  <2> QED
    BY <1>3, <2>1, <2>2, <2>3
<1> QED
  BY <1>2, <1>3

LEMMA UpdatedIs ==
  ASSUME TypeOK, GroupsOK, Calling
  PROVE  Updated(hooks) \in Seq(Hook) /\ Len(Updated(hooks)) <= MaxHooks
<1> DEFINE same == {n \in DOMAIN hooks : hooks[n].gid = Top.gid \/ hooks[n].key = keyOf[Top.gid]}
<1>1. hooks \in Seq(Hook) /\ Len(hooks) <= MaxHooks
  BY DEF TypeOK
<1>2. NewHook \in Hook
  BY NewHookIs
<1>3. same \in SUBSET Nat /\ same \subseteq DOMAIN hooks
  BY <1>1
<1>4. Updated(hooks) = IF same = {} THEN Registered(hooks) ELSE [hooks EXCEPT ![Least(same)] = NewHook]
  BY DEF Updated
<1> HIDE DEF same
<1>5. CASE same = {}
  BY <1>1, <1>4, <1>5, RegisteredIs
<1>6. CASE same # {}
  <2> DEFINE n == Least(same)
  <2>1. n \in DOMAIN hooks
    BY <1>3, <1>6, LeastOf
  <2> HIDE DEF n
  <2>2. [hooks EXCEPT ![n] = NewHook] \in Seq(Hook) /\ Len([hooks EXCEPT ![n] = NewHook]) = Len(hooks)
    BY <1>1, <1>2, <2>1
  <2> QED
    BY <1>1, <1>4, <1>6, <2>2 DEF n
<1> QED
  BY <1>5, <1>6

-----------------------------------------------------------------------------
(* What an action does not touch.                                          *)

\* A group whose slots and frame stay is remembered as before.
LEMMA RecallKept ==
  ASSUME NEW g, RecallOf(g), Own(g)' = Own(g), g \in fresh' <=> g \in fresh,
         \A d \in DOMAIN stack' : stack'[d].gid = g =>
           \E e \in DOMAIN stack : stack'[d] = stack[e]
  PROVE  RecallOf(g)'
<1>1. PICK c \in 0 .. Calls : \E slotOf \in [1 .. c -> Own(g)] :
            Answers(slotOf, Own(g), c) /\ InStep(slotOf, g, c)
  BY DEF RecallOf
<1>2. PICK slotOf \in [1 .. c -> Own(g)] : Answers(slotOf, Own(g), c) /\ InStep(slotOf, g, c)
  BY <1>1
<1>3. InStep(slotOf, g, c)'
  <2> SUFFICES ASSUME NEW d \in DOMAIN stack', stack'[d].gid = g
               PROVE  /\ stack'[d].call <= c
                      /\ stack'[d].off = After(slotOf, stack'[d].call)
                      /\ g \in fresh => stack'[d].call = c
    BY <1>2 DEF InStep, After
  <2>1. PICK e \in DOMAIN stack : stack'[d] = stack[e]
    OBVIOUS
  <2> QED
    BY <1>2, <2>1 DEF InStep
<1>4. Answers(slotOf, Own(g)', c)
  BY <1>2
<1>5. slotOf \in [1 .. c -> Own(g)']
  BY <1>2
<1> HIDE DEF Answers, InStep
<1>6. (Answers(slotOf, Own(g), c))'
  BY <1>4 DEF Answers, After
<1> QED
  BY <1>3, <1>5, <1>6 DEF RecallOf

\* Nothing moves in the arena, and no group comes or goes.
LEMMA ArenaKept ==
  ASSUME SlotsDisjoint, slots' = slots, used' = used, mounted' = mounted
  PROVE  SlotsDisjoint'
  BY DEF SlotsDisjoint, Bytes, BytesUpTo, End

\* Only a session that has not stopped moves.
LEMMA StoppedKept ==
  ASSUME ~stopped, stopped' = stopped
  PROVE  StoppedOK'
  BY DEF StoppedOK

-----------------------------------------------------------------------------
(* The actions on groups.                                                  *)

\* At first nothing is mounted.
LEMMA InitInv ==
  ASSUME Init
  PROVE  Inv
<1>1. /\ keyOf = <<>> /\ fresh = {} /\ nextId = 1 /\ stack = <<>> /\ slots = <<>> /\ used = 0
      /\ top = ArenaSize /\ hooks = <<>> /\ sizeOf \in [Keys -> [1 .. Calls -> Sizes]]
      /\ reloads = 0 /\ stopped = FALSE /\ broken = {}
  BY DEF Init
<1>2. mounted = {} /\ DOMAIN stack = {} /\ DOMAIN slots = {}
  BY <1>1 DEF mounted
<1>3. TypeOK
  <2>1. keyOf \in [mounted -> Keys]
    BY <1>1, <1>2 DEF mounted
  <2>2. slots \in Seq(Slot) /\ Len(slots) <= MaxSlots /\ hooks \in Seq(Hook) /\ Len(hooks) <= MaxHooks
    BY <1>1, ConstantTypes
  <2>3. stack \in Seq(Frame)
    BY <1>1
  <2>4. used \in Nat /\ top \in 0 .. ArenaSize /\ reloads \in 0 .. MaxReloads /\ nextId \in Nat
    BY <1>1, ConstantTypes
  <2> QED
    BY <1>1, <1>2, <2>1, <2>2, <2>3, <2>4 DEF TypeOK
<1>4. GroupsOK
  BY <1>1, <1>2 DEF GroupsOK, Running
<1>5. SlotsDisjoint
  <2> DEFINE none == <<>>
  <2>1. none \in Seq(Slot) /\ Len(none) = 0
    OBVIOUS
  <2> HIDE DEF none
  <2>2. Bytes(none, 1 .. MaxIds) = 0
    BY <2>1, BytesTurn DEF Bytes
  <2> QED
    BY <1>1, <1>2, <2>2 DEF SlotsDisjoint, none
<1>6. RecallOK
  BY <1>2 DEF RecallOK
<1>7. StoppedOK
  BY <1>1 DEF StoppedOK
<1> QED
  BY <1>3, <1>4, <1>5, <1>6, <1>7 DEF Inv

\* A group that was just mounted has made no call and holds no slot.
LEMMA RecallNone ==
  ASSUME SlotsDisjoint, NEW g, g \notin mounted, slots' = slots, g \in fresh',
         \A d \in DOMAIN stack' : stack'[d].gid = g => stack'[d].call = 0 /\ stack'[d].off = 0
  PROVE  RecallOf(g)'
<1> DEFINE none == [n \in 1 .. 0 |-> 0]
<1>1. Own(g)' = {}
  BY DEF Own, SlotsDisjoint
<1>2. none \in [1 .. 0 -> {}] /\ 0 \in 0 .. Calls
  BY ConstantTypes
<1>3. Answers(none, {}, 0)
  BY DEF Answers
<1>4. InStep(none, g, 0)'
  BY DEF InStep, After
<1> HIDE DEF none
<1>5. (Answers(none, Own(g), 0))'
  BY <1>1, <1>3 DEF Answers, After
<1> QED
  BY <1>1, <1>2, <1>4, <1>5 DEF RecallOf

\* CelsEnterComposable on a composable that was not there: nobody's calls
\* and slots move, and the new group has made none.
LEMMA MountInv ==
  ASSUME Inv, NEW k \in Keys, Mount(k)
  PROVE  Inv'
<1>1. TypeOK /\ GroupsOK /\ SlotsDisjoint /\ RecallOK
  BY DEF Inv
<1>2. /\ ~stopped /\ nextId <= MaxIds /\ fresh' = fresh \cup {nextId} /\ nextId' = nextId + 1
      /\ keyOf' = [g \in mounted \cup {nextId} |-> IF g = nextId THEN k ELSE keyOf[g]]
      /\ Enter(nextId)
      /\ slots' = slots /\ used' = used /\ top' = top /\ hooks' = hooks
      /\ sizeOf' = sizeOf /\ reloads' = reloads /\ stopped' = stopped /\ broken' = broken
  BY DEF Mount, arena, code
<1>3. mounted' = mounted \cup {nextId}
  BY <1>2 DEF mounted
<1>4. /\ nextId \in Nat /\ nextId >= 1 /\ mounted \subseteq 1 .. MaxIds /\ mounted \subseteq 1 .. nextId - 1
      /\ Running \subseteq mounted /\ fresh \subseteq Running /\ broken \subseteq mounted
  BY <1>1 DEF TypeOK, GroupsOK
<1>5. nextId \in 1 .. MaxIds /\ nextId \notin mounted /\ nextId \notin Running
  BY <1>2, <1>4, ConstantTypes
<1>6. /\ stack' \in Seq(Frame) /\ Running' = Running \cup {nextId}
      /\ \A d, e \in DOMAIN stack' : stack'[d].gid = stack'[e].gid => d = e
      /\ \A d \in DOMAIN stack' : stack'[d].gid = nextId => stack'[d].call = 0 /\ stack'[d].off = 0
      /\ \A d \in DOMAIN stack' : stack'[d].gid # nextId => \E e \in DOMAIN stack : stack'[d] = stack[e]
  BY <1>1, <1>2, <1>5, EnterFrames
<1>7. TypeOK'
  <2>1. keyOf' \in [mounted' -> Keys]
    <3>1. keyOf \in [mounted -> Keys]
      BY <1>1 DEF TypeOK
    <3>2. \A g \in mounted \cup {nextId} : (IF g = nextId THEN k ELSE keyOf[g]) \in Keys
      BY <3>1
    <3> QED
      BY <1>2, <1>3, <3>2
  <2>2. mounted' \subseteq 1 .. MaxIds /\ fresh' \subseteq mounted' /\ broken' \subseteq mounted' /\ nextId' \in Nat
    BY <1>2, <1>3, <1>4, <1>5
  <2> QED
    BY <1>1, <1>2, <1>6, <2>1, <2>2 DEF TypeOK
<1>8. GroupsOK'
  <2>1. nextId' >= 1 /\ mounted' \subseteq 1 .. nextId' - 1
    BY <1>2, <1>3, <1>4
  <2>2. Running' \subseteq mounted' /\ fresh' \subseteq Running'
    BY <1>2, <1>3, <1>4, <1>6
  <2> QED
    BY <1>6, <2>1, <2>2 DEF GroupsOK
<1>9. SlotsDisjoint'
  BY <1>1, <1>2, <1>3 DEF SlotsDisjoint, Bytes, BytesUpTo, End
<1>10. RecallOK'
  <2>1. \A g : Own(g)' = Own(g)
    BY <1>2 DEF Own
  <2> SUFFICES ASSUME NEW g \in mounted', g \notin broken'
               PROVE  RecallOf(g)'
    BY DEF RecallOK
  <2>2. CASE g = nextId
    <3>1. g \notin mounted /\ slots' = slots /\ g \in fresh'
      BY <1>2, <1>5, <2>2
    <3>2. \A d \in DOMAIN stack' : stack'[d].gid = g => stack'[d].call = 0 /\ stack'[d].off = 0
      BY <1>6, <2>2
    <3> QED
      BY <1>1, <3>1, <3>2, RecallNone
  <2>3. CASE g # nextId
    <3>1. RecallOf(g)
      BY <1>1, <1>2, <1>3, <2>3 DEF RecallOK
    <3>2. g \in fresh' <=> g \in fresh
      BY <1>2, <2>3
    <3>3. \A d \in DOMAIN stack' : stack'[d].gid = g => \E e \in DOMAIN stack : stack'[d] = stack[e]
      BY <1>6, <2>3
    <3> QED
      BY <2>1, <3>1, <3>2, <3>3, RecallKept
  <2> QED
    BY <2>2, <2>3
<1>11. StoppedOK'
  BY <1>2 DEF StoppedOK
<1> QED
  BY <1>7, <1>8, <1>9, <1>10, <1>11 DEF Inv

\* CelsEnterComposable on a mounted group: its body starts over, in front of
\* its first slot.
LEMMA RerunInv ==
  ASSUME Inv, NEW gid \in 1 .. MaxIds, Rerun(gid)
  PROVE  Inv'
<1>1. TypeOK /\ GroupsOK /\ SlotsDisjoint /\ RecallOK
  BY DEF Inv
<1>2. /\ ~stopped /\ gid \in mounted /\ gid \notin Running /\ Enter(gid)
      /\ keyOf' = keyOf /\ fresh' = fresh /\ nextId' = nextId
      /\ slots' = slots /\ used' = used /\ top' = top /\ hooks' = hooks
      /\ sizeOf' = sizeOf /\ reloads' = reloads /\ stopped' = stopped /\ broken' = broken
  BY DEF Rerun, groupVars, arena, code
<1>3. mounted' = mounted
  BY <1>2 DEF mounted
<1>4. /\ stack' \in Seq(Frame) /\ Running' = Running \cup {gid}
      /\ \A d, e \in DOMAIN stack' : stack'[d].gid = stack'[e].gid => d = e
      /\ \A d \in DOMAIN stack' : stack'[d].gid = gid => stack'[d].call = 0 /\ stack'[d].off = 0
      /\ \A d \in DOMAIN stack' : stack'[d].gid # gid => \E e \in DOMAIN stack : stack'[d] = stack[e]
  BY <1>1, <1>2, EnterFrames
<1>5. TypeOK'
  BY <1>1, <1>2, <1>3, <1>4 DEF TypeOK
<1>6. GroupsOK'
  BY <1>1, <1>2, <1>3, <1>4 DEF GroupsOK
<1>7. SlotsDisjoint'
  BY <1>1, <1>2, <1>3, ArenaKept
<1>8. RecallOK'
  <2>1. \A g : Own(g)' = Own(g)
    BY <1>2 DEF Own
  <2> SUFFICES ASSUME NEW g \in mounted, g \notin broken
               PROVE  RecallOf(g)'
    BY <1>2, <1>3 DEF RecallOK
  <2>2. RecallOf(g)
    BY <1>1 DEF RecallOK
  <2>3. CASE g # gid
    <3>1. \A d \in DOMAIN stack' : stack'[d].gid = g => \E e \in DOMAIN stack : stack'[d] = stack[e]
      BY <1>4, <2>3
    <3> QED
      BY <1>2, <2>1, <2>2, <3>1, RecallKept
  <2>4. CASE g = gid
    <3>1. g \notin fresh
      BY <1>1, <1>2, <2>4 DEF GroupsOK
    <3>2. PICK c \in 0 .. Calls : \E slotOf \in [1 .. c -> Own(g)] :
                Answers(slotOf, Own(g), c) /\ InStep(slotOf, g, c)
      BY <2>2 DEF RecallOf
    <3>3. PICK slotOf \in [1 .. c -> Own(g)] : Answers(slotOf, Own(g), c) /\ InStep(slotOf, g, c)
      BY <3>2
    <3>4. InStep(slotOf, g, c)'
      <4>1. \A d \in DOMAIN stack' : stack'[d].gid = g => stack'[d].call = 0 /\ stack'[d].off = 0
        BY <1>4, <2>4
      <4>2. c = Calls /\ 0 <= c /\ g \notin fresh'
        BY <1>2, <3>1, <3>3 DEF InStep
      <4> QED
        BY <4>1, <4>2 DEF InStep, After
    <3>5. Answers(slotOf, Own(g)', c) /\ slotOf \in [1 .. c -> Own(g)']
      BY <2>1, <3>3
    <3>6. (Answers(slotOf, Own(g), c))'
      BY <3>5 DEF Answers, After
    <3> HIDE DEF Answers, InStep
    <3> QED
      BY <3>4, <3>5, <3>6 DEF RecallOf
  <2> QED
    BY <2>3, <2>4
<1>9. StoppedOK'
  BY <1>2 DEF StoppedOK
<1> QED
  BY <1>5, <1>6, <1>7, <1>8, <1>9 DEF Inv

\* CelsExitGroup: a body that has made all its calls has a slot for each.
LEMMA ExitInv ==
  ASSUME Inv, Exit
  PROVE  Inv'
<1> DEFINE top0 == Top.gid
           L == Len(stack)
<1>1. TypeOK /\ GroupsOK /\ SlotsDisjoint /\ RecallOK
  BY DEF Inv
<1>2. /\ ~stopped /\ stack # <<>> /\ Top.call = Calls
      /\ fresh' = fresh \ {top0} /\ stack' = SubSeq(stack, 1, L - 1)
      /\ keyOf' = keyOf /\ nextId' = nextId
      /\ slots' = slots /\ used' = used /\ top' = top /\ hooks' = hooks
      /\ sizeOf' = sizeOf /\ reloads' = reloads /\ stopped' = stopped /\ broken' = broken
  BY DEF Exit, arena, code
<1>3. mounted' = mounted
  BY <1>2 DEF mounted
<1>4. /\ L \in DOMAIN stack /\ L \in Nat /\ L > 0 /\ Top = stack[L]
      /\ stack \in Seq(Frame) /\ DOMAIN stack = 1 .. L
  BY <1>1, <1>2, TopIs DEF TypeOK
<1>5. /\ stack' \in Seq(Frame) /\ DOMAIN stack' = 1 .. L - 1
      /\ \A d \in 1 .. L - 1 : stack'[d] = stack[d]
  BY <1>2, <1>4
<1> HIDE DEF top0, L
<1>6. \A d \in DOMAIN stack' : d \in DOMAIN stack /\ d # L /\ stack'[d] = stack[d] /\ stack'[d].gid # top0
  <2>1. \A d \in DOMAIN stack' : d \in DOMAIN stack /\ d # L /\ stack'[d] = stack[d]
    BY <1>4, <1>5
  <2>2. \A d \in DOMAIN stack : stack[d].gid = stack[L].gid => d = L
    BY <1>1, <1>4 DEF GroupsOK
  <2> QED
    BY <1>4, <2>1, <2>2 DEF top0
<1>7. TypeOK'
  <2>1. fresh' \subseteq mounted'
    BY <1>1, <1>2, <1>3 DEF TypeOK
  <2> QED
    BY <1>1, <1>2, <1>3, <1>5, <2>1 DEF TypeOK
<1>8. GroupsOK'
  <2>1. Running' \subseteq Running
    BY <1>6 DEF Running
  <2>2. \A g \in Running : g # top0 => g \in Running'
    <3> SUFFICES ASSUME NEW g \in Running, g # top0
                 PROVE  g \in Running'
      OBVIOUS
    <3>1. PICK d \in DOMAIN stack : g = stack[d].gid
      BY DEF Running
    <3>2. d # L
      BY <1>4, <3>1 DEF top0
    <3>3. d \in 1 .. L - 1
      BY <1>4, <3>2
    <3>4. d \in DOMAIN stack' /\ g = stack'[d].gid
      BY <1>5, <3>1, <3>3
    <3> QED
      BY <3>4 DEF Running
  <2>3. fresh' \subseteq Running' /\ Running' \subseteq mounted'
    BY <1>1, <1>2, <1>3, <2>1, <2>2 DEF GroupsOK
  <2>4. \A d, e \in DOMAIN stack' : stack'[d].gid = stack'[e].gid => d = e
    BY <1>1, <1>6 DEF GroupsOK
  <2> QED
    BY <1>1, <1>2, <1>3, <2>3, <2>4 DEF GroupsOK
<1>9. SlotsDisjoint'
  BY <1>1, <1>2, <1>3, ArenaKept
<1>10. RecallOK'
  <2>1. \A g : Own(g)' = Own(g)
    BY <1>2 DEF Own
  <2> SUFFICES ASSUME NEW g \in mounted, g \notin broken
               PROVE  RecallOf(g)'
    BY <1>2, <1>3 DEF RecallOK
  <2>2. RecallOf(g)
    BY <1>1 DEF RecallOK
  <2>3. CASE g # top0
    <3>1. \A d \in DOMAIN stack' : stack'[d].gid = g => \E e \in DOMAIN stack : stack'[d] = stack[e]
      BY <1>6
    <3>2. g \in fresh' <=> g \in fresh
      BY <1>2, <2>3
    <3> QED
      BY <2>1, <2>2, <3>1, <3>2, RecallKept
  <2>4. CASE g = top0
    <3>1. PICK c \in 0 .. Calls : \E slotOf \in [1 .. c -> Own(g)] :
                Answers(slotOf, Own(g), c) /\ InStep(slotOf, g, c)
      BY <2>2 DEF RecallOf
    <3>2. PICK slotOf \in [1 .. c -> Own(g)] : Answers(slotOf, Own(g), c) /\ InStep(slotOf, g, c)
      BY <3>1
    <3>3. c = Calls
      <4>1. stack[L].gid = g /\ stack[L].call = Calls
        BY <1>2, <1>4, <2>4 DEF top0
      <4> QED
        BY <1>4, <3>2, <4>1 DEF InStep
    <3>4. InStep(slotOf, g, c)'
      BY <1>2, <1>6, <2>4, <3>3 DEF InStep
    <3>5. Answers(slotOf, Own(g)', c) /\ slotOf \in [1 .. c -> Own(g)']
      BY <2>1, <3>2
    <3>6. (Answers(slotOf, Own(g), c))'
      BY <3>5 DEF Answers, After
    <3> HIDE DEF Answers, InStep
    <3> QED
      BY <3>4, <3>5, <3>6 DEF RecallOf
  <2> QED
    BY <2>3, <2>4
<1>11. StoppedOK'
  BY <1>2 DEF StoppedOK
<1> QED
  BY <1>7, <1>8, <1>9, <1>10, <1>11 DEF Inv

\* CelsPruneSubtree: the slots that stay are the other groups', and their
\* bytes are what is counted.
LEMMA PruneInv ==
  ASSUME Inv, NEW gid \in 1 .. MaxIds, Prune(gid)
  PROVE  Inv'
<1>1. TypeOK /\ GroupsOK /\ SlotsDisjoint /\ RecallOK
  BY DEF Inv
<1>2. /\ ~stopped /\ gid \in mounted /\ gid \notin Running
      /\ hooks' = Without(hooks, gid) /\ slots' = Without(slots, gid) /\ used' = used - BytesOf(gid)
      /\ keyOf' = [g \in mounted \ {gid} |-> keyOf[g]]
      /\ fresh' = fresh \ {gid} /\ broken' = broken \ {gid}
      /\ nextId' = nextId /\ stack' = stack /\ top' = top
      /\ sizeOf' = sizeOf /\ reloads' = reloads /\ stopped' = stopped
  BY DEF Prune, code
<1>3. mounted' = mounted \ {gid} /\ Running' = Running
  BY <1>2 DEF mounted, Running
<1>4. slots \in Seq(Slot) /\ hooks \in Seq(Hook) /\ Len(slots) <= MaxSlots /\ Len(hooks) <= MaxHooks
  BY <1>1 DEF TypeOK
<1>5. /\ slots' \in Seq(Slot) /\ Len(slots') <= Len(slots)
      /\ hooks' \in Seq(Hook) /\ Len(hooks') <= Len(hooks)
  BY <1>2, <1>4, WithoutIs
<1>6. used' \in Nat /\ used' = Bytes(slots', 1 .. MaxIds)
  BY <1>1, <1>2, <1>4, DisjointIs, BytesWithout DEF BytesOf
<1>7. TypeOK'
  <2>1. keyOf' \in [mounted' -> Keys]
    BY <1>1, <1>2, <1>3 DEF TypeOK
  <2>2. Len(slots') <= MaxSlots /\ Len(hooks') <= MaxHooks
    BY <1>4, <1>5, ConstantTypes
  <2>3. mounted' \subseteq 1 .. MaxIds /\ fresh' \subseteq mounted' /\ broken' \subseteq mounted'
    BY <1>1, <1>2, <1>3 DEF TypeOK
  <2> QED
    BY <1>1, <1>2, <1>5, <1>6, <2>1, <2>2, <2>3 DEF TypeOK
<1>8. GroupsOK'
  <2>1. Running' \subseteq mounted' /\ fresh' \subseteq Running' /\ mounted' \subseteq 1 .. nextId' - 1
    BY <1>1, <1>2, <1>3 DEF GroupsOK
  <2> QED
    BY <1>1, <1>2, <2>1 DEF GroupsOK
<1>9. SlotsDisjoint'
  <2>1. Apart(Without(slots, gid)) /\ OwnedBy(Without(slots, gid), mounted \ {gid})
    BY <1>1, <1>4, DisjointIs, WithoutApart, WithoutOwned
  <2>2. Apart(slots') /\ OwnedBy(slots', mounted')
    BY <1>2, <1>3, <2>1
  <2> QED
    BY <1>6, <2>2 DEF SlotsDisjoint, Apart, OwnedBy, End
<1>10. RecallOK'
  <2> SUFFICES ASSUME NEW g \in mounted', g \notin broken'
               PROVE  RecallOf(g)'
    BY DEF RecallOK
  <2>1. g \in mounted /\ g # gid /\ g \notin broken
    BY <1>2, <1>3
  <2>2. RecallOf(g)
    BY <1>1, <2>1 DEF RecallOK
  <2>3. Own(g)' = Own(g)
    <3>1. OwnIn(Without(slots, gid), g) = OwnIn(slots, g)
      BY <1>4, <2>1, OwnWithout
    <3>2. OwnIn(slots', g) = OwnIn(slots, g)
      BY <1>2, <3>1
    <3> QED
      BY <3>2 DEF Own, OwnIn
  <2>4. g \in fresh' <=> g \in fresh
    BY <1>2, <2>1
  <2>5. \A d \in DOMAIN stack' : stack'[d].gid = g => \E e \in DOMAIN stack : stack'[d] = stack[e]
    BY <1>2
  <2> QED
    BY <2>2, <2>3, <2>4, <2>5, RecallKept
<1>11. StoppedOK'
  BY <1>2 DEF StoppedOK
<1> QED
  BY <1>7, <1>8, <1>9, <1>10, <1>11 DEF Inv

\* A step that leaves groups, frames and slots alone.
LEMMA StepAside ==
  ASSUME Inv, ~stopped, TypeOK',
         UNCHANGED <<keyOf, fresh, nextId, stack, slots, used, stopped, broken>>
  PROVE  Inv'
<1>1. GroupsOK /\ SlotsDisjoint /\ RecallOK
  BY DEF Inv
<1>2. /\ mounted' = mounted /\ Running' = Running /\ broken' = broken /\ fresh' = fresh
      /\ stack' = stack /\ slots' = slots /\ used' = used /\ nextId' = nextId /\ stopped' = stopped
  BY DEF mounted, Running
<1>3. GroupsOK'
  BY <1>1, <1>2 DEF GroupsOK
<1>4. SlotsDisjoint'
  BY <1>1, <1>2, ArenaKept
<1>5. RecallOK'
  <2>1. \A g : Own(g)' = Own(g)
    BY <1>2 DEF Own
  <2> SUFFICES ASSUME NEW g \in mounted, g \notin broken
               PROVE  RecallOf(g)'
    BY <1>2 DEF RecallOK
  <2>2. RecallOf(g)
    BY <1>1 DEF RecallOK
  <2>3. \A d \in DOMAIN stack' : stack'[d].gid = g => \E e \in DOMAIN stack : stack'[d] = stack[e]
    BY <1>2
  <2> QED
    BY <1>2, <2>1, <2>2, <2>3, RecallKept
<1>6. StoppedOK'
  BY <1>2 DEF StoppedOK
<1> QED
  BY <1>3, <1>4, <1>5, <1>6 DEF Inv

\* CelsSessionAllocData: the bytes of the slots fit below the new end.
LEMMA AllocDataInv ==
  ASSUME Inv, NEW size \in BufferSizes, AllocData(size)
  PROVE  Inv'
<1>1. /\ ~stopped /\ used + size <= top /\ top' = top - size
      /\ UNCHANGED <<keyOf, fresh, nextId, stack, slots, used, stopped, broken>>
      /\ hooks' = hooks /\ sizeOf' = sizeOf /\ reloads' = reloads
  BY DEF AllocData, GapFits, groupVars, code
<1>2. TypeOK
  BY DEF Inv
<1>3. top' \in 0 .. ArenaSize
  <2>1. used \in Nat /\ top \in 0 .. ArenaSize
    BY <1>2 DEF TypeOK
  <2> QED
    BY <1>1, <2>1, ConstantTypes
<1>4. mounted' = mounted
  BY <1>1 DEF mounted
<1>5. TypeOK'
  BY <1>1, <1>2, <1>3, <1>4 DEF TypeOK
<1> QED
  BY <1>1, <1>5, StepAside

\* A hot reload: nothing runs, so nothing is fresh.
LEMMA HotReloadInv ==
  ASSUME Inv, HotReload
  PROVE  Inv'
<1>1. /\ stack = <<>> /\ ~stopped /\ reloads < MaxReloads /\ reloads' = reloads + 1
      /\ sizeOf' \in [Keys -> [1 .. Calls -> Sizes]] /\ fresh' = {}
      /\ keyOf' = keyOf /\ nextId' = nextId /\ stack' = stack /\ slots' = slots /\ used' = used
      /\ top' = top /\ hooks' = hooks /\ stopped' = stopped /\ broken' = broken
  BY DEF HotReload, arena
<1>2. TypeOK /\ GroupsOK
  BY DEF Inv
<1>3. fresh = {}
  <2>1. Running = {}
    BY <1>1 DEF Running
  <2> QED
    BY <1>2, <2>1 DEF GroupsOK
<1>4. reloads' \in 0 .. MaxReloads
  BY <1>1, <1>2, ConstantTypes DEF TypeOK
<1>5. mounted' = mounted
  BY <1>1 DEF mounted
<1>6. TypeOK'
  BY <1>1, <1>2, <1>3, <1>4, <1>5 DEF TypeOK
<1> QED
  BY <1>1, <1>3, <1>6, StepAside

-----------------------------------------------------------------------------
(* The calls of CelsResolveSlotWithCleanup.                                *)

\* The group whose body runs, and nobody else's frame, moves.
LEMMA CallFrames ==
  ASSUME TypeOK, GroupsOK, Calling, NEW taken \in Nat, stack' = Called(taken)
  PROVE  /\ stack' \in Seq(Frame) /\ Running' = Running
         /\ \A d, e \in DOMAIN stack' : stack'[d].gid = stack'[e].gid => d = e
         /\ \A d \in DOMAIN stack' : stack'[d].gid = Top.gid =>
              stack'[d].call = Top.call + 1 /\ stack'[d].off = Top.off + taken
         /\ \A d \in DOMAIN stack' : stack'[d].gid # Top.gid =>
              \E e \in DOMAIN stack : stack'[d] = stack[e]
         /\ stack'[Len(stack')].gid = Top.gid
<1> DEFINE L == Len(stack)
<1>1. /\ stack' \in Seq(Frame) /\ Len(stack') = L /\ DOMAIN stack' = DOMAIN stack
      /\ \A d \in DOMAIN stack : d # L => stack'[d] = stack[d]
      /\ stack'[L].gid = Top.gid
      /\ stack'[L].call = Top.call + 1
      /\ stack'[L].off = Top.off + taken
      /\ Running' = Running
  BY CalledIs
<1>2. L \in DOMAIN stack /\ Top = stack[L]
  BY WantedIs, TopIs
<1> HIDE DEF L
<1>3. \A d \in DOMAIN stack : stack'[d].gid = stack[d].gid
  BY <1>1, <1>2
<1>4. \A d, e \in DOMAIN stack : stack[d].gid = stack[e].gid => d = e
  BY DEF GroupsOK
<1>5. \A d, e \in DOMAIN stack' : stack'[d].gid = stack'[e].gid => d = e
  BY <1>1, <1>3, <1>4
<1>6. \A d \in DOMAIN stack' : stack'[d].gid = Top.gid => d = L
  BY <1>1, <1>2, <1>5
<1>7. \A d \in DOMAIN stack' : stack'[d].gid = Top.gid =>
        stack'[d].call = Top.call + 1 /\ stack'[d].off = Top.off + taken
  BY <1>1, <1>6
<1>8. \A d \in DOMAIN stack' : stack'[d].gid # Top.gid => \E e \in DOMAIN stack : stack'[d] = stack[e]
  BY <1>1
<1>9. stack'[Len(stack')].gid = Top.gid
  BY <1>1
<1> QED
  BY <1>1, <1>5, <1>7, <1>8, <1>9

\* A call keeps the groups, and makes nothing fresh but its own.
LEMMA CallGroups ==
  ASSUME TypeOK, GroupsOK, Calling, NEW taken \in Nat, stack' = Called(taken),
         keyOf' = keyOf, nextId' = nextId, fresh' \subseteq fresh \cup {Top.gid}
  PROVE  GroupsOK' /\ mounted' = mounted
<1>1. /\ Running' = Running
      /\ \A d, e \in DOMAIN stack' : stack'[d].gid = stack'[e].gid => d = e
  BY CallFrames
<1>2. Top.gid \in Running
  BY WantedIs, TopIs
<1>3. mounted' = mounted
  BY DEF mounted
<1>4. fresh' \subseteq Running' /\ Running' \subseteq mounted'
  BY <1>1, <1>2, <1>3 DEF GroupsOK
<1> QED
  BY <1>1, <1>3, <1>4 DEF GroupsOK

\* The other groups are remembered through a call.
LEMMA CallRecall ==
  ASSUME TypeOK, GroupsOK, Calling, NEW taken \in Nat, stack' = Called(taken),
         NEW g, RecallOf(g), g # Top.gid, Own(g)' = Own(g), g \in fresh' <=> g \in fresh
  PROVE  RecallOf(g)'
<1>1. \A d \in DOMAIN stack' : stack'[d].gid = g => \E e \in DOMAIN stack : stack'[d] = stack[e]
  <2>1. \A d \in DOMAIN stack' : stack'[d].gid # Top.gid => \E e \in DOMAIN stack : stack'[d] = stack[e]
    BY CallFrames
  <2> QED
    BY <2>1
<1> QED
  BY <1>1, RecallKept

\* Memory that is given: a slot more, apart from the others and counted.
LEMMA AllocatedIs ==
  ASSUME TypeOK, GroupsOK, Calling, NEW ss \in Seq(Slot), Apart(ss), OwnedBy(ss, mounted),
         NEW bytes, bytes = Bytes(ss, 1 .. MaxIds), bytes \in Nat,
         Len(ss) <= MaxSlots, NEW hs \in Seq(Hook), Len(hs) <= MaxHooks,
         Allocated(ss, bytes, hs)
  PROVE  /\ slots' \in Seq(Slot) /\ Len(slots') <= MaxSlots
         /\ Apart(slots') /\ OwnedBy(slots', mounted)
         /\ used' \in Nat /\ used' = Bytes(slots', 1 .. MaxIds)
         /\ hooks' \in Seq(Hook) /\ Len(hooks') <= MaxHooks
         /\ stack' = Called(Wanted)
         /\ \A m \in DOMAIN ss : \E n \in DOMAIN slots' : slots'[n] = ss[m]
         /\ \E e \in Slot :
              /\ e.gid = Top.gid /\ e.off = Top.off /\ e.size = Wanted
              /\ \A g : OwnIn(slots', g) =
                   IF Top.gid = g THEN OwnIn(ss, g) \cup {e} ELSE OwnIn(ss, g)
<1> DEFINE k == Insertion(ss, bytes, Wanted)
           e == NewSlot(ss, k)
<1>1. /\ ~Refused(ss, bytes, Wanted)
      /\ slots' = InsertAt(ss, k, e)
      /\ used' = bytes + Wanted
      /\ hooks' = Registered(hs)
      /\ stack' = Called(Wanted)
  BY DEF Allocated
<1>2. Wanted \in Sizes /\ Wanted \in Nat /\ stack # <<>>
  BY WantedIs
<1>3. Top.gid \in 1 .. MaxIds /\ Top.off \in Nat /\ Top.gid \in mounted
  BY <1>2, TopIs
<1>4. k \in 1 .. Len(ss) + 1 /\ EndBefore(ss, k) \in Nat
  BY <1>2, InsertionIs
<1>5. /\ e.gid = Top.gid /\ e.off = Top.off /\ e.at = EndBefore(ss, k) /\ e.size = Wanted
      /\ e \in Slot
  BY <1>2, <1>3, <1>4 DEF NewSlot, Slot
<1>6. Len(ss) < MaxSlots
  <2>1. ~(Len(ss) >= MaxSlots) /\ Len(ss) \in Nat /\ MaxSlots \in Nat
    BY <1>1, ConstantTypes DEF Refused
  <2> QED
    BY <2>1
<1>7. k = Insertion(ss, bytes, e.size)
  BY <1>5
<1> HIDE DEF k, e
<1>8. slots' \in Seq(Slot) /\ Len(slots') = Len(ss) + 1 /\ Bytes(slots', 1 .. MaxIds) = bytes + e.size
  <2>1. e.gid \in 1 .. MaxIds
    BY <1>3, <1>5
  <2> QED
    BY <1>1, <1>4, <1>5, <2>1, BytesInsertAt
<1>9. Len(slots') <= MaxSlots
  BY <1>6, <1>8, ConstantTypes
<1>10. Apart(InsertAt(ss, k, e)) /\ OwnedBy(InsertAt(ss, k, e), mounted)
  <2>1. Apart(InsertAt(ss, k, e))
    BY <1>5, <1>7, InsertApart
  <2>2. e.gid \in mounted
    BY <1>3, <1>5
  <2> QED
    BY <1>4, <2>1, <2>2, InsertOwned
<1>11. Apart(slots') /\ OwnedBy(slots', mounted)
  BY <1>1, <1>10
<1>12. used' \in Nat /\ used' = Bytes(slots', 1 .. MaxIds)
  BY <1>1, <1>2, <1>5, <1>8
<1>13. hooks' \in Seq(Hook) /\ Len(hooks') <= MaxHooks
  BY <1>1, RegisteredIs
<1>14. \A m \in DOMAIN ss : \E n \in DOMAIN slots' : slots'[n] = ss[m]
  BY <1>1, <1>4, InsertAtIs
<1>15. \A g : OwnIn(slots', g) = IF Top.gid = g THEN OwnIn(ss, g) \cup {e} ELSE OwnIn(ss, g)
  <2> SUFFICES ASSUME NEW g
               PROVE  OwnIn(slots', g) = IF Top.gid = g THEN OwnIn(ss, g) \cup {e} ELSE OwnIn(ss, g)
    OBVIOUS
  <2>1. OwnIn(InsertAt(ss, k, e), g) = IF e.gid = g THEN OwnIn(ss, g) \cup {e} ELSE OwnIn(ss, g)
    BY <1>4, <1>5, OwnInsert
  <2> QED
    BY <1>1, <1>5, <2>1
<1> QED
  BY <1>1, <1>5, <1>8, <1>9, <1>11, <1>12, <1>13, <1>14, <1>15

\* The slots of a table that is the next one are those Own speaks of.
LEMMA OwnNext ==
  ASSUME NEW g
  PROVE  Own(g)' = OwnIn(slots', g)
  BY DEF Own, OwnIn

LEMMA DisjointNext ==
  ASSUME Apart(slots'), OwnedBy(slots', mounted'), used' = Bytes(slots', 1 .. MaxIds)
  PROVE  SlotsDisjoint'
  BY DEF SlotsDisjoint, Apart, OwnedBy, End

AnswersIn(slotOf, own, c) == slotOf \in [1 .. c -> own] /\ Answers(slotOf, own, c)

More(slotOf, c, e) == [n \in 1 .. c + 1 |-> IF n = c + 1 THEN e ELSE slotOf[n]]

\* One slot more answers one call more.
LEMMA AnswersMore ==
  ASSUME NEW own, own \subseteq Slot, NEW c \in Nat, NEW slotOf, AnswersIn(slotOf, own, c),
         NEW e \in Slot, e.off = After(slotOf, c)
  PROVE  /\ AnswersIn(More(slotOf, c, e), own \cup {e}, c + 1)
         /\ After(More(slotOf, c, e), c + 1) = e.off + e.size
<1> DEFINE next == More(slotOf, c, e)
<1>0. slotOf \in [1 .. c -> own] /\ Answers(slotOf, own, c)
  BY DEF AnswersIn
<1>1. /\ \A n \in 1 .. c : n \in 1 .. c + 1 /\ n # c + 1
      /\ \A n \in 1 .. c + 1 : n \in 1 .. c \/ n = c + 1
      /\ c + 1 \in 1 .. c + 1 /\ c + 1 # 0 /\ (c + 1) - 1 = c
  OBVIOUS
<1>2. next[c + 1] = e /\ \A n \in 1 .. c : next[n] = slotOf[n]
  BY <1>1 DEF More
<1>3. next \in [1 .. c + 1 -> own \cup {e}]
  BY <1>1, <1>0 DEF More
<1> HIDE DEF next
<1>4. \A n \in 0 .. c : After(next, n) = After(slotOf, n)
  <2>1. \A n \in 0 .. c : n # 0 => n \in 1 .. c
    OBVIOUS
  <2> QED
    BY <1>2, <2>1 DEF After
<1>5. After(next, c + 1) = e.off + e.size
  BY <1>1, <1>2 DEF After
<1>6. \A n \in 1 .. c + 1 : next[n].off = After(next, n - 1)
  <2> SUFFICES ASSUME NEW n \in 1 .. c + 1
               PROVE  next[n].off = After(next, n - 1)
    OBVIOUS
  <2>1. n - 1 \in 0 .. c
    OBVIOUS
  <2>2. CASE n = c + 1
    <3>1. After(next, c) = After(slotOf, c) /\ n - 1 = c
      BY <1>1, <1>4, <2>1, <2>2
    <3> QED
      BY <1>2, <2>2, <3>1
  <2>3. CASE n \in 1 .. c
    <3>1. slotOf[n].off = After(slotOf, n - 1)
      BY <1>0, <2>3 DEF Answers
    <3> QED
      BY <1>2, <1>4, <2>1, <2>3, <3>1
  <2> QED
    BY <1>1, <2>2, <2>3
<1>7. \A n \in 1 .. c : slotOf[n].off \in Nat /\ slotOf[n].size \in Nat /\ slotOf[n].size > 0
  <2> SUFFICES ASSUME NEW n \in 1 .. c
               PROVE  slotOf[n].off \in Nat /\ slotOf[n].size \in Nat /\ slotOf[n].size > 0
    OBVIOUS
  <2>1. slotOf[n] \in own
    BY <1>0
  <2>2. slotOf[n] \in Slot
    BY <2>1
  <2> QED
    BY <2>2, SlotType
\* The offsets grow: the last slot ends behind where each of them starts.
<1>8. \A n \in 1 .. c : slotOf[n].off < e.off
  <2> SUFFICES ASSUME NEW n \in 1 .. c
               PROVE  slotOf[n].off < e.off
    OBVIOUS
  <2>1. c \in 1 .. c /\ c # 0 /\ e.off = slotOf[c].off + slotOf[c].size
    BY DEF After
  <2>2. n # c => slotOf[n].off < slotOf[c].off
    BY <1>0, <2>1 DEF Answers
  <2> QED
    BY <1>7, <2>1, <2>2
<1>9. \A m, n \in 1 .. c + 1 : m < n => next[m].off < next[n].off
  <2> SUFFICES ASSUME NEW m \in 1 .. c + 1, NEW n \in 1 .. c + 1, m < n
               PROVE  next[m].off < next[n].off
    OBVIOUS
  <2>1. m \in 1 .. c
    OBVIOUS
  <2>2. CASE n = c + 1
    BY <1>2, <1>8, <2>1, <2>2
  <2>3. CASE n \in 1 .. c
    BY <1>2, <1>0, <2>1, <2>3 DEF Answers
  <2> QED
    BY <1>1, <2>2, <2>3
<1>10. \A s \in own \cup {e} : \E n \in 1 .. c + 1 : next[n] = s
  <2> SUFFICES ASSUME NEW s \in own \cup {e}
               PROVE  \E n \in 1 .. c + 1 : next[n] = s
    OBVIOUS
  <2>1. CASE s = e
    BY <1>1, <1>2, <2>1
  <2>2. CASE s \in own
    <3>1. PICK n \in 1 .. c : slotOf[n] = s
      BY <1>0, <2>2 DEF Answers
    <3> QED
      BY <1>1, <1>2, <3>1
  <2> QED
    BY <2>1, <2>2
<1> QED
  BY <1>3, <1>5, <1>6, <1>9, <1>10 DEF Answers, AnswersIn, next

\* CelsResolveSlot on a fresh group: the call is answered by a new slot,
\* behind those of the calls before.
LEMMA AllocateSlotInv ==
  ASSUME Inv, AllocateSlot
  PROVE  Inv'
<1>1. TypeOK /\ GroupsOK /\ SlotsDisjoint /\ RecallOK
  BY DEF Inv
<1>2. /\ Calling /\ Top.gid \in fresh /\ Allocated(slots, used, hooks)
      /\ keyOf' = keyOf /\ fresh' = fresh /\ nextId' = nextId /\ top' = top
      /\ sizeOf' = sizeOf /\ reloads' = reloads /\ stopped' = stopped /\ broken' = broken
  BY DEF AllocateSlot, groupVars, code
<1>3. /\ slots \in Seq(Slot) /\ Len(slots) <= MaxSlots /\ hooks \in Seq(Hook) /\ Len(hooks) <= MaxHooks
      /\ used \in Nat
      /\ Apart(slots) /\ OwnedBy(slots, mounted) /\ used = Bytes(slots, 1 .. MaxIds)
  BY <1>1, DisjointIs DEF TypeOK
<1>4. /\ slots' \in Seq(Slot) /\ Len(slots') <= MaxSlots
      /\ Apart(slots') /\ OwnedBy(slots', mounted)
      /\ used' \in Nat /\ used' = Bytes(slots', 1 .. MaxIds)
      /\ hooks' \in Seq(Hook) /\ Len(hooks') <= MaxHooks
      /\ stack' = Called(Wanted)
      /\ \E e \in Slot :
              /\ e.gid = Top.gid /\ e.off = Top.off /\ e.size = Wanted
              /\ \A g : OwnIn(slots', g) =
                   IF Top.gid = g THEN OwnIn(slots, g) \cup {e} ELSE OwnIn(slots, g)
  BY <1>1, <1>2, <1>3, AllocatedIs
<1>5. PICK e \in Slot :
              /\ e.gid = Top.gid /\ e.off = Top.off /\ e.size = Wanted
              /\ \A g : OwnIn(slots', g) =
                   IF Top.gid = g THEN OwnIn(slots, g) \cup {e} ELSE OwnIn(slots, g)
  BY <1>4
<1>6. Wanted \in Nat /\ ~stopped
  BY <1>1, <1>2, WantedIs
<1>7. GroupsOK' /\ mounted' = mounted
  BY <1>1, <1>2, <1>4, <1>6, CallGroups
<1>8. /\ stack' \in Seq(Frame)
      /\ \A d \in DOMAIN stack' : stack'[d].gid = Top.gid =>
              stack'[d].call = Top.call + 1 /\ stack'[d].off = Top.off + Wanted
  BY <1>1, <1>2, <1>4, <1>6, CallFrames
<1>9. TypeOK'
  BY <1>1, <1>2, <1>4, <1>7, <1>8 DEF TypeOK
<1>10. SlotsDisjoint'
  BY <1>4, <1>7, DisjointNext
<1>11. RecallOK'
  <2> SUFFICES ASSUME NEW g \in mounted, g \notin broken
               PROVE  RecallOf(g)'
    BY <1>2, <1>7 DEF RecallOK
  <2>1. RecallOf(g)
    BY <1>1 DEF RecallOK
  <2>2. CASE g # Top.gid
    <3>1. Own(g)' = Own(g)
      BY <1>5, <2>2, OwnNext, OwnIs
    <3> QED
      BY <1>1, <1>2, <1>4, <1>6, <2>1, <2>2, <3>1, CallRecall
  <2>3. CASE g = Top.gid
    <3>1. Own(g)' = Own(g) \cup {e}
      BY <1>5, <2>3, OwnNext, OwnIs
    <3>2. PICK c \in 0 .. Calls : \E slotOf \in [1 .. c -> Own(g)] :
                Answers(slotOf, Own(g), c) /\ InStep(slotOf, g, c)
      BY <2>1 DEF RecallOf
    <3>3. PICK slotOf \in [1 .. c -> Own(g)] : Answers(slotOf, Own(g), c) /\ InStep(slotOf, g, c)
      BY <3>2
    <3>4. Top.call = c /\ Top.off = After(slotOf, c)
      <4>1. Len(stack) \in DOMAIN stack /\ Top = stack[Len(stack)]
        BY <1>1, <1>2, WantedIs, TopIs
      <4> QED
        BY <1>2, <2>3, <3>3, <4>1 DEF InStep
    <3>5. c \in Nat /\ c + 1 \in 0 .. Calls
      <4>1. Top.call + 1 \in 1 .. Calls
        BY <1>1, <1>2, WantedIs
      <4> QED
        BY <3>4, <4>1, ConstantTypes
    <3> DEFINE next == More(slotOf, c, e)
    <3>6. /\ AnswersIn(next, Own(g) \cup {e}, c + 1)
          /\ After(next, c + 1) = e.off + e.size
      <4>1. e.off = After(slotOf, c)
        BY <1>5, <3>4
      <4>2. AnswersIn(slotOf, Own(g), c)
        BY <3>3 DEF AnswersIn
      <4>3. Own(g) \subseteq Slot
        BY <1>3 DEF Own
      <4> QED
        BY <3>5, <4>1, <4>2, <4>3, AnswersMore
    <3> HIDE DEF next
    <3>7. InStep(next, g, c + 1)'
      <4>1. \A d \in DOMAIN stack' : stack'[d].gid = g =>
              stack'[d].call = c + 1 /\ stack'[d].off = After(next, c + 1)
        BY <1>5, <1>8, <2>3, <3>4, <3>6
      <4>2. g \in fresh' /\ c + 1 <= c + 1
        BY <1>2, <2>3, <3>5
      <4> QED
        BY <4>1, <4>2 DEF InStep, After
    <3>8. next \in [1 .. c + 1 -> Own(g)'] /\ Answers(next, Own(g)', c + 1)
      BY <3>1, <3>6 DEF AnswersIn
    <3>9. (Answers(next, Own(g), c + 1))'
      BY <3>8 DEF Answers, After
    <3> HIDE DEF Answers, InStep
    <3> QED
      BY <3>5, <3>7, <3>8, <3>9 DEF RecallOf
  <2> QED
    BY <2>2, <2>3
<1>12. StoppedOK'
  BY <1>2, <1>6 DEF StoppedOK
<1> QED
  BY <1>7, <1>9, <1>10, <1>11, <1>12 DEF Inv

\* Memory that is refused changes no table, and the group is known for it.
LEMMA RefuseSlotInv ==
  ASSUME Inv, RefuseSlot
  PROVE  Inv'
<1>1. TypeOK /\ GroupsOK /\ SlotsDisjoint /\ RecallOK
  BY DEF Inv
<1>2. /\ Calling /\ stack' = Called(0) /\ slots' = slots /\ used' = used /\ hooks' = hooks
      /\ keyOf' = keyOf /\ fresh' = fresh /\ nextId' = nextId /\ top' = top
      /\ sizeOf' = sizeOf /\ reloads' = reloads /\ stopped' = stopped
      /\ broken' = broken \cup {Top.gid}
  BY DEF RefuseSlot, Denied, groupVars, code
<1>3. ~stopped /\ Top.gid \in mounted
  BY <1>1, <1>2, WantedIs, TopIs
<1>4. GroupsOK' /\ mounted' = mounted
  BY <1>1, <1>2, CallGroups
<1>5. stack' \in Seq(Frame)
  BY <1>1, <1>2, CallFrames
<1>6. TypeOK'
  <2>1. broken' \subseteq mounted'
    BY <1>1, <1>2, <1>3, <1>4 DEF TypeOK
  <2> QED
    BY <1>1, <1>2, <1>4, <1>5, <2>1 DEF TypeOK
<1>7. SlotsDisjoint'
  BY <1>1, <1>2, <1>4, ArenaKept
<1>8. RecallOK'
  <2> SUFFICES ASSUME NEW g \in mounted', g \notin broken'
               PROVE  RecallOf(g)'
    BY DEF RecallOK
  <2>1. RecallOf(g) /\ g # Top.gid
    BY <1>1, <1>2, <1>4 DEF RecallOK
  <2>2. Own(g)' = Own(g)
    BY <1>2 DEF Own
  <2> QED
    BY <1>1, <1>2, <2>1, <2>2, CallRecall
<1>9. StoppedOK'
  BY <1>2, <1>3 DEF StoppedOK
<1> QED
  BY <1>4, <1>6, <1>7, <1>8, <1>9 DEF Inv

\* In a group that was never refused nor resized, the slot of the next call
\* is where the body looks for it, and no other slot is.
LEMMA MineIs ==
  ASSUME Inv, Calling, Top.gid \notin fresh, Top.gid \notin broken,
         NEW c \in 0 .. Calls, NEW slotOf \in [1 .. c -> Own(Top.gid)],
         Answers(slotOf, Own(Top.gid), c), InStep(slotOf, Top.gid, c)
  PROVE  /\ c = Calls /\ Top.call + 1 \in 1 .. c
         /\ \E n \in Mine : slots[n] = slotOf[Top.call + 1]
         /\ \A n \in Mine : slots[n] = slotOf[Top.call + 1]
<1> DEFINE g == Top.gid
           k == Top.call + 1
<1>1. TypeOK /\ GroupsOK
  BY DEF Inv
<1>2. c = Calls
  BY DEF InStep
<1>3. k \in 1 .. c /\ Top.call = k - 1 /\ Top.call \in 0 .. Calls
  <2>1. k \in 1 .. Calls /\ Top.call \in 0 .. Calls
    BY <1>1, WantedIs, TopIs
  <2> QED
    BY <1>2, <2>1
<1>4. Top.off = After(slotOf, k - 1)
  <2>1. Len(stack) \in DOMAIN stack /\ Top = stack[Len(stack)]
    BY <1>1, WantedIs, TopIs
  <2>2. Top.off = After(slotOf, Top.call)
    BY <2>1 DEF InStep
  <2> QED
    BY <1>3, <2>2
<1> HIDE DEF k
<1>5. slotOf[k].off = Top.off
  BY <1>3, <1>4 DEF Answers
<1>6. \A s : s \in Own(g) <=> \E n \in DOMAIN slots : slots[n] = s /\ s.gid = g
  BY DEF Own
<1>7. \E n \in Mine : slots[n] = slotOf[k]
  <2>1. slotOf[k] \in Own(g)
    BY <1>3
  <2>2. PICK n \in DOMAIN slots : slots[n] = slotOf[k] /\ slotOf[k].gid = g
    BY <1>6, <2>1
  <2> QED
    BY <1>5, <2>2 DEF Mine
<1>8. ASSUME NEW n \in Mine
      PROVE  slots[n] = slotOf[k]
  <2>1. n \in DOMAIN slots /\ slots[n].gid = g /\ slots[n].off = Top.off
    BY DEF Mine
  <2>2. slots[n] \in Own(g)
    BY <1>6, <2>1
  <2>3. PICK i \in 1 .. c : slotOf[i] = slots[n]
    BY <2>2 DEF Answers
  <2>4. slotOf[i].off = slotOf[k].off /\ slotOf[i].off \in Nat
    <3>1. slotOf[i] \in Slot
      BY <1>1, <2>1, <2>3 DEF TypeOK
    <3> QED
      BY <1>5, <2>1, <2>3, <3>1, SlotType
  <2>5. ~(slotOf[i].off < slotOf[k].off) /\ ~(slotOf[k].off < slotOf[i].off)
    BY <2>4
  <2>6. ~(i < k) /\ ~(k < i)
    BY <1>3, <2>3, <2>5 DEF Answers
  <2>7. i = k
    BY <1>3, <2>6
  <2> QED
    BY <2>3, <2>7
<1> QED
  BY <1>2, <1>3, <1>7, <1>8 DEF k

\* A call on a group that is not fresh finds its slot, and goes on behind it.
LEMMA FindSlotInv ==
  ASSUME Inv, FindSlot
  PROVE  Inv'
<1>1. TypeOK /\ GroupsOK /\ SlotsDisjoint /\ RecallOK
  BY DEF Inv
<1>2. PICK n \in Mine : slots[n].size = Wanted /\ stack' = Called(Wanted)
  BY DEF FindSlot
<1>3. /\ Calling /\ Top.gid \notin fresh /\ hooks' = Updated(hooks)
      /\ slots' = slots /\ used' = used /\ top' = top
      /\ keyOf' = keyOf /\ fresh' = fresh /\ nextId' = nextId
      /\ sizeOf' = sizeOf /\ reloads' = reloads /\ stopped' = stopped /\ broken' = broken
  BY DEF FindSlot, groupVars, arena, code
<1>4. ~stopped /\ Wanted \in Nat
  BY <1>1, <1>3, WantedIs
<1>5. GroupsOK' /\ mounted' = mounted
  BY <1>1, <1>2, <1>3, <1>4, CallGroups
<1>6. /\ stack' \in Seq(Frame)
      /\ \A d \in DOMAIN stack' : stack'[d].gid = Top.gid =>
              stack'[d].call = Top.call + 1 /\ stack'[d].off = Top.off + Wanted
  BY <1>1, <1>2, <1>3, <1>4, CallFrames
<1>7. hooks' \in Seq(Hook) /\ Len(hooks') <= MaxHooks
  BY <1>1, <1>3, UpdatedIs
<1>8. TypeOK'
  BY <1>1, <1>3, <1>5, <1>6, <1>7 DEF TypeOK
<1>9. SlotsDisjoint'
  BY <1>1, <1>3, <1>5, ArenaKept
<1>10. RecallOK'
  <2> SUFFICES ASSUME NEW g \in mounted, g \notin broken
               PROVE  RecallOf(g)'
    BY <1>3, <1>5 DEF RecallOK
  <2>1. RecallOf(g)
    BY <1>1 DEF RecallOK
  <2>2. Own(g)' = Own(g)
    BY <1>3 DEF Own
  <2>3. CASE g # Top.gid
    BY <1>1, <1>2, <1>3, <1>4, <2>1, <2>2, <2>3, CallRecall
  <2>4. CASE g = Top.gid
    <3>1. PICK c \in 0 .. Calls : \E slotOf \in [1 .. c -> Own(g)] :
                Answers(slotOf, Own(g), c) /\ InStep(slotOf, g, c)
      BY <2>1 DEF RecallOf
    <3>2. PICK slotOf \in [1 .. c -> Own(g)] : Answers(slotOf, Own(g), c) /\ InStep(slotOf, g, c)
      BY <3>1
    <3>3. c = Calls /\ Top.call + 1 \in 1 .. c /\ slots[n] = slotOf[Top.call + 1]
      BY <1>2, <1>3, <2>4, <3>2, MineIs
    <3>4. slotOf[Top.call + 1].off = Top.off /\ slotOf[Top.call + 1].size = Wanted
      BY <1>2, <3>3 DEF Mine
    <3>5. After(slotOf, Top.call + 1) = Top.off + Wanted /\ Top.call + 1 <= c
      BY <3>3, <3>4 DEF After
    <3>6. InStep(slotOf, g, c)'
      <4>1. \A d \in DOMAIN stack' : stack'[d].gid = g =>
              stack'[d].call <= c /\ stack'[d].off = After(slotOf, stack'[d].call)
        BY <1>6, <2>4, <3>5
      <4>2. g \notin fresh'
        BY <1>3, <2>4
      <4> QED
        BY <3>3, <4>1, <4>2 DEF InStep, After
    <3>7. slotOf \in [1 .. c -> Own(g)'] /\ Answers(slotOf, Own(g)', c)
      BY <2>2, <3>2
    <3>8. (Answers(slotOf, Own(g), c))'
      BY <3>7 DEF Answers, After
    <3> HIDE DEF Answers, InStep
    <3> QED
      BY <3>6, <3>7, <3>8 DEF RecallOf
  <2> QED
    BY <2>3, <2>4
<1>11. StoppedOK'
  BY <1>3, <1>4 DEF StoppedOK
<1> QED
  BY <1>5, <1>8, <1>9, <1>10, <1>11 DEF Inv

\* A struct of another size: the slots of the group go, the others stay.
LEMMA ResizedSlotInv ==
  ASSUME Inv, ResizedSlot
  PROVE  Inv'
<1> DEFINE g0 == Top.gid
           kept == Without(slots, g0)
           bytes == used - BytesOf(g0)
           hs == Without(hooks, g0)
<1>1. TypeOK /\ GroupsOK /\ SlotsDisjoint /\ RecallOK
  BY DEF Inv
<1>2. /\ Calling /\ (Allocated(kept, bytes, hs) \/ Denied(kept, bytes, hs))
      /\ fresh' = fresh \cup {g0} /\ broken' = broken \cup {g0}
      /\ keyOf' = keyOf /\ nextId' = nextId /\ top' = top
      /\ sizeOf' = sizeOf /\ reloads' = reloads /\ stopped' = stopped
  BY DEF ResizedSlot, code
<1>3. ~stopped /\ Wanted \in Nat /\ g0 \in mounted
  BY <1>1, <1>2, WantedIs, TopIs
<1>4. slots \in Seq(Slot) /\ hooks \in Seq(Hook) /\ Len(slots) <= MaxSlots /\ Len(hooks) <= MaxHooks
  BY <1>1 DEF TypeOK
<1>5. /\ kept \in Seq(Slot) /\ Len(kept) <= MaxSlots
      /\ hs \in Seq(Hook) /\ Len(hs) <= MaxHooks
  <2>1. /\ kept \in Seq(Slot) /\ Len(kept) <= Len(slots)
        /\ hs \in Seq(Hook) /\ Len(hs) <= Len(hooks)
    BY <1>4, WithoutIs
  <2> HIDE DEF kept, hs
  <2> QED
    BY <1>4, <2>1, ConstantTypes
<1>6. bytes \in Nat /\ bytes = Bytes(kept, 1 .. MaxIds)
  BY <1>1, <1>4, DisjointIs, BytesWithout DEF BytesOf
<1>7. Apart(kept) /\ OwnedBy(kept, mounted)
  <2>1. Apart(kept) /\ OwnedBy(kept, mounted \ {g0})
    BY <1>1, <1>4, DisjointIs, WithoutApart, WithoutOwned
  <2> HIDE DEF kept
  <2> QED
    BY <2>1 DEF OwnedBy
<1>8. \A g : g # g0 => OwnIn(kept, g) = Own(g)
  BY <1>4, OwnWithout, OwnIs
<1> HIDE DEF kept, bytes, hs
<1>9. /\ slots' \in Seq(Slot) /\ Len(slots') <= MaxSlots
      /\ Apart(slots') /\ OwnedBy(slots', mounted)
      /\ used' \in Nat /\ used' = Bytes(slots', 1 .. MaxIds)
      /\ hooks' \in Seq(Hook) /\ Len(hooks') <= MaxHooks
      /\ \E taken \in Nat : stack' = Called(taken)
      /\ \A g : g # g0 => OwnIn(slots', g) = OwnIn(kept, g)
  <2>1. CASE Allocated(kept, bytes, hs)
    <3>1. /\ slots' \in Seq(Slot) /\ Len(slots') <= MaxSlots
          /\ Apart(slots') /\ OwnedBy(slots', mounted)
          /\ used' \in Nat /\ used' = Bytes(slots', 1 .. MaxIds)
          /\ hooks' \in Seq(Hook) /\ Len(hooks') <= MaxHooks
          /\ stack' = Called(Wanted)
          /\ \E e \in Slot :
               /\ e.gid = Top.gid /\ e.off = Top.off /\ e.size = Wanted
               /\ \A g : OwnIn(slots', g) =
                    IF Top.gid = g THEN OwnIn(kept, g) \cup {e} ELSE OwnIn(kept, g)
      BY <1>1, <1>2, <1>5, <1>6, <1>7, <2>1, AllocatedIs
    <3>2. \A g : g # g0 => OwnIn(slots', g) = OwnIn(kept, g)
      BY <3>1
    <3> QED
      BY <1>3, <3>1, <3>2
  <2>2. CASE Denied(kept, bytes, hs)
    <3>1. slots' = kept /\ used' = bytes /\ hooks' = hs /\ stack' = Called(0)
      BY <2>2 DEF Denied
    <3> QED
      BY <1>5, <1>6, <1>7, <3>1
  <2> QED
    BY <1>2, <2>1, <2>2
<1>10. PICK taken \in Nat : stack' = Called(taken)
  BY <1>9
<1>11. GroupsOK' /\ mounted' = mounted
  BY <1>1, <1>2, <1>10, CallGroups
<1>12. stack' \in Seq(Frame)
  BY <1>1, <1>2, <1>10, CallFrames
<1>13. TypeOK'
  <2>1. broken' \subseteq mounted' /\ fresh' \subseteq mounted'
    BY <1>1, <1>2, <1>3, <1>11 DEF TypeOK
  <2> QED
    BY <1>1, <1>2, <1>9, <1>11, <1>12, <2>1 DEF TypeOK
<1>14. SlotsDisjoint'
  BY <1>9, <1>11, DisjointNext
<1>15. RecallOK'
  <2> SUFFICES ASSUME NEW g \in mounted', g \notin broken'
               PROVE  RecallOf(g)'
    BY DEF RecallOK
  <2>1. RecallOf(g) /\ g # Top.gid /\ (g \in fresh' <=> g \in fresh)
    BY <1>1, <1>2, <1>11 DEF RecallOK
  <2>2. Own(g)' = Own(g)
    BY <1>8, <1>9, <2>1, OwnNext
  <2> QED
    BY <1>1, <1>2, <1>10, <2>1, <2>2, CallRecall
<1>16. StoppedOK'
  BY <1>2, <1>3 DEF StoppedOK
<1> QED
  BY <1>11, <1>13, <1>14, <1>15, <1>16 DEF Inv

\* The assertion that calls were reordered: only a group that was refused or
\* resized has no slot where its body looks for one.
LEMMA LostSlotInv ==
  ASSUME Inv, LostSlot
  PROVE  Inv'
<1>1. /\ Calling /\ Top.gid \notin fresh /\ Mine = {}
      /\ stopped' = TRUE
      /\ keyOf' = keyOf /\ fresh' = fresh /\ nextId' = nextId /\ stack' = stack
      /\ slots' = slots /\ used' = used /\ top' = top /\ hooks' = hooks
      /\ sizeOf' = sizeOf /\ reloads' = reloads /\ broken' = broken
  BY DEF LostSlot, groupVars, arena, code
<1>2. TypeOK /\ GroupsOK /\ SlotsDisjoint /\ RecallOK
  BY DEF Inv
<1>3. Top.gid \in broken
  <2> SUFFICES ASSUME Top.gid \notin broken
               PROVE  FALSE
    OBVIOUS
  <2>1. Top.gid \in mounted
    BY <1>1, <1>2, WantedIs, TopIs
  <2>2. RecallOf(Top.gid)
    BY <1>2, <2>1 DEF RecallOK
  <2>3. PICK c \in 0 .. Calls : \E slotOf \in [1 .. c -> Own(Top.gid)] :
              Answers(slotOf, Own(Top.gid), c) /\ InStep(slotOf, Top.gid, c)
    BY <2>2 DEF RecallOf
  <2>4. PICK slotOf \in [1 .. c -> Own(Top.gid)] :
              Answers(slotOf, Own(Top.gid), c) /\ InStep(slotOf, Top.gid, c)
    BY <2>3
  <2>5. \E n \in Mine : slots[n] = slotOf[Top.call + 1]
    BY <1>1, <2>4, MineIs
  <2> QED
    BY <1>1, <2>5
<1>4. mounted' = mounted /\ Running' = Running /\ Top' = Top
  BY <1>1 DEF mounted, Running, Top
<1>5. TypeOK'
  BY <1>1, <1>2, <1>4 DEF TypeOK
<1>6. GroupsOK'
  BY <1>1, <1>2, <1>4 DEF GroupsOK
<1>7. SlotsDisjoint'
  BY <1>1, <1>2, <1>4, ArenaKept
<1>8. RecallOK'
  <2>1. \A g : Own(g)' = Own(g)
    BY <1>1 DEF Own
  <2> SUFFICES ASSUME NEW g \in mounted, g \notin broken
               PROVE  RecallOf(g)'
    BY <1>1, <1>4 DEF RecallOK
  <2>2. RecallOf(g)
    BY <1>2 DEF RecallOK
  <2>3. \A d \in DOMAIN stack' : stack'[d].gid = g => \E e \in DOMAIN stack : stack'[d] = stack[e]
    BY <1>1
  <2> QED
    BY <1>1, <2>1, <2>2, <2>3, RecallKept
<1>9. StoppedOK'
  BY <1>1, <1>3, <1>4 DEF StoppedOK
<1> QED
  BY <1>5, <1>6, <1>7, <1>8, <1>9 DEF Inv

-----------------------------------------------------------------------------
(* The theorems.                                                           *)

\* Every step of the session keeps the invariant.
LEMMA NextInv ==
  ASSUME Inv, [Next]_vars
  PROVE  Inv'
<1>1. CASE Next
  <2>1. ASSUME NEW k \in Keys, Mount(k)
        PROVE  Inv'
    BY <2>1, MountInv
  <2>2. ASSUME NEW g \in 1 .. MaxIds, Rerun(g)
        PROVE  Inv'
    BY <2>2, RerunInv
  <2>3. ASSUME NEW g \in 1 .. MaxIds, Prune(g)
        PROVE  Inv'
    BY <2>3, PruneInv
  <2>4. ASSUME NEW size \in BufferSizes, AllocData(size)
        PROVE  Inv'
    BY <2>4, AllocDataInv
  <2>5. CASE Exit
    BY <2>5, ExitInv
  <2>6. CASE AllocateSlot
    BY <2>6, AllocateSlotInv
  <2>7. CASE RefuseSlot
    BY <2>7, RefuseSlotInv
  <2>8. CASE FindSlot
    BY <2>8, FindSlotInv
  <2>9. CASE ResizedSlot
    BY <2>9, ResizedSlotInv
  <2>10. CASE LostSlot
    BY <2>10, LostSlotInv
  <2>11. CASE HotReload
    BY <2>11, HotReloadInv
  <2> QED
    BY <1>1, <2>1, <2>2, <2>3, <2>4, <2>5, <2>6, <2>7, <2>8, <2>9, <2>10, <2>11 DEF Next
<1>2. CASE UNCHANGED vars
  <2>1. UNCHANGED <<keyOf, fresh, nextId, stack, slots, used, top, hooks, sizeOf, reloads, stopped, broken>>
    BY <1>2 DEF vars, groupVars, arena, code
  <2>2. TypeOK /\ GroupsOK /\ SlotsDisjoint /\ RecallOK /\ StoppedOK
    BY DEF Inv
  <2>3. mounted' = mounted /\ Running' = Running /\ Top' = Top
    BY <2>1 DEF mounted, Running, Top
  <2>4. TypeOK'
    BY <2>1, <2>2, <2>3 DEF TypeOK
  <2>5. GroupsOK'
    BY <2>1, <2>2, <2>3 DEF GroupsOK
  <2>6. SlotsDisjoint'
    BY <2>1, <2>2, <2>3, ArenaKept
  <2>7. RecallOK'
    <3>1. \A g : Own(g)' = Own(g)
      BY <2>1 DEF Own
    <3> SUFFICES ASSUME NEW g \in mounted, g \notin broken
                 PROVE  RecallOf(g)'
      BY <2>1, <2>3 DEF RecallOK
    <3>2. RecallOf(g)
      BY <2>2 DEF RecallOK
    <3>3. \A d \in DOMAIN stack' : stack'[d].gid = g => \E e \in DOMAIN stack : stack'[d] = stack[e]
      BY <2>1
    <3> QED
      BY <2>1, <3>1, <3>2, <3>3, RecallKept
  <2>8. StoppedOK'
    BY <2>1, <2>2, <2>3 DEF StoppedOK
  <2> QED
    BY <2>4, <2>5, <2>6, <2>7, <2>8 DEF Inv
<1> QED
  BY <1>1, <1>2

\* The types, the groups that run, the arena and what each body may recall
\* are inductive together.
THEOREM SlotArenaInvariant == Spec => []Inv
<1>1. Init => Inv
  BY InitInv
<1>2. Inv /\ [Next]_vars => Inv'
  BY NextInv
<1> QED
  BY <1>1, <1>2, PTL DEF Spec

\* The tables of a session stay within their capacities and the counters of
\* the arena never go below zero.
THEOREM SlotArenaTyped == Spec => []TypeOK
<1>1. Inv => TypeOK
  BY DEF Inv
<1> QED
  BY <1>1, SlotArenaInvariant, PTL

\* However slots are released and the gaps between them refilled, no two
\* share a byte and dataGapStart counts them all.
THEOREM SlotsStayDisjoint == Spec => []SlotsDisjoint
<1>1. Inv => SlotsDisjoint
  BY DEF Inv
<1> QED
  BY <1>1, SlotArenaInvariant, PTL

-----------------------------------------------------------------------------
(* The slots and their bytes are within the arena.                         *)

Within(ss) == \A n \in DOMAIN ss : End(ss[n]) <= ArenaSize

SlotsInArena == Within(slots) /\ used <= ArenaSize

\* Slots that share no byte take no more bytes than lie before the end of the
\* last.
LEMMA BytesWithin ==
  ASSUME NEW ss \in Seq(Slot), Apart(ss), Within(ss), NEW gids
  PROVE  Bytes(ss, gids) <= ArenaSize
<1> DEFINE bytes == BytesUpTo(ss, gids)
           P == {n \in 0 .. Len(ss) : bytes[n] <= EndBefore(ss, n + 1)}
<1>1. /\ Len(ss) \in Nat /\ DOMAIN ss = 1 .. Len(ss)
      /\ bytes \in [0 .. Len(ss) -> Nat] /\ bytes[0] = 0
      /\ \A n \in 1 .. Len(ss) :
           bytes[n] = bytes[n - 1] + (IF ss[n].gid \in gids THEN ss[n].size ELSE 0)
  BY BytesTurn
<1> HIDE DEF bytes
<1>2. P \in SUBSET Nat /\ 0 \in P
  BY <1>1 DEF EndBefore
<1>3. ASSUME NEW n \in 0 .. Len(ss) - 1, n \in P
      PROVE  n + 1 \in P
  <2>1. /\ n + 1 \in 1 .. Len(ss) /\ (n + 1) - 1 = n /\ (n + 2) - 1 = n + 1
        /\ n + 2 # 1 /\ n \in Nat
    BY <1>1
  <2>2. PICK e \in Slot : e = ss[n + 1]
    BY <2>1
  <2>3. e.at \in Nat /\ e.size \in Nat /\ End(e) = e.at + e.size
    BY SlotType DEF End
  <2>4. EndBefore(ss, n + 1) <= e.at /\ EndBefore(ss, n + 1) \in Nat
    <3>1. CASE n = 0
      BY <2>3, <3>1 DEF EndBefore
    <3>2. CASE n # 0
      <4>1. n \in DOMAIN ss /\ n + 1 \in DOMAIN ss /\ n < n + 1 /\ n + 1 # 1
        BY <1>1, <2>1, <3>2
      <4>2. End(ss[n]) <= e.at /\ EndBefore(ss, n + 1) = End(ss[n])
        BY <2>1, <2>2, <4>1 DEF Apart, EndBefore
      <4>3. ss[n] \in Slot
        BY <4>1
      <4> QED
        BY <4>2, <4>3, SlotType
    <3> QED
      BY <3>1, <3>2
  <2>5. /\ bytes[n] <= EndBefore(ss, n + 1) /\ bytes[n] \in Nat
        /\ bytes[n + 1] = bytes[n] + (IF e.gid \in gids THEN e.size ELSE 0)
    BY <1>1, <1>3, <2>1, <2>2
  <2>6. bytes[n + 1] <= End(e)
    <3>1. bytes[n + 1] <= bytes[n] + e.size
      BY <2>3, <2>5
    <3> QED
      BY <1>1, <2>1, <2>3, <2>4, <2>5, <3>1
  <2>7. EndBefore(ss, (n + 1) + 1) = End(e)
    BY <2>1, <2>2 DEF EndBefore
  <2> QED
    BY <1>1, <2>1, <2>6, <2>7
<1> HIDE DEF P
<1>4. Len(ss) \in P
  <2> DEFINE L == Len(ss)
  <2>1. L \in Nat /\ \A n \in 0 .. L - 1 : n \in P => n + 1 \in P
    BY <1>1, <1>3
  <2> HIDE DEF L
  <2>2. \A n \in 0 .. L : n \in P
    BY <1>2, <2>1, UpTo
  <2>3. L \in 0 .. L
    BY <2>1
  <2> QED
    BY <2>2, <2>3 DEF L
<1>5. bytes[Len(ss)] <= EndBefore(ss, Len(ss) + 1) /\ bytes[Len(ss)] \in Nat
  BY <1>1, <1>4 DEF P
<1>6. EndBefore(ss, Len(ss) + 1) <= ArenaSize /\ EndBefore(ss, Len(ss) + 1) \in Nat
  <2>1. CASE Len(ss) = 0
    BY <2>1, ConstantTypes DEF EndBefore
  <2>2. CASE Len(ss) # 0
    <3>1. Len(ss) \in DOMAIN ss /\ Len(ss) + 1 # 1 /\ (Len(ss) + 1) - 1 = Len(ss)
      BY <1>1, <2>2
    <3>2. EndBefore(ss, Len(ss) + 1) = End(ss[Len(ss)]) /\ ss[Len(ss)] \in Slot
      BY <3>1 DEF EndBefore
    <3> QED
      BY <3>1, <3>2, SlotType DEF Within
  <2> QED
    BY <2>1, <2>2
<1> QED
  BY <1>5, <1>6, ConstantTypes DEF Bytes, bytes

LEMMA WithoutWithin ==
  ASSUME NEW ss \in Seq(Slot), NEW gid, Within(ss)
  PROVE  Within(Without(ss, gid))
<1> DEFINE v == Without(ss, gid)
<1>1. \A i \in DOMAIN v : \E m \in DOMAIN ss : v[i] = ss[m] /\ ss[m].gid # gid
  BY WithoutIs
<1> HIDE DEF v
<1> QED
  BY <1>1 DEF Within, v

\* A slot is placed where it ends before the state buffers begin.
LEMMA AllocatedWithin ==
  ASSUME TypeOK, NEW ss \in Seq(Slot), Within(ss), Wanted \in Nat,
         NEW bytes, NEW hs, Allocated(ss, bytes, hs)
  PROVE  Within(slots')
<1> DEFINE k == Insertion(ss, bytes, Wanted)
           e == NewSlot(ss, k)
<1>1. /\ EndBefore(ss, k) + Wanted <= top
      /\ slots' = InsertAt(ss, k, e)
  BY DEF Allocated, Refused, GapFits
<1>2. k \in 1 .. Len(ss) + 1 /\ EndBefore(ss, k) \in Nat
  BY InsertionIs
<1>3. End(e) = EndBefore(ss, k) + Wanted
  BY DEF End, NewSlot
<1>4. End(e) <= ArenaSize
  <2>1. top \in 0 .. ArenaSize
    BY DEF TypeOK
  <2>2. PICK before \in Nat : before = EndBefore(ss, k)
    BY <1>2
  <2>3. PICK size \in Nat : size = Wanted
    OBVIOUS
  <2>4. End(e) = before + size /\ before + size <= top
    BY <1>1, <1>3, <2>2, <2>3
  <2> QED
    BY <2>1, <2>4, ConstantTypes
<1> HIDE DEF k, e
<1>5. \A m \in DOMAIN slots' : (\E n \in DOMAIN ss : slots'[m] = ss[n]) \/ slots'[m] = e
  BY <1>1, <1>2, InsertAtIs
<1> QED
  BY <1>4, <1>5 DEF Within

LEMMA NextWithin ==
  ASSUME Inv, Within(slots), [Next]_vars
  PROVE  Within(slots')
<1>1. TypeOK /\ GroupsOK /\ slots \in Seq(Slot)
  BY DEF Inv, TypeOK
<1>2. CASE slots' = slots
  BY <1>2
<1>3. ASSUME NEW gid \in 1 .. MaxIds, Prune(gid)
      PROVE  Within(slots')
  BY <1>1, <1>3, WithoutWithin DEF Prune
<1>4. CASE AllocateSlot
  <2>1. Calling /\ Allocated(slots, used, hooks)
    BY <1>4 DEF AllocateSlot
  <2>2. Wanted \in Nat
    BY <1>1, <2>1, WantedIs
  <2> QED
    BY <1>1, <2>1, <2>2, AllocatedWithin
<1>5. CASE ResizedSlot
  <2> DEFINE kept == Without(slots, Top.gid)
             bytes == used - BytesOf(Top.gid)
             hs == Without(hooks, Top.gid)
  <2>1. Calling /\ (Allocated(kept, bytes, hs) \/ Denied(kept, bytes, hs))
    BY <1>5 DEF ResizedSlot
  <2>2. Wanted \in Nat
    BY <1>1, <2>1, WantedIs
  <2>3. kept \in Seq(Slot)
    <3> DEFINE g0 == Top.gid
    <3>1. Without(slots, g0) \in Seq(Slot)
      <4> HIDE DEF g0
      <4> QED
        BY <1>1, KeepsAll
    <3> QED
      BY <3>1
  <2>4. Within(kept)
    BY <1>1, WithoutWithin
  <2> HIDE DEF kept, bytes, hs
  <2>5. CASE Allocated(kept, bytes, hs)
    BY <1>1, <2>2, <2>3, <2>4, <2>5, AllocatedWithin
  <2>6. CASE Denied(kept, bytes, hs)
    BY <2>4, <2>6 DEF Denied
  <2> QED
    BY <2>1, <2>5, <2>6
<1>6. CASE LostSlot \/ FindSlot \/ RefuseSlot \/ Exit \/ HotReload
  BY <1>2, <1>6 DEF LostSlot, FindSlot, RefuseSlot, Exit, HotReload, Denied, arena
<1>7. ASSUME NEW k \in Keys, Mount(k)
      PROVE  Within(slots')
  BY <1>2, <1>7 DEF Mount, arena
<1>8. ASSUME NEW g \in 1 .. MaxIds, Rerun(g)
      PROVE  Within(slots')
  BY <1>2, <1>8 DEF Rerun, arena
<1>9. ASSUME NEW size \in BufferSizes, AllocData(size)
      PROVE  Within(slots')
  BY <1>2, <1>9 DEF AllocData
<1>10. CASE UNCHANGED vars
  BY <1>2, <1>10 DEF vars, arena
<1> QED
  BY <1>3, <1>4, <1>5, <1>6, <1>7, <1>8, <1>9, <1>10 DEF Next

\* Wherever CelsResolveSlot places slots and whatever is released, each slot
\* ends inside the data arena, and dataGapStart never passes its end.
THEOREM ArenaHoldsSlots == Spec => []SlotsInArena
<1>1. Init => Within(slots)
  BY DEF Init, Within
<1>2. Inv /\ Within(slots) /\ [Next]_vars => Within(slots)'
  <2>1. Within(slots)' <=> Within(slots')
    BY DEF Within, End
  <2> QED
    BY <2>1, NextWithin
<1>3. Inv /\ Within(slots) => SlotsInArena
  <2>1. Inv => slots \in Seq(Slot) /\ Apart(slots) /\ used = Bytes(slots, 1 .. MaxIds)
    BY DisjointIs DEF Inv, TypeOK
  <2> QED
    BY <2>1, BytesWithin DEF SlotsInArena
<1> QED
  BY <1>1, <1>2, <1>3, SlotArenaInvariant, PTL DEF Spec

-----------------------------------------------------------------------------
(* The calls of a body, and the memory they were given.                    *)

\* What the invariant knows of a group is that its calls are remembered.
LEMMA AnswersRemember ==
  ASSUME NEW g, NEW c \in Nat, NEW slotOf \in [1 .. c -> Own(g)], Answers(slotOf, Own(g), c)
  PROVE  Remembers(g, c)
<1>1. \A n \in 1 .. c :
        slotOf[n].off = IF n = 1 THEN 0 ELSE slotOf[n - 1].off + slotOf[n - 1].size
  <2> SUFFICES ASSUME NEW n \in 1 .. c
               PROVE  slotOf[n].off = IF n = 1 THEN 0 ELSE slotOf[n - 1].off + slotOf[n - 1].size
    OBVIOUS
  <2>1. slotOf[n].off = After(slotOf, n - 1)
    BY DEF Answers
  <2>2. n - 1 = 0 <=> n = 1
    OBVIOUS
  <2> QED
    BY <2>1, <2>2 DEF After
<1>2. \A s \in Own(g) : \E n \in 1 .. c : slotOf[n] = s
  BY DEF Answers
<1> QED
  BY <1>1, <1>2 DEF Remembers

\* A call of a body finds the memory it was given before, unless the group
\* was refused memory or resized; only such a group fails the assertion that
\* the calls were reordered.
THEOREM CallsStayRemembered == Spec => []CallsRemembered
<1>1. Inv => CallsRemembered
  <2> SUFFICES ASSUME Inv
               PROVE  CallsRemembered
    OBVIOUS
  <2>1. RecallOK /\ StoppedOK
    BY DEF Inv
  <2>2. ASSUME NEW g \in mounted \ broken
        PROVE  IF g \in fresh
               THEN \A d \in DOMAIN stack : stack[d].gid = g => Remembers(g, stack[d].call)
               ELSE Remembers(g, Calls)
    <3>1. PICK c \in 0 .. Calls : \E slotOf \in [1 .. c -> Own(g)] :
                Answers(slotOf, Own(g), c) /\ InStep(slotOf, g, c)
      BY <2>1 DEF RecallOK, RecallOf
    <3>2. PICK slotOf \in [1 .. c -> Own(g)] : Answers(slotOf, Own(g), c) /\ InStep(slotOf, g, c)
      BY <3>1
    <3>3. Remembers(g, c)
      <4>1. c \in Nat
        BY ConstantTypes
      <4> QED
        BY <3>2, <4>1, AnswersRemember
    <3>4. CASE g \in fresh
      BY <3>2, <3>3, <3>4 DEF InStep
    <3>5. CASE g \notin fresh
      BY <3>2, <3>3, <3>5 DEF InStep
    <3> QED
      BY <3>4, <3>5
  <2> QED
    BY <2>1, <2>2 DEF CallsRemembered, StoppedOK
<1> QED
  BY <1>1, SlotArenaInvariant, PTL

\* What becomes of a slot in one step.
Pinned ==
  \A n \in DOMAIN slots :
    \/ slots[n].gid \notin DOMAIN keyOf'
    \/ slots[n].gid \in broken'
    \/ \E m \in DOMAIN slots' : slots'[m] = slots[n]

LEMMA NextPinned ==
  ASSUME Inv, Next
  PROVE  Pinned
<1>1. TypeOK /\ GroupsOK /\ SlotsDisjoint
  BY DEF Inv
<1>2. /\ slots \in Seq(Slot) /\ Len(slots) <= MaxSlots /\ hooks \in Seq(Hook) /\ Len(hooks) <= MaxHooks
      /\ used \in Nat
      /\ Apart(slots) /\ OwnedBy(slots, mounted) /\ used = Bytes(slots, 1 .. MaxIds)
  BY <1>1, DisjointIs DEF TypeOK
<1>3. CASE slots' = slots
  BY <1>3 DEF Pinned
<1>4. ASSUME NEW gid \in 1 .. MaxIds, Prune(gid)
      PROVE  Pinned
  <2>1. slots' = Without(slots, gid) /\ keyOf' = [g \in mounted \ {gid} |-> keyOf[g]]
    BY <1>4 DEF Prune
  <2>2. \A m \in DOMAIN slots : slots[m].gid # gid => \E i \in DOMAIN slots' : slots'[i] = slots[m]
    BY <1>2, <2>1, WithoutIs
  <2>3. gid \notin DOMAIN keyOf'
    BY <2>1
  <2> QED
    BY <2>2, <2>3 DEF Pinned
<1>5. CASE AllocateSlot
  <2>1. Calling /\ Allocated(slots, used, hooks)
    BY <1>5 DEF AllocateSlot
  <2>2. \A m \in DOMAIN slots : \E n \in DOMAIN slots' : slots'[n] = slots[m]
    BY <1>1, <1>2, <2>1, AllocatedIs
  <2> QED
    BY <2>2 DEF Pinned
<1>6. CASE ResizedSlot
  <2> DEFINE g0 == Top.gid
             kept == Without(slots, g0)
             bytes == used - BytesOf(g0)
             hs == Without(hooks, g0)
  <2>1. /\ Calling /\ (Allocated(kept, bytes, hs) \/ Denied(kept, bytes, hs))
        /\ broken' = broken \cup {g0}
    BY <1>6 DEF ResizedSlot
  <2>2. Wanted \in Nat
    BY <1>1, <2>1, WantedIs
  <2>3. /\ kept \in Seq(Slot)
        /\ \A m \in DOMAIN slots : slots[m].gid # g0 => \E i \in DOMAIN kept : kept[i] = slots[m]
    <3> HIDE DEF g0
    <3>1. kept = Without(slots, g0)
      OBVIOUS
    <3> HIDE DEF kept
    <3> QED
      BY <1>2, <3>1, WithoutIs
  <2> HIDE DEF kept, bytes, hs
  <2>4. \A i \in DOMAIN kept : \E n \in DOMAIN slots' : slots'[n] = kept[i]
    <3>1. CASE Allocated(kept, bytes, hs)
      <4> DEFINE k == Insertion(kept, bytes, Wanted)
                 e == NewSlot(kept, k)
      <4>1. slots' = InsertAt(kept, k, e)
        BY <3>1 DEF Allocated
      <4>2. k \in 1 .. Len(kept) + 1
        BY <2>2, <2>3, InsertionIs
      <4> HIDE DEF k, e
      <4>3. \A m \in DOMAIN kept : \E n \in DOMAIN InsertAt(kept, k, e) : InsertAt(kept, k, e)[n] = kept[m]
        BY <2>3, <4>2, InsertAtIs
      <4> QED
        BY <4>1, <4>3
    <3>2. CASE Denied(kept, bytes, hs)
      BY <3>2 DEF Denied
    <3> QED
      BY <2>1, <3>1, <3>2
  <2> QED
    BY <2>1, <2>3, <2>4 DEF Pinned
<1>7. CASE LostSlot \/ FindSlot \/ RefuseSlot \/ Exit \/ HotReload
  BY <1>3, <1>7 DEF LostSlot, FindSlot, RefuseSlot, Exit, HotReload, Denied, arena
<1>8. ASSUME NEW k \in Keys, Mount(k)
      PROVE  Pinned
  BY <1>3, <1>8 DEF Mount, arena
<1>9. ASSUME NEW g \in 1 .. MaxIds, Rerun(g)
      PROVE  Pinned
  BY <1>3, <1>9 DEF Rerun, arena
<1>10. ASSUME NEW size \in BufferSizes, AllocData(size)
       PROVE  Pinned
  BY <1>3, <1>10 DEF AllocData
<1> QED
  BY <1>4, <1>5, <1>6, <1>7, <1>8, <1>9, <1>10 DEF Next

\* A body may keep the pointer it was given: whatever slots are inserted and
\* released around it, a slot changes or goes only with its group or when a
\* hot reload resizes its struct.
THEOREM MemoryPinned == Spec => PointersPinned
<1>1. Inv /\ [Next]_vars => [Pinned]_vars
  BY NextPinned
<1>2. Spec => [][Pinned]_vars
  BY <1>1, SlotArenaInvariant, PTL DEF Spec
<1> QED
  BY <1>2 DEF PointersPinned, Pinned
=============================================================================
