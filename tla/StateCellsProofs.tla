-------------------------- MODULE StateCellsProofs --------------------------
(***************************************************************************)
(* For any composables, identifiers and capacities: the registry of cells  *)
(* follows the mounted groups, and when the invalidation queue has a place *)
(* for every key no write is forgotten.                                    *)
(***************************************************************************)
EXTENDS StateCells, Integers, FiniteSetTheorems, SequenceTheorems, TLAPS

-----------------------------------------------------------------------------
(* The cells one by one.                                                   *)

\* A cell lists a key once.
ListedOnce(c) ==
  \A i, j \in DOMAIN c.watchers : c.watchers[i] = c.watchers[j] => i = j

\* What the operations on watchers leave alone.
SameValue(c, d) ==
  d.id = c.id /\ d.inUse = c.inUse /\ d.dirty = c.dirty
    /\ d.front = c.front /\ d.back = c.back

CellOK(c) == c \in Cell /\ ListedOnce(c) /\ Len(c.watchers) <= MaxWatchers

LEMMA CellParts ==
  ASSUME NEW c, CellOK(c)
  PROVE  /\ c.watchers \in Seq(Keys) /\ Len(c.watchers) \in Nat
         /\ DOMAIN c.watchers = 1 .. Len(c.watchers)
         /\ Subscribers(c) \subseteq Keys
         /\ c.id \in Ids /\ c.front \in Nat /\ c.back \in Nat
         /\ c.dirty \in BOOLEAN /\ c.inUse \in BOOLEAN
  BY DEF CellOK, Cell, Subscribers

LEMMA NewCellFacts ==
  ASSUME StateAssumption, NEW i \in Ids
  PROVE  CellOK(NewCell(i)) /\ Subscribers(NewCell(i)) = {}
  BY DEF StateAssumption, CellOK, Cell, NewCell, ListedOnce, Subscribers

LEMMA WatchersReplaced ==
  ASSUME NEW c, CellOK(c), NEW ws \in Seq(Keys), Len(ws) <= MaxWatchers,
         \A i, j \in DOMAIN ws : ws[i] = ws[j] => i = j,
         NEW d, d = [c EXCEPT !.watchers = ws]
  PROVE  CellOK(d) /\ SameValue(c, d) /\ d.watchers = ws
  BY DEF CellOK, Cell, ListedOnce, SameValue

LEMMA SubscribedFacts ==
  ASSUME StateAssumption, NEW c, CellOK(c), NEW k \in Keys
  PROVE  /\ CellOK(Subscribed(c, k))
         /\ SameValue(c, Subscribed(c, k))
         /\ Subscribers(Subscribed(c, k)) \subseteq Subscribers(c) \cup {k}
<1>1. CASE k \in Subscribers(c) \/ Len(c.watchers) >= MaxWatchers
  BY <1>1 DEF Subscribed, SameValue
<1>2. CASE ~(k \in Subscribers(c) \/ Len(c.watchers) >= MaxWatchers)
  <2> DEFINE ws == Append(c.watchers, k)
             d == [c EXCEPT !.watchers = ws]
  <2>1. /\ c.watchers \in Seq(Keys) /\ Len(c.watchers) \in Nat
        /\ MaxWatchers \in Nat /\ Len(c.watchers) + 1 <= MaxWatchers
    BY <1>2, CellParts DEF StateAssumption
  <2>2. /\ ws \in Seq(Keys) /\ Len(ws) = Len(c.watchers) + 1
        /\ DOMAIN ws = 1 .. Len(c.watchers) + 1
        /\ ws[Len(c.watchers) + 1] = k
        /\ \A i \in 1 .. Len(c.watchers) : ws[i] = c.watchers[i]
    BY <2>1
  <2>3. \A i \in 1 .. Len(c.watchers) : c.watchers[i] # k
    BY <1>2, CellParts DEF Subscribers
  <2>4. \A i, j \in DOMAIN ws : ws[i] = ws[j] => i = j
    <3> SUFFICES ASSUME NEW i \in DOMAIN ws, NEW j \in DOMAIN ws, ws[i] = ws[j]
                 PROVE  i = j
      OBVIOUS
    <3>1. \A n \in DOMAIN ws :
            n \in 1 .. Len(c.watchers) \/ n = Len(c.watchers) + 1
      BY <2>1, <2>2
    <3>2. \A m, n \in 1 .. Len(c.watchers) :
            c.watchers[m] = c.watchers[n] => m = n
      BY CellParts DEF CellOK, ListedOnce
    <3> QED
      BY <2>2, <2>3, <3>1, <3>2
  <2> HIDE DEF ws
  <2>5. CellOK(d) /\ SameValue(c, d) /\ d.watchers = ws
    <3>1. Len(ws) <= MaxWatchers
      BY <2>1, <2>2
    <3> QED
      BY <2>2, <2>4, <3>1, WatchersReplaced
  <2>6. Subscribers(d) \subseteq Subscribers(c) \cup {k}
    <3>1. \A n \in DOMAIN ws :
            n \in 1 .. Len(c.watchers) \/ n = Len(c.watchers) + 1
      BY <2>1, <2>2
    <3>2. \A n \in 1 .. Len(c.watchers) : c.watchers[n] \in Subscribers(c)
      BY CellParts DEF Subscribers
    <3> QED
      BY <2>2, <2>5, <3>1, <3>2 DEF Subscribers
  <2> QED
    BY <1>2, <2>5, <2>6 DEF Subscribed, ws
<1> QED
  BY <1>1, <1>2

Shortened(w, n) == SubSeq(w, 1, n - 1) \o SubSeq(w, n + 1, Len(w))

LEMMA ShortenedFacts ==
  ASSUME NEW S, NEW w \in Seq(S), NEW n \in 1 .. Len(w)
  PROVE  /\ Shortened(w, n) \in Seq(S) /\ Len(Shortened(w, n)) = Len(w) - 1
         /\ \A i \in 1 .. Len(w) - 1 :
              Shortened(w, n)[i] = IF i <= n - 1 THEN w[i] ELSE w[i + 1]
<1> DEFINE before == SubSeq(w, 1, n - 1)
           after == SubSeq(w, n + 1, Len(w))
           l == Len(w)
<1>1. l \in Nat /\ n \in 1 .. l /\ \A i \in 1 .. l : w[i] \in S
  OBVIOUS
<1> HIDE DEF l
<1>2. /\ before \in Seq(S) /\ Len(before) = n - 1
      /\ \A i \in 1 .. n - 1 : before[i] = w[i]
  BY <1>1, SubSeqProperties
<1>3. /\ after \in Seq(S) /\ Len(after) = l - n
      /\ \A i \in 1 .. l - n : after[i] = w[n + i]
  <2>1. \A i \in n + 1 .. l : w[i] \in S
    BY <1>1
  <2>2. /\ after \in Seq(S)
        /\ Len(after) = IF n + 1 <= l THEN l - (n + 1) + 1 ELSE 0
        /\ \A i \in 1 .. l - (n + 1) + 1 : after[i] = w[n + 1 + i - 1]
    BY <1>1, <2>1, SubSeqProperties DEF l
  <2> HIDE DEF after
  <2>3. Len(after) = l - n
    <3>1. CASE n + 1 <= l
      <4>1. l - (n + 1) + 1 = l - n
        BY <1>1
      <4> QED
        BY <2>2, <3>1, <4>1, Zenon
    <3>2. CASE ~(n + 1 <= l)
      <4>1. l - n = 0
        BY <1>1, <3>2
      <4> QED
        BY <2>2, <3>2, <4>1, Zenon
    <3> QED
      BY <3>1, <3>2
  <2>4. ASSUME NEW i \in 1 .. l - n
        PROVE  after[i] = w[n + i]
    <3>1. i \in 1 .. l - (n + 1) + 1 /\ n + 1 + i - 1 = n + i
      BY <1>1
    <3> QED
      BY <2>2, <3>1
  <2> QED
    BY <2>2, <2>3, <2>4
<1> HIDE DEF before, after
<1>4. /\ before \o after \in Seq(S)
      /\ Len(before \o after) = (n - 1) + (l - n)
      /\ \A i \in 1 .. (n - 1) + (l - n) :
           (before \o after)[i]
             = IF i <= n - 1 THEN before[i] ELSE after[i - (n - 1)]
  <2>1. before \in Seq(S) /\ after \in Seq(S)
    BY <1>2, <1>3
  <2>2. /\ before \o after \in Seq(S)
        /\ Len(before \o after) = Len(before) + Len(after)
        /\ \A i \in 1 .. Len(before) + Len(after) :
             (before \o after)[i]
               = IF i <= Len(before) THEN before[i] ELSE after[i - Len(before)]
    BY <2>1, ConcatProperties
  <2>3. Len(before) = n - 1 /\ Len(after) = l - n
    BY <1>2, <1>3
  <2> QED
    BY <2>2, <2>3, Zenon
<1>5. (n - 1) + (l - n) = l - 1
  BY <1>1
<1>6. ASSUME NEW i \in 1 .. l - 1
      PROVE  (before \o after)[i] = IF i <= n - 1 THEN w[i] ELSE w[i + 1]
  <2>1. CASE i <= n - 1
    BY <1>1, <1>2, <1>4, <1>5, <2>1
  <2>2. CASE ~(i <= n - 1)
    <3>1. i - (n - 1) \in 1 .. l - n /\ n + (i - (n - 1)) = i + 1
      BY <1>1, <2>2
    <3> QED
      BY <1>3, <1>4, <1>5, <2>2, <3>1
  <2> QED
    BY <2>1, <2>2
<1> QED
  BY <1>4, <1>5, <1>6 DEF l, before, after, Shortened

LEMMA UnsubscribedFacts ==
  ASSUME StateAssumption, NEW c, CellOK(c), NEW k \in Keys
  PROVE  /\ CellOK(Unsubscribed(c, k))
         /\ SameValue(c, Unsubscribed(c, k))
         /\ Subscribers(Unsubscribed(c, k)) \subseteq Subscribers(c)
         /\ c.inUse => k \notin Subscribers(Unsubscribed(c, k))
<1>1. CASE ~(c.inUse /\ k \in Subscribers(c))
  BY <1>1 DEF Unsubscribed, SameValue
<1>2. CASE c.inUse /\ k \in Subscribers(c)
  <2> DEFINE w == c.watchers
             n == CHOOSE m \in DOMAIN w : w[m] = k
             ws == Shortened(w, n)
             d == [c EXCEPT !.watchers = ws]
  <2>1. /\ w \in Seq(Keys) /\ Len(w) \in Nat /\ DOMAIN w = 1 .. Len(w)
        /\ MaxWatchers \in Nat /\ Len(w) <= MaxWatchers
        /\ \A i, j \in 1 .. Len(w) : w[i] = w[j] => i = j
    BY CellParts DEF StateAssumption, CellOK, ListedOnce
  <2>2. n \in 1 .. Len(w) /\ w[n] = k
    <3>1. \E m \in DOMAIN w : w[m] = k
      BY <1>2 DEF Subscribers
    <3> QED
      BY <2>1, <3>1
  <2>3. Unsubscribed(c, k) = d
    BY <1>2 DEF Unsubscribed, Shortened
  <2> HIDE DEF n, w
  <2>4. w \in Seq(Keys) /\ n \in 1 .. Len(w)
    BY <2>1, <2>2
  <2>5. /\ ws \in Seq(Keys) /\ Len(ws) = Len(w) - 1
        /\ \A i \in 1 .. Len(w) - 1 :
             ws[i] = IF i <= n - 1 THEN w[i] ELSE w[i + 1]
    BY <2>4, ShortenedFacts
  <2> HIDE DEF ws
  <2>6. DOMAIN ws = 1 .. Len(w) - 1
    BY <2>5
  <2>7. \A i \in 1 .. Len(w) - 1 :
          \E m \in 1 .. Len(w) : /\ m # n /\ ws[i] = w[m]
                               /\ m = IF i <= n - 1 THEN i ELSE i + 1
    BY <2>1, <2>2, <2>5
  <2>8. \A i, j \in DOMAIN ws : ws[i] = ws[j] => i = j
    <3> SUFFICES ASSUME NEW i \in 1 .. Len(w) - 1, NEW j \in 1 .. Len(w) - 1,
                        ws[i] = ws[j]
                 PROVE  i = j
      BY <2>6
    <3>1. PICK m \in 1 .. Len(w) :
            ws[i] = w[m] /\ m = IF i <= n - 1 THEN i ELSE i + 1
      BY <2>7
    <3>2. PICK l \in 1 .. Len(w) :
            ws[j] = w[l] /\ l = IF j <= n - 1 THEN j ELSE j + 1
      BY <2>7
    <3>3. m = l
      BY <2>1, <3>1, <3>2
    <3>4. i \in Int /\ j \in Int /\ n \in Int
      BY <2>1, <2>2
    <3> QED
      BY <3>1, <3>2, <3>3, <3>4
  <2>9. CellOK(d) /\ SameValue(c, d) /\ d.watchers = ws
    <3>1. Len(ws) <= MaxWatchers
      BY <2>1, <2>2, <2>5
    <3> QED
      BY <2>5, <2>8, <3>1, WatchersReplaced
  <2>10. \A i \in DOMAIN ws : ws[i] \in Subscribers(c) /\ ws[i] # k
    <3> SUFFICES ASSUME NEW i \in 1 .. Len(w) - 1
                 PROVE  ws[i] \in Subscribers(c) /\ ws[i] # k
      BY <2>6
    <3>1. PICK m \in 1 .. Len(w) : m # n /\ ws[i] = w[m]
      BY <2>7
    <3>2. w[m] # w[n]
      BY <2>1, <2>2, <3>1
    <3>3. w[m] \in Subscribers(c)
      BY <2>1 DEF w, Subscribers
    <3> QED
      BY <2>2, <3>1, <3>2, <3>3
  <2> QED
    BY <2>3, <2>9, <2>10 DEF Subscribers, ws
<1> QED
  BY <1>1, <1>2

LEMMA FreedFacts ==
  ASSUME StateAssumption, NEW c, CellOK(c)
  PROVE  /\ CellOK(Freed(c)) /\ Freed(c).id = c.id
         /\ ~Freed(c).inUse /\ ~Freed(c).dirty
         /\ Subscribers(Freed(c)) = {}
<1>1. /\ Freed(c) \in Cell /\ Freed(c).id = c.id
      /\ ~Freed(c).inUse /\ ~Freed(c).dirty /\ Freed(c).watchers = <<>>
  BY DEF CellOK, Cell, Freed
<1> QED
  BY <1>1 DEF StateAssumption, CellOK, ListedOnce, Subscribers

LEMMA PublishedFacts ==
  ASSUME NEW c, CellOK(c)
  PROVE  /\ CellOK(Published(c))
         /\ Published(c).id = c.id /\ Published(c).inUse = c.inUse
         /\ Published(c).back = c.back
         /\ Subscribers(Published(c)) = Subscribers(c)
         /\ c.inUse => ~Published(c).dirty
         /\ (c.inUse /\ ~c.dirty => c.front = c.back) =>
              (c.inUse => Published(c).front = c.back)
<1>1. CASE c.inUse /\ c.dirty
  BY <1>1 DEF CellOK, Cell, Published, ListedOnce, Subscribers
<1>2. CASE ~(c.inUse /\ c.dirty)
  BY <1>2 DEF CellOK, Cell, Published
<1> QED
  BY <1>1, <1>2

-----------------------------------------------------------------------------
(* The invalidation queue.                                                 *)

\* The positions up to n of watchers that Q does not hold.
NewUpTo(Q, ws, n) == {m \in 1 .. n : ws[m] \notin Q}

LEMMA NewUpToFacts ==
  ASSUME NEW Q, NEW ws, NEW n \in Nat
  PROVE  /\ IsFiniteSet(NewUpTo(Q, ws, n))
         /\ Cardinality(NewUpTo(Q, ws, n)) \in Nat
         /\ NewUpTo(Q, ws, n) # {} => Cardinality(NewUpTo(Q, ws, n)) >= 1
<1>1. IsFiniteSet(1 .. n) /\ NewUpTo(Q, ws, n) \in SUBSET (1 .. n)
  BY FS_Interval DEF NewUpTo
<1>2. IsFiniteSet(NewUpTo(Q, ws, n))
  BY <1>1, FS_Subset
<1>3. Cardinality(NewUpTo(Q, ws, n)) \in Nat
  BY <1>2, FS_CardinalityType
<1> QED
  BY <1>2, <1>3, FS_EmptySet

LEMMA NewUpToGrows ==
  ASSUME NEW Q, NEW ws, NEW m \in Nat, NEW n \in Nat, m < n, ws[n] \notin Q
  PROVE  Cardinality(NewUpTo(Q, ws, m)) < Cardinality(NewUpTo(Q, ws, n))
<1> DEFINE small == NewUpTo(Q, ws, m)
           large == NewUpTo(Q, ws, n)
<1>1. n \notin small /\ small \cup {n} \in SUBSET large
  BY DEF NewUpTo
<1>2. /\ IsFiniteSet(small) /\ Cardinality(small) \in Nat
      /\ IsFiniteSet(large) /\ Cardinality(large) \in Nat
  BY NewUpToFacts
<1> HIDE DEF small, large
<1>3. Cardinality(small \cup {n}) = Cardinality(small) + 1
  BY <1>1, <1>2, FS_AddElement
<1>4. Cardinality(small \cup {n}) <= Cardinality(large)
  BY <1>1, <1>2, FS_Subset
<1>5. Cardinality(small) < Cardinality(large)
  BY <1>2, <1>3, <1>4
<1> QED
  BY <1>5 DEF small, large

\* Queueing watchers keeps what is queued and never exceeds the queue.
LEMMA EnqueuedFacts ==
  ASSUME StateAssumption, NEW c, CellOK(c), NEW Q \in SUBSET Keys,
         IsFiniteSet(Q), Cardinality(Q) <= MaxQueue
  PROVE  /\ Q \subseteq Enqueued(Q, c.watchers)
         /\ Enqueued(Q, c.watchers) \subseteq Keys
         /\ IsFiniteSet(Enqueued(Q, c.watchers))
         /\ Cardinality(Enqueued(Q, c.watchers)) <= MaxQueue
<1> DEFINE ws == c.watchers
           room == MaxQueue - Cardinality(Q)
           taken == {n \in DOMAIN ws : /\ ws[n] \notin Q
                                       /\ Cardinality(NewUpTo(Q, ws, n)) <= room}
           keys == {ws[n] : n \in taken}
<1>1. /\ DOMAIN ws \subseteq Nat /\ \A n \in DOMAIN ws : ws[n] \in Keys
      /\ \A n \in DOMAIN ws : n \in 1 .. n
  BY CellParts DEF Subscribers
<1>2. Cardinality(Q) \in Nat /\ room \in Nat /\ MaxQueue \in Nat
  BY FS_CardinalityType DEF StateAssumption
<1>3. Enqueued(Q, ws) = Q \cup keys
  BY DEF Enqueued, NewUpTo
<1> HIDE DEF ws
<1>4. IsFiniteSet(taken) /\ Cardinality(taken) <= room
  <2> DEFINE rank == [n \in taken |-> Cardinality(NewUpTo(Q, ws, n))]
  <2>1. ASSUME NEW n \in taken
        PROVE  rank[n] \in 1 .. room
    <3>1. n \in Nat /\ n \in NewUpTo(Q, ws, n)
      BY <1>1 DEF NewUpTo
    <3>2. /\ Cardinality(NewUpTo(Q, ws, n)) \in Nat
          /\ Cardinality(NewUpTo(Q, ws, n)) >= 1
      BY <3>1, NewUpToFacts
    <3> QED
      BY <1>2, <3>2
  <2>2. ASSUME NEW m \in taken, NEW n \in taken, m # n
        PROVE  rank[m] # rank[n]
    <3>1. m \in Nat /\ n \in Nat /\ ws[m] \notin Q /\ ws[n] \notin Q
      BY <1>1
    <3>2. m < n \/ n < m
      BY <2>2, <3>1
    <3>3. rank[m] < rank[n] \/ rank[n] < rank[m]
      BY <3>1, <3>2, NewUpToGrows
    <3> QED
      BY <2>1, <3>3
  <2>3. rank \in Injection(taken, 1 .. room)
    BY <2>1, <2>2 DEF Injection, IsInjective
  <2>4. IsFiniteSet(1 .. room) /\ Cardinality(1 .. room) = room
    BY <1>2, FS_Interval
  <2> QED
    BY <2>3, <2>4, FS_Injection
<1>5. IsFiniteSet(keys) /\ Cardinality(keys) <= Cardinality(taken)
  <2> DEFINE at == [n \in taken |-> ws[n]]
  <2>1. at \in Surjection(taken, keys)
    BY DEF Surjection
  <2> QED
    BY <1>4, <2>1, FS_Surjection
<1>6. keys \subseteq Keys
  BY <1>1
<1> HIDE DEF keys, taken, room
<1>7. /\ Cardinality(taken) \in Nat /\ Cardinality(keys) \in Nat
      /\ IsFiniteSet(Q \cap keys) /\ Cardinality(Q \cap keys) \in Nat
  BY <1>4, <1>5, FS_CardinalityType, FS_Intersection
<1>8. /\ IsFiniteSet(Q \cup keys)
      /\ Cardinality(Q \cup keys)
           = Cardinality(Q) + Cardinality(keys) - Cardinality(Q \cap keys)
  BY <1>5, FS_Union
<1>9. Cardinality(Q \cup keys) <= MaxQueue
  BY <1>2, <1>4, <1>5, <1>7, <1>8 DEF room
<1> QED
  BY <1>3, <1>6, <1>8, <1>9 DEF ws

\* The queue has a place for every key.
QueueHoldsAll == IsFiniteSet(Keys) /\ Cardinality(Keys) <= MaxQueue

\* Then every watcher of a cell is queued when the cell is written.
LEMMA AllEnqueued ==
  ASSUME StateAssumption, QueueHoldsAll, NEW c, CellOK(c),
         NEW Q \in SUBSET Keys
  PROVE  Subscribers(c) \subseteq Enqueued(Q, c.watchers)
<1> DEFINE ws == c.watchers
           room == MaxQueue - Cardinality(Q)
<1>1. /\ DOMAIN ws \subseteq Nat
      /\ \A n \in DOMAIN ws : 1 .. n \subseteq DOMAIN ws
      /\ \A n \in DOMAIN ws : ws[n] \in Keys
      /\ \A m, n \in DOMAIN ws : ws[m] = ws[n] => m = n
  BY CellParts DEF Subscribers, CellOK, ListedOnce
<1> HIDE DEF ws
<1>2. /\ IsFiniteSet(Keys \ Q) /\ Cardinality(Keys \ Q) <= room
      /\ Cardinality(Keys \ Q) \in Nat /\ room \in Int
  <2>1. /\ IsFiniteSet(Keys \ Q)
        /\ Cardinality(Keys \ Q) = Cardinality(Keys) - Cardinality(Keys \cap Q)
    BY FS_Difference DEF QueueHoldsAll
  <2>2. Keys \cap Q = Q /\ IsFiniteSet(Q)
    BY FS_Subset DEF QueueHoldsAll
  <2>3. /\ Cardinality(Keys) \in Nat /\ Cardinality(Q) \in Nat
        /\ Cardinality(Keys \ Q) \in Nat /\ MaxQueue \in Nat
        /\ Cardinality(Keys) <= MaxQueue
    BY <2>1, <2>2, FS_CardinalityType DEF QueueHoldsAll, StateAssumption
  <2> DEFINE all == Cardinality(Keys)
             queued == Cardinality(Q)
             rest == Cardinality(Keys \ Q)
  <2>4. rest = all - queued /\ all \in Nat /\ queued \in Nat /\ rest \in Nat
        /\ MaxQueue \in Nat /\ all <= MaxQueue
    BY <2>1, <2>2, <2>3
  <2> HIDE DEF all, queued, rest
  <2>5. rest <= MaxQueue - queued /\ MaxQueue - queued \in Int
    BY <2>4
  <2> QED
    BY <2>1, <2>4, <2>5 DEF all, queued, rest
<1> HIDE DEF room
<1>3. ASSUME NEW n \in DOMAIN ws
      PROVE  Cardinality(NewUpTo(Q, ws, n)) <= room
  <2> DEFINE new == NewUpTo(Q, ws, n)
             at == [m \in new |-> ws[m]]
  <2>1. at \in Injection(new, Keys \ Q)
    BY <1>1 DEF NewUpTo, Injection, IsInjective
  <2>2. IsFiniteSet(new) /\ Cardinality(new) <= Cardinality(Keys \ Q)
    BY <1>2, <2>1, FS_Injection
  <2>3. Cardinality(new) \in Nat
    BY <2>2, FS_CardinalityType
  <2> QED
    BY <1>2, <2>2, <2>3
<1>4. \A n \in DOMAIN ws : ws[n] \in Enqueued(Q, ws)
  BY <1>3 DEF Enqueued, NewUpTo, room
<1> QED
  BY <1>4 DEF Subscribers, ws

-----------------------------------------------------------------------------
(* The registry.                                                           *)

CellsInv ==
  /\ cells \in Seq(Cell)
  /\ Len(cells) <= MaxStates
  /\ \A n \in DOMAIN cells : CellOK(cells[n])
  /\ OneLiveCell
  /\ CleanIsPublished

LEMMA CellsDomain ==
  ASSUME CellsInv
  PROVE  /\ Len(cells) \in Nat /\ DOMAIN cells = 1 .. Len(cells)
         /\ cells \in [1 .. Len(cells) -> Cell]
         /\ \A n \in DOMAIN cells : CellOK(cells[n])
  BY DEF CellsInv

LEMMA CellOfLive ==
  ASSUME CellsInv, NEW i \in Ids, Live(i) # {}
  PROVE  /\ CellOf(i) \in DOMAIN cells
         /\ cells[CellOf(i)].inUse /\ cells[CellOf(i)].id = i
         /\ \A n \in DOMAIN cells :
              cells[n].inUse /\ cells[n].id = i => n = CellOf(i)
<1>1. PICK n \in Live(i) : TRUE
  OBVIOUS
<1>2. \A m \in Live(i) : m = n
  BY <1>1 DEF CellsInv, OneLiveCell
<1>3. n \in Nat
  BY <1>1, CellsDomain DEF Live
<1>4. CellOf(i) \in Live(i)
  <2>1. \E l \in Live(i) : \A m \in Live(i) : l <= m
    BY <1>1, <1>2, <1>3
  <2> QED
    BY <2>1 DEF CellOf, Least
<1> QED
  BY <1>2, <1>4 DEF Live

\* Cells changed in place: the identifiers stay, and no cell comes alive.
LEMMA CellsChanged ==
  ASSUME StateAssumption, CellsInv, cells' \in [DOMAIN cells -> Cell],
         \A n \in DOMAIN cells :
           /\ CellOK(cells'[n])
           /\ cells'[n].id = cells[n].id
           /\ cells'[n].inUse => cells[n].inUse
           /\ cells'[n].inUse /\ ~cells'[n].dirty
                => cells'[n].front = cells'[n].back
  PROVE  CellsInv' /\ DOMAIN cells' = DOMAIN cells
<1>1. DOMAIN cells' = DOMAIN cells
  OBVIOUS
<1>2. cells' \in Seq(Cell) /\ Len(cells') = Len(cells)
  <2> DEFINE l == Len(cells)
  <2>1. l \in Nat /\ cells' \in [1 .. l -> Cell]
    BY CellsDomain
  <2> HIDE DEF l
  <2>2. cells' \in Seq(Cell)
    BY <2>1, SeqDef
  <2>3. Len(cells') = l
    BY <2>1, <2>2
  <2> QED
    BY <2>2, <2>3 DEF l
<1>3. OneLiveCell'
  BY <1>1 DEF CellsInv, OneLiveCell, Live
<1>4. CleanIsPublished'
  BY <1>1 DEF CleanIsPublished
<1> QED
  BY <1>1, <1>2, <1>3, <1>4 DEF CellsInv

LEMMA PublishFacts ==
  ASSUME StateAssumption, CellsInv, Publish
  PROVE  /\ CellsInv' /\ DOMAIN cells' = DOMAIN cells
         /\ \A n \in DOMAIN cells :
              /\ cells'[n].id = cells[n].id
              /\ cells'[n].inUse = cells[n].inUse
              /\ cells'[n].back = cells[n].back
              /\ Subscribers(cells'[n]) = Subscribers(cells[n])
              /\ cells'[n].inUse => ~cells'[n].dirty
<1>1. /\ DOMAIN cells' = DOMAIN cells
      /\ \A n \in DOMAIN cells : cells'[n] = Published(cells[n])
  BY DEF Publish
<1>2. \A n \in DOMAIN cells :
        cells[n].inUse /\ ~cells[n].dirty => cells[n].front = cells[n].back
  BY DEF CellsInv, CleanIsPublished
<1>3. ASSUME NEW n \in DOMAIN cells
      PROVE  /\ CellOK(cells'[n])
             /\ cells'[n].id = cells[n].id
             /\ cells'[n].inUse = cells[n].inUse
             /\ cells'[n].back = cells[n].back
             /\ Subscribers(cells'[n]) = Subscribers(cells[n])
             /\ cells'[n].inUse => ~cells'[n].dirty
             /\ cells'[n].inUse => cells'[n].front = cells'[n].back
  BY <1>1, <1>2, PublishedFacts, CellsDomain
<1>4. cells' \in [DOMAIN cells -> Cell]
  BY <1>3 DEF Publish, CellOK
<1>5. CellsInv'
  BY <1>3, <1>4, CellsChanged
<1> QED
  BY <1>1, <1>3, <1>5

LEMMA CreateFacts ==
  ASSUME StateAssumption, CellsInv, NEW i \in Ids, Live(i) = {}, Create(i),
         cells' # cells
  PROVE  /\ CellsInv' /\ phase' = phase
         /\ DOMAIN cells' = DOMAIN cells \cup {Len(cells) + 1}
         /\ Len(cells) + 1 \notin DOMAIN cells
         /\ \A n \in DOMAIN cells : cells'[n] = cells[n]
         /\ cells'[Len(cells) + 1] = NewCell(i)
<1> DEFINE l == Len(cells)
           cell == NewCell(i)
<1>1. /\ l \in Nat /\ DOMAIN cells = 1 .. l /\ l < MaxStates
      /\ MaxStates \in Nat /\ cells \in Seq(Cell)
      /\ cells' = Append(cells, cell) /\ phase' = phase
  BY CellsDomain DEF CellsInv, Create, RegistryFull, StateAssumption
<1>2. cell \in Cell /\ CellOK(cell) /\ cell.id = i /\ ~cell.dirty
      /\ cell.front = cell.back
  BY NewCellFacts DEF CellOK, NewCell
<1> HIDE DEF cell
<1>3. /\ cells' \in Seq(Cell) /\ Len(cells') = Len(cells) + 1
      /\ cells'[Len(cells) + 1] = cell
      /\ \A n \in 1 .. Len(cells) : cells'[n] = cells[n]
  <2>1. cells \in Seq(Cell) /\ cell \in Cell
    BY <1>1, <1>2
  <2>2. /\ Append(cells, cell) \in Seq(Cell)
        /\ Len(Append(cells, cell)) = Len(cells) + 1
        /\ Append(cells, cell)[Len(cells) + 1] = cell
        /\ \A n \in 1 .. Len(cells) : Append(cells, cell)[n] = cells[n]
    BY <2>1, AppendProperties
  <2> QED
    BY <1>1, <2>2, Zenon
<1>4. DOMAIN cells' = 1 .. l + 1
  BY <1>3
<1> HIDE DEF l
<1>5. 1 .. l + 1 = (1 .. l) \cup {l + 1} /\ l + 1 \notin 1 .. l
      /\ l + 1 <= MaxStates
  BY <1>1
<1>6. OneLiveCell'
  <2> SUFFICES ASSUME NEW j \in Ids, NEW m \in Live(j)', NEW n \in Live(j)'
               PROVE  m = n
    BY DEF OneLiveCell
  <2>1. ASSUME NEW k \in Live(j)'
        PROVE  k \in Live(j) \/ (k = l + 1 /\ j = i)
    <3>1. k \in DOMAIN cells' /\ cells'[k].inUse /\ cells'[k].id = j
      BY DEF Live
    <3>2. k \in 1 .. l \/ k = l + 1
      BY <3>1, <1>4, <1>5, Zenon
    <3>3. CASE k = l + 1
      BY <3>1, <3>3, <1>2, <1>3 DEF l
    <3>4. CASE k \in 1 .. l
      <4>1. k \in DOMAIN cells /\ cells'[k] = cells[k]
        BY <3>4, <1>1, <1>3 DEF l
      <4> QED
        BY <3>1, <4>1 DEF Live
    <3> QED
      BY <3>2, <3>3, <3>4
  <2> QED
    BY <2>1 DEF CellsInv, OneLiveCell
<1>7. CleanIsPublished' /\ \A n \in DOMAIN cells' : CellOK(cells'[n])
  <2> SUFFICES ASSUME NEW n \in DOMAIN cells'
               PROVE  /\ CellOK(cells'[n])
                      /\ cells'[n].inUse /\ ~cells'[n].dirty
                           => cells'[n].front = cells'[n].back
    BY DEF CleanIsPublished
  <2>1. CASE n = l + 1
    BY <1>2, <1>3, <2>1 DEF l
  <2>2. CASE n \in 1 .. l
    <3>1. cells'[n] = cells[n] /\ n \in DOMAIN cells
      BY <1>1, <1>3, <2>2 DEF l
    <3> QED
      BY <3>1 DEF CleanIsPublished, CellsInv
  <2> QED
    BY <1>4, <1>5, <2>1, <2>2
<1> QED
  BY <1>1, <1>3, <1>4, <1>5, <1>6, <1>7 DEF CellsInv, l, cell

\* A subscription changes one list of watchers.
LEMMA WatchFacts ==
  ASSUME StateAssumption, CellsInv, NEW i \in Ids, Live(i) # {},
         NEW k \in Keys,
         cells' = [cells EXCEPT ![CellOf(i)] = Subscribed(@, k)]
  PROVE  /\ CellsInv' /\ DOMAIN cells' = DOMAIN cells
         /\ \A n \in DOMAIN cells :
              /\ SameValue(cells[n], cells'[n])
              /\ n # CellOf(i) => cells'[n] = cells[n]
              /\ Subscribers(cells'[n]) \subseteq Subscribers(cells[n]) \cup {k}
<1> DEFINE n0 == CellOf(i)
<1>1. n0 \in DOMAIN cells /\ cells \in [DOMAIN cells -> Cell]
  BY CellOfLive, CellsDomain
<1> HIDE DEF n0
<1>2. /\ DOMAIN cells' = DOMAIN cells
      /\ \A n \in DOMAIN cells :
           cells'[n] = IF n = n0 THEN Subscribed(cells[n], k) ELSE cells[n]
  BY <1>1 DEF n0
<1>3. ASSUME NEW n \in DOMAIN cells
      PROVE  /\ CellOK(cells'[n])
             /\ SameValue(cells[n], cells'[n])
             /\ n # n0 => cells'[n] = cells[n]
             /\ Subscribers(cells'[n]) \subseteq Subscribers(cells[n]) \cup {k}
  <2>1. CASE n = n0
    BY <1>2, <2>1, SubscribedFacts, CellsDomain
  <2>2. CASE n # n0
    BY <1>2, <2>2, CellsDomain DEF SameValue
  <2> QED
    BY <2>1, <2>2
<1>4. cells' \in [DOMAIN cells -> Cell]
  BY <1>1, <1>3 DEF n0, CellOK
<1>5. CellsInv'
  BY <1>3, <1>4, CellsChanged DEF SameValue, CellsInv, CleanIsPublished
<1> QED
  BY <1>2, <1>3, <1>5 DEF n0

LEMMA MutateFacts ==
  ASSUME StateAssumption, CellsInv, writes \in Nat, NEW i \in Ids, Mutate(i)
  PROVE  /\ CellsInv' /\ DOMAIN cells' = DOMAIN cells
         /\ \A n \in DOMAIN cells :
              /\ cells'[n].id = cells[n].id
              /\ cells'[n].inUse = cells[n].inUse
              /\ Subscribers(cells'[n]) = Subscribers(cells[n])
              /\ n # CellOf(i) => cells'[n] = cells[n]
<1> DEFINE n0 == CellOf(i)
<1>1. n0 \in DOMAIN cells /\ cells \in [DOMAIN cells -> Cell]
  BY CellOfLive, CellsDomain DEF Mutate
<1>2. cells' = [cells EXCEPT ![n0].back = writes + 1, ![n0].dirty = TRUE]
  BY DEF Mutate
<1> HIDE DEF n0
<1> DEFINE c == cells[n0]
           d == [id |-> c.id, front |-> c.front, back |-> writes + 1,
                 dirty |-> TRUE, inUse |-> c.inUse, watchers |-> c.watchers]
<1>3. c \in Cell /\ CellOK(c)
  BY <1>1, CellsDomain
<1>4. cells'[n0] = d
  BY <1>1, <1>2, <1>3 DEF Cell
<1>5. /\ DOMAIN cells' = DOMAIN cells
      /\ \A n \in DOMAIN cells : n # n0 => cells'[n] = cells[n]
  BY <1>1, <1>2
<1>6. d \in Cell /\ CellOK(d) /\ Subscribers(d) = Subscribers(c)
  BY <1>3 DEF CellOK, Cell, ListedOnce, Subscribers
<1>7. ASSUME NEW n \in DOMAIN cells
      PROVE  /\ CellOK(cells'[n])
             /\ cells'[n].id = cells[n].id
             /\ cells'[n].inUse = cells[n].inUse
             /\ Subscribers(cells'[n]) = Subscribers(cells[n])
             /\ cells'[n].inUse /\ ~cells'[n].dirty
                  => cells'[n].front = cells'[n].back
  <2>1. CASE n = n0
    BY <1>4, <1>6, <2>1
  <2>2. CASE n # n0
    BY <1>5, <2>2, CellsDomain DEF CellsInv, CleanIsPublished
  <2> QED
    BY <2>1, <2>2
<1>8. cells' \in [DOMAIN cells -> Cell]
  BY <1>1, <1>2, <1>5, <1>7 DEF CellOK
<1>9. CellsInv'
  BY <1>7, <1>8, CellsChanged
<1> QED
  BY <1>5, <1>7, <1>9 DEF n0

LEMMA DropFacts ==
  ASSUME StateAssumption, CellsInv, NEW k \in Keys, Drop(k)
  PROVE  /\ CellsInv' /\ DOMAIN cells' = DOMAIN cells
         /\ \A n \in DOMAIN cells :
              /\ cells'[n].id = cells[n].id
              /\ cells'[n].inUse
                   <=> cells[n].inUse /\ ~(k \in hooked /\ cells[n].id = k)
              /\ cells'[n].inUse => SameValue(cells[n], cells'[n])
              /\ cells'[n].inUse => k \notin Subscribers(cells'[n])
              /\ Subscribers(cells'[n]) \subseteq Subscribers(cells[n])
              /\ cells[n].inUse /\ ~cells'[n].inUse
                   => Subscribers(cells'[n]) = {}
              /\ cells'[n].dirty => cells[n].dirty
<1> DEFINE After(c) == IF k \in hooked /\ c.inUse /\ c.id = k THEN Freed(c) ELSE c
<1>1. /\ DOMAIN cells' = DOMAIN cells
      /\ \A n \in DOMAIN cells : cells'[n] = Unsubscribed(After(cells[n]), k)
      /\ cells' = [n \in DOMAIN cells |-> Unsubscribed(After(cells[n]), k)]
  BY DEF Drop
<1>2. ASSUME NEW n \in DOMAIN cells
      PROVE  /\ CellOK(cells'[n])
             /\ cells'[n].id = cells[n].id
             /\ cells'[n].inUse
                  <=> cells[n].inUse /\ ~(k \in hooked /\ cells[n].id = k)
             /\ cells'[n].inUse => SameValue(cells[n], cells'[n])
             /\ cells'[n].inUse => k \notin Subscribers(cells'[n])
             /\ Subscribers(cells'[n]) \subseteq Subscribers(cells[n])
             /\ cells[n].inUse /\ ~cells'[n].inUse
                  => Subscribers(cells'[n]) = {}
             /\ cells'[n].dirty => cells[n].dirty
  <2> DEFINE c == cells[n]
             d == Unsubscribed(c, k)
             f == Unsubscribed(Freed(c), k)
  <2>1. CellOK(c) /\ c.inUse \in BOOLEAN
    BY CellsDomain, CellParts
  <2>2. CASE k \in hooked /\ c.inUse /\ c.id = k
    <3>1. cells'[n] = f
      BY <1>1, <2>2
    <3>2. /\ CellOK(Freed(c)) /\ Freed(c).id = c.id
          /\ ~Freed(c).inUse /\ ~Freed(c).dirty /\ Subscribers(Freed(c)) = {}
      BY <2>1, FreedFacts
    <3>3. CellOK(f) /\ SameValue(Freed(c), f) /\ Subscribers(f) = {}
      BY <3>2, UnsubscribedFacts
    <3> QED
      BY <2>2, <3>1, <3>2, <3>3 DEF SameValue
  <2>3. CASE ~(k \in hooked /\ c.inUse /\ c.id = k)
    <3>1. cells'[n] = d
      BY <1>1, <2>3
    <3>2. /\ CellOK(d) /\ SameValue(c, d)
          /\ Subscribers(d) \subseteq Subscribers(c)
          /\ c.inUse => k \notin Subscribers(d)
      BY <2>1, UnsubscribedFacts
    <3> QED
      BY <2>3, <3>1, <3>2 DEF SameValue
  <2> QED
    BY <2>2, <2>3
<1>3. cells' \in [DOMAIN cells -> Cell]
  BY <1>1, <1>2 DEF CellOK
<1>4. CellsInv'
  BY <1>2, <1>3, CellsChanged DEF SameValue, CellsInv, CleanIsPublished
<1> QED
  BY <1>1, <1>2, <1>4

-----------------------------------------------------------------------------
(* The state around the registry.                                          *)

\* Running bodies have been entered in this iteration, below the root.
Nested ==
  /\ \A d \in DOMAIN open : open[d] \in visited
  /\ visited \subseteq mounted
  /\ mounted # {} => Root \in mounted
  /\ open # <<>> => Root \in visited
  /\ phase = "idle" => open = <<>>

ControlInv ==
  /\ queue \subseteq Keys /\ Cardinality(queue) <= MaxQueue
  /\ IsFiniteSet(queue)
  /\ mounted \subseteq Keys
  /\ holds \subseteq Stateful /\ hooked \subseteq Stateful
  /\ due \subseteq Keys /\ visited \subseteq Keys
  /\ open \in Seq(Keys)
  /\ phase \in {"idle", "walk", "overflow"}
  /\ drains \in 0..MaxDrain
  /\ composed \in BOOLEAN /\ reload \in BOOLEAN
  /\ writes \in Nat
  /\ seen \in [Keys -> [Ids -> Nat]]
  /\ missed \subseteq Keys \X Ids
  /\ Nested

RegistryInv ==
  /\ CellsInv
  /\ ControlInv
  /\ HoldersKeepTheirCell
  /\ WatchersAreMounted

LEMMA MeFacts ==
  ASSUME ControlInv, InBody
  PROVE  Me \in Keys /\ Me \in visited /\ Me \in mounted /\ Root \in mounted
<1>1. open \in Seq(Keys) /\ open # <<>> /\ Len(open) \in DOMAIN open
  BY DEF ControlInv, InBody
<1> QED
  BY <1>1 DEF ControlInv, Nested, Me

LEMMA BeginIterationInv ==
  ASSUME StateAssumption, RegistryInv, NEW d \in 1 .. MaxDrain,
         open = <<>>, phase # "overflow", BeginIteration(d),
         composed' \in BOOLEAN, reload' \in BOOLEAN
  PROVE  RegistryInv'
<1>1. /\ CellsInv' /\ DOMAIN cells' = DOMAIN cells
      /\ \A n \in DOMAIN cells :
           /\ cells'[n].id = cells[n].id
           /\ cells'[n].inUse = cells[n].inUse
           /\ Subscribers(cells'[n]) = Subscribers(cells[n])
  BY PublishFacts DEF RegistryInv, BeginIteration
<1>2. /\ queue' = {} /\ visited' = {} /\ drains' = d /\ phase' = "walk"
      /\ due' = due \cup (queue \cap mounted)
      /\ UNCHANGED <<writes, mounted, holds, hooked, open, seen, missed>>
  BY DEF BeginIteration, table, shown
<1>3. ControlInv'
  <2>1. Nested'
    BY <1>2 DEF RegistryInv, ControlInv, Nested
  <2>2. Cardinality(queue') <= MaxQueue /\ IsFiniteSet(queue')
    BY <1>2, FS_EmptySet DEF StateAssumption
  <2>3. drains' \in 0 .. MaxDrain
    BY <1>2 DEF StateAssumption
  <2> QED
    BY <1>2, <2>1, <2>2, <2>3 DEF RegistryInv, ControlInv
<1>4. HoldersKeepTheirCell'
  BY <1>1, <1>2 DEF RegistryInv, HoldersKeepTheirCell, Live
<1>5. WatchersAreMounted'
  BY <1>1, <1>2 DEF RegistryInv, WatchersAreMounted
<1> QED
  BY <1>1, <1>3, <1>4, <1>5 DEF RegistryInv

\* The actions that leave the cells alone.
LEMMA CellsKept ==
  ASSUME RegistryInv, ControlInv', cells' = cells, phase # "overflow",
         mounted \subseteq mounted', holds' = holds, hooked' = hooked
  PROVE  RegistryInv'
<1>1. CellsInv'
  BY DEF RegistryInv, CellsInv, OneLiveCell, Live, CleanIsPublished
<1>2. HoldersKeepTheirCell' /\ WatchersAreMounted'
  BY DEF RegistryInv, HoldersKeepTheirCell, WatchersAreMounted, Live
<1> QED
  BY <1>1, <1>2 DEF RegistryInv

LEMMA EnterInv ==
  ASSUME StateAssumption, RegistryInv, NEW k \in Keys, Enter(k)
  PROVE  RegistryInv'
<1>1. open' \in Seq(Keys) /\ Nested'
  <2>1. /\ open \in Seq(Keys) /\ Len(open) \in Nat /\ DOMAIN open = 1 .. Len(open)
        /\ open' = Append(open, k)
    BY DEF RegistryInv, ControlInv, Enter
  <2>2. /\ open' \in Seq(Keys) /\ open' # <<>>
        /\ DOMAIN open' = 1 .. Len(open) + 1
        /\ \A d \in DOMAIN open' : open'[d] = k \/ \E e \in DOMAIN open : open'[d] = open[e]
    BY <2>1
  <2>3. /\ mounted' = mounted \cup {k} /\ visited' = visited \cup {k}
        /\ phase = "walk" /\ phase' = phase
        /\ k = Root <=> open = <<>>
    BY DEF Enter
  <2>4. Root \in visited' /\ Root \in mounted'
    BY <2>3 DEF RegistryInv, ControlInv, Nested
  <2> QED
    BY <2>2, <2>3, <2>4 DEF RegistryInv, ControlInv, Nested
<1>2. /\ seen' \in [Keys -> [Ids -> Nat]] /\ missed' \subseteq Keys \X Ids
      /\ UNCHANGED <<cells, queue, writes, holds, hooked, phase, drains, composed, reload>>
      /\ mounted' = mounted \cup {k} /\ visited' = visited \cup {k}
      /\ due' = due \ {k}
  BY DEF RegistryInv, ControlInv, Enter, registry, asks
<1>3. ControlInv'
  BY <1>1, <1>2 DEF RegistryInv, ControlInv
<1> QED
  BY <1>2, <1>3, CellsKept DEF Enter

LEMMA ExitInv ==
  ASSUME StateAssumption, RegistryInv, Exit
  PROVE  RegistryInv'
<1>1. open' \in Seq(Keys) /\ Nested'
  <2> DEFINE l == Len(open)
  <2>1. /\ open \in Seq(Keys) /\ l \in Nat /\ l # 0 /\ DOMAIN open = 1 .. l
        /\ open' = SubSeq(open, 1, l - 1) /\ open # <<>>
        /\ \A d \in 1 .. l : open[d] \in Keys
    BY DEF RegistryInv, ControlInv, Exit, InBody
  <2> HIDE DEF l
  <2>2. \A d \in 1 .. l - 1 : open[d] \in Keys
    BY <2>1
  <2>3. /\ open' \in Seq(Keys)
        /\ \A d \in 1 .. l - 1 : open'[d] = open[d]
        /\ Len(open') = l - 1
    BY <2>1, <2>2, SubSeqProperties
  <2>4. DOMAIN open' = 1 .. l - 1
    BY <2>3
  <2>5. /\ UNCHANGED <<visited, mounted, phase>> /\ phase = "walk"
    BY DEF Exit, InBody, table
  <2> QED
    BY <2>1, <2>3, <2>4, <2>5 DEF RegistryInv, ControlInv, Nested
<1>2. /\ UNCHANGED <<cells, queue, writes, mounted, holds, hooked, due, visited,
                     phase, drains, composed, reload, seen, missed>>
      /\ phase = "walk"
  BY DEF Exit, InBody, registry, table, asks, shown
<1>3. ControlInv'
  BY <1>1, <1>2 DEF RegistryInv, ControlInv
<1> QED
  BY <1>2, <1>3, CellsKept

LEMMA DidNotConvergeInv ==
  ASSUME StateAssumption, RegistryInv, DidNotConverge
  PROVE  RegistryInv'
<1>1. /\ UNCHANGED <<cells, queue, writes, mounted, holds, hooked, due, open,
                     composed, reload, seen, missed>>
      /\ phase = "walk" /\ phase' = "idle" /\ open = <<>>
      /\ visited' = {} /\ drains' = 0
  BY DEF DidNotConverge, IterationDone, registry, table, asks, shown
<1>2. ControlInv'
  BY <1>1 DEF RegistryInv, ControlInv, Nested, StateAssumption
<1> QED
  BY <1>1, <1>2, CellsKept

LEMMA HotReloadInv ==
  ASSUME StateAssumption, RegistryInv, HotReload
  PROVE  RegistryInv'
<1>1. /\ UNCHANGED <<cells, queue, writes, mounted, holds, hooked, open, visited,
                     phase, drains, composed, seen, missed>>
      /\ phase = "idle" /\ due' = mounted /\ reload' = TRUE
  BY DEF HotReload, registry, table, shown
<1>2. ControlInv'
  BY <1>1 DEF RegistryInv, ControlInv, Nested
<1> QED
  BY <1>1, <1>2, CellsKept

LEMMA ConvergeInv ==
  ASSUME StateAssumption, RegistryInv, Converge
  PROVE  RegistryInv'
<1>1. /\ CellsInv' /\ DOMAIN cells' = DOMAIN cells
      /\ \A n \in DOMAIN cells :
           /\ cells'[n].id = cells[n].id
           /\ cells'[n].inUse = cells[n].inUse
           /\ Subscribers(cells'[n]) = Subscribers(cells[n])
  BY PublishFacts DEF RegistryInv, Converge
<1>2. /\ UNCHANGED <<queue, writes, mounted, holds, hooked, due, open, reload, seen,
                     missed>>
      /\ phase = "walk" /\ phase' = "idle" /\ open = <<>>
      /\ visited' = {} /\ drains' = 0 /\ composed' = TRUE
  BY DEF Converge, IterationDone, table, shown
<1>3. ControlInv'
  BY <1>2 DEF RegistryInv, ControlInv, Nested, StateAssumption
<1>4. HoldersKeepTheirCell' /\ WatchersAreMounted'
  BY <1>1, <1>2 DEF RegistryInv, HoldersKeepTheirCell, WatchersAreMounted, Live
<1> QED
  BY <1>1, <1>3, <1>4 DEF RegistryInv

LEMMA WatchInv ==
  ASSUME StateAssumption, RegistryInv, NEW i \in Ids, Watch(i)
  PROVE  RegistryInv'
<1>1. /\ InBody /\ Me \in Keys /\ Me \in mounted /\ Live(i) # {}
      /\ cells' = [cells EXCEPT ![CellOf(i)] = Subscribed(@, Me)]
  BY MeFacts DEF RegistryInv, Watch
<1>2. /\ CellsInv' /\ DOMAIN cells' = DOMAIN cells
      /\ \A n \in DOMAIN cells :
           /\ SameValue(cells[n], cells'[n])
           /\ n # CellOf(i) => cells'[n] = cells[n]
           /\ Subscribers(cells'[n]) \subseteq Subscribers(cells[n]) \cup {Me}
  BY <1>1, WatchFacts DEF RegistryInv
<1>3. /\ UNCHANGED <<queue, writes, mounted, holds, hooked, due, open, visited, phase,
                     drains, composed, reload>>
  BY DEF Watch, table, walk, asks
<1>4. CellOf(i) \in DOMAIN cells /\ cells[CellOf(i)].inUse
      /\ cells[CellOf(i)].front \in Nat
  BY <1>1, CellOfLive, CellsDomain, CellParts DEF RegistryInv
<1>5. seen' \in [Keys -> [Ids -> Nat]]
  BY <1>4 DEF Watch, RegistryInv, ControlInv
<1>6. missed' \subseteq Keys \X Ids
  BY <1>1 DEF Watch, RegistryInv, ControlInv
<1>7. ControlInv'
  BY <1>3, <1>5, <1>6 DEF RegistryInv, ControlInv, Nested
<1>8. HoldersKeepTheirCell' /\ WatchersAreMounted'
  BY <1>1, <1>2, <1>3, <1>4
     DEF RegistryInv, HoldersKeepTheirCell, WatchersAreMounted, Live, SameValue
<1> QED
  BY <1>2, <1>7, <1>8 DEF RegistryInv

LEMMA WatchOutsideInv ==
  ASSUME StateAssumption, RegistryInv, NEW i \in Ids, WatchOutside(i)
  PROVE  RegistryInv'
<1>1. /\ Root \in Keys /\ Root \in mounted /\ Live(i) # {}
      /\ cells' = [cells EXCEPT ![CellOf(i)] = Subscribed(@, Root)]
  BY DEF RegistryInv, ControlInv, Nested, WatchOutside, Keys
<1>2. /\ CellsInv' /\ DOMAIN cells' = DOMAIN cells
      /\ \A n \in DOMAIN cells :
           /\ SameValue(cells[n], cells'[n])
           /\ n # CellOf(i) => cells'[n] = cells[n]
           /\ Subscribers(cells'[n]) \subseteq Subscribers(cells[n]) \cup {Root}
  BY <1>1, WatchFacts DEF RegistryInv
<1>3. /\ UNCHANGED <<queue, writes, mounted, holds, hooked, due, open, visited, phase,
                     drains, composed, reload, seen, missed>>
  BY DEF WatchOutside, table, walk, asks, shown
<1>4. CellOf(i) \in DOMAIN cells /\ cells[CellOf(i)].inUse
  BY <1>1, CellOfLive DEF RegistryInv
<1>5. ControlInv'
  BY <1>3 DEF RegistryInv, ControlInv, Nested
<1>6. HoldersKeepTheirCell' /\ WatchersAreMounted'
  BY <1>1, <1>2, <1>3, <1>4
     DEF RegistryInv, HoldersKeepTheirCell, WatchersAreMounted, Live, SameValue
<1> QED
  BY <1>2, <1>5, <1>6 DEF RegistryInv

LEMMA MutateInv ==
  ASSUME StateAssumption, RegistryInv, NEW i \in Ids, Mutate(i)
  PROVE  RegistryInv'
<1>1. /\ CellsInv' /\ DOMAIN cells' = DOMAIN cells
      /\ \A n \in DOMAIN cells :
           /\ cells'[n].id = cells[n].id
           /\ cells'[n].inUse = cells[n].inUse
           /\ Subscribers(cells'[n]) = Subscribers(cells[n])
  BY MutateFacts DEF RegistryInv, ControlInv
<1>2. /\ UNCHANGED <<mounted, holds, hooked, due, open, visited, phase, drains,
                     composed, reload, seen>>
      /\ writes' = writes + 1
  BY DEF Mutate, table, walk, asks
<1>3. /\ queue' \subseteq Keys /\ IsFiniteSet(queue')
      /\ Cardinality(queue') <= MaxQueue
  <2>1. CellOK(cells[CellOf(i)])
    BY CellOfLive, CellsDomain DEF RegistryInv, Mutate
  <2>2. queue' = Enqueued(queue, cells[CellOf(i)].watchers)
    BY DEF Mutate
  <2> QED
    BY <2>1, <2>2, EnqueuedFacts DEF RegistryInv, ControlInv
<1>4. missed' \subseteq Keys \X Ids
  BY DEF Mutate, Readers, RegistryInv, ControlInv
<1>5. ControlInv'
  BY <1>2, <1>3, <1>4 DEF RegistryInv, ControlInv, Nested
<1>6. HoldersKeepTheirCell' /\ WatchersAreMounted'
  BY <1>1, <1>2
     DEF RegistryInv, HoldersKeepTheirCell, WatchersAreMounted, Live
<1> QED
  BY <1>1, <1>5, <1>6 DEF RegistryInv

\* A cell is created or refused, or the full registry stops the program.
LEMMA CreateInv ==
  ASSUME StateAssumption, RegistryInv, NEW i \in Ids, Live(i) = {}, Create(i),
         phase # "overflow",
         UNCHANGED <<queue, writes, mounted, due, open, visited, drains,
                     composed, reload, seen, missed>>,
         cells' = cells => holds' = holds,
         holds' \subseteq holds \cup {i},
         holds' \cup hooked' \subseteq mounted \cap Stateful
  PROVE  RegistryInv'
<1>2. phase' \in {"idle", "walk", "overflow"} /\ (phase' = "idle" => phase = "idle")
  BY DEF Create, RegistryInv, ControlInv
<1>3. ControlInv'
  BY <1>2 DEF RegistryInv, ControlInv, Nested
<1>4. CASE cells' = cells
  <2>1. CellsInv'
    BY <1>4 DEF RegistryInv, CellsInv, OneLiveCell, Live, CleanIsPublished
  <2>2. HoldersKeepTheirCell' /\ WatchersAreMounted'
    BY <1>4 DEF RegistryInv, HoldersKeepTheirCell, WatchersAreMounted, Live
  <2> QED
    BY <1>3, <2>1, <2>2 DEF RegistryInv
<1>5. CASE cells' # cells
  <2>1. /\ CellsInv' /\ phase' = phase
        /\ DOMAIN cells' = DOMAIN cells \cup {Len(cells) + 1}
        /\ Len(cells) + 1 \notin DOMAIN cells
        /\ \A n \in DOMAIN cells : cells'[n] = cells[n]
        /\ cells'[Len(cells) + 1] = NewCell(i)
    BY <1>5, CreateFacts DEF RegistryInv
  <2>2. NewCell(i).inUse /\ NewCell(i).id = i /\ Subscribers(NewCell(i)) = {}
    BY NewCellFacts DEF NewCell
  <2>3. HoldersKeepTheirCell'
    <3>1. \A k \in holds' : k = i \/ k \in holds
      OBVIOUS
    <3>2. \A k : Live(k) # {} => Live(k)' # {}
      BY <2>1 DEF Live
    <3>3. Live(i)' # {}
      BY <2>1, <2>2 DEF Live
    <3> QED
      BY <3>1, <3>2, <3>3 DEF RegistryInv, HoldersKeepTheirCell
  <2>4. WatchersAreMounted'
    BY <2>1, <2>2 DEF RegistryInv, WatchersAreMounted
  <2> QED
    BY <1>3, <2>1, <2>3, <2>4 DEF RegistryInv
<1> QED
  BY <1>4, <1>5

LEMMA RememberStateInv ==
  ASSUME StateAssumption, RegistryInv, NEW i \in Ids, RememberState(i)
  PROVE  RegistryInv'
<1>1. /\ UNCHANGED <<queue, writes, mounted, holds, hooked, due, open, visited, drains,
                     composed, reload, seen, missed>>
      /\ Live(i) = {} /\ Create(i) /\ phase # "overflow"
  BY DEF RememberState, InBody, table, asks, shown
<1>2. holds' \cup hooked' \subseteq mounted \cap Stateful
  BY <1>1 DEF RegistryInv, ControlInv, HoldersKeepTheirCell
<1> QED
  BY <1>1, <1>2, CreateInv

LEMMA ResolveStateInstanceInv ==
  ASSUME StateAssumption, RegistryInv, ResolveStateInstance
  PROVE  RegistryInv'
<1>1. /\ UNCHANGED <<queue, writes, mounted, due, open, visited, drains,
                     composed, reload, seen, missed>>
      /\ hooked' \in {hooked, hooked \cup {Me}}
      /\ holds' = IF Live(Me) = {} /\ cells' = cells THEN holds ELSE holds \cup {Me}
      /\ Me \in Stateful /\ phase = "walk"
  BY DEF ResolveStateInstance, InBody, asks, shown
<1>2. Me \in mounted /\ Me \in Ids
  BY <1>1, MeFacts DEF ResolveStateInstance, RegistryInv, Ids
<1>3. /\ holds' \subseteq holds \cup {Me}
      /\ holds' \cup hooked' \subseteq mounted \cap Stateful
  BY <1>1, <1>2 DEF RegistryInv, ControlInv, HoldersKeepTheirCell
<1>4. CASE Live(Me) = {}
  <2>1. Create(Me)
    BY <1>4 DEF ResolveStateInstance
  <2>2. cells' = cells => holds' = holds
    BY <1>1, <1>4
  <2> QED
    BY <1>1, <1>2, <1>3, <1>4, <2>1, <2>2, CreateInv
<1>5. CASE Live(Me) # {}
  <2>1. UNCHANGED <<cells, phase>>
    BY <1>5 DEF ResolveStateInstance
  <2>2. ControlInv'
    BY <1>1, <1>3, <2>1 DEF RegistryInv, ControlInv, Nested
  <2>3. CellsInv'
    BY <2>1 DEF RegistryInv, CellsInv, OneLiveCell, Live, CleanIsPublished
  <2>4. HoldersKeepTheirCell' /\ WatchersAreMounted'
    BY <1>1, <1>3, <1>5, <2>1
       DEF RegistryInv, HoldersKeepTheirCell, WatchersAreMounted, Live
  <2> QED
    BY <2>2, <2>3, <2>4 DEF RegistryInv
<1> QED
  BY <1>4, <1>5

LEMMA DropInv ==
  ASSUME StateAssumption, RegistryInv, NEW k \in Keys, Drop(k)
  PROVE  RegistryInv'
<1>1. /\ CellsInv' /\ DOMAIN cells' = DOMAIN cells
      /\ \A n \in DOMAIN cells :
           /\ cells'[n].id = cells[n].id
           /\ cells'[n].inUse
                <=> cells[n].inUse /\ ~(k \in hooked /\ cells[n].id = k)
           /\ cells'[n].inUse => k \notin Subscribers(cells'[n])
           /\ Subscribers(cells'[n]) \subseteq Subscribers(cells[n])
           /\ cells[n].inUse /\ ~cells'[n].inUse
                => Subscribers(cells'[n]) = {}
  BY DropFacts DEF RegistryInv
<1>2. /\ UNCHANGED <<queue, writes, open, visited, phase, drains, composed, reload>>
      /\ phase = "walk" /\ k \in mounted \ visited
      /\ k = Root => mounted = {Root}
      /\ mounted' = mounted \ {k} /\ due' = due \ {k}
      /\ holds' = holds \ {k} /\ hooked' = hooked \ {k}
  BY DEF Drop, asks
<1>3. /\ seen' \in [Keys -> [Ids -> Nat]]
      /\ missed' \subseteq Keys \X Ids
  <2>1. seen' = [seen EXCEPT ![k] = [i \in Ids |-> 0]]
    BY DEF Drop
  <2>2. k \in hooked => k \in Ids
    BY DEF RegistryInv, ControlInv, Ids
  <2>3. missed' \subseteq Keys \X Ids
    BY <2>2 DEF Drop, Readers, RegistryInv, ControlInv
  <2> QED
    BY <2>1, <2>3 DEF RegistryInv, ControlInv
<1>4. Nested'
  BY <1>2 DEF RegistryInv, ControlInv, Nested
<1>5. ControlInv'
  BY <1>2, <1>3, <1>4 DEF RegistryInv, ControlInv
<1>6. HoldersKeepTheirCell'
  <2> SUFFICES ASSUME NEW h \in holds \ {k}
               PROVE  h \in mounted \ {k} /\ Live(h)' # {}
    BY <1>2 DEF HoldersKeepTheirCell, RegistryInv
  <2>1. h \in mounted /\ Live(h) # {}
    BY <1>2 DEF RegistryInv, HoldersKeepTheirCell
  <2>2. Live(h) \subseteq Live(h)'
    BY <1>1 DEF Live
  <2> QED
    BY <2>1, <2>2
<1>7. WatchersAreMounted'
  <2> SUFFICES ASSUME NEW n \in DOMAIN cells
               PROVE  Subscribers(cells'[n])
                        \subseteq (IF cells'[n].inUse THEN mounted' ELSE {})
    BY <1>1 DEF WatchersAreMounted
  <2>1. Subscribers(cells[n]) \subseteq (IF cells[n].inUse THEN mounted ELSE {})
    BY DEF RegistryInv, WatchersAreMounted
  <2>2. CASE cells'[n].inUse
    BY <1>1, <1>2, <2>1, <2>2
  <2>3. CASE ~cells'[n].inUse
    BY <1>1, <2>1, <2>3
  <2> QED
    BY <2>2, <2>3
<1> QED
  BY <1>1, <1>5, <1>6, <1>7 DEF RegistryInv

-----------------------------------------------------------------------------

LEMMA RegistryInit ==
  ASSUME StateAssumption, Init
  PROVE  RegistryInv
<1>1. CellsInv
  BY DEF StateAssumption, Init, CellsInv, OneLiveCell, Live, CleanIsPublished
<1>2. ControlInv
  <2>1. 0 \in 0 .. MaxDrain /\ MaxQueue \in Nat
    BY DEF StateAssumption
  <2>2. seen \in [Keys -> [Ids -> Nat]]
    BY DEF Init
  <2>3. Cardinality(queue) <= MaxQueue /\ IsFiniteSet(queue)
    BY <2>1, FS_EmptySet DEF Init
  <2>4. Nested
    BY DEF Init, Nested
  <2>5. open \in Seq(Keys) /\ drains \in 0 .. MaxDrain /\ writes \in Nat
    BY <2>1 DEF Init
  <2>6. /\ queue \subseteq Keys /\ mounted \subseteq Keys
        /\ holds \subseteq Stateful /\ hooked \subseteq Stateful
        /\ due \subseteq Keys
        /\ visited \subseteq Keys /\ missed \subseteq Keys \X Ids
        /\ phase \in {"idle", "walk", "overflow"}
        /\ composed \in BOOLEAN /\ reload \in BOOLEAN
    BY DEF Init
  <2> QED
    BY <2>2, <2>3, <2>4, <2>5, <2>6 DEF ControlInv
<1>3. HoldersKeepTheirCell /\ WatchersAreMounted
  BY DEF Init, HoldersKeepTheirCell, WatchersAreMounted
<1> QED
  BY <1>1, <1>2, <1>3 DEF RegistryInv

LEMMA RegistryNext ==
  ASSUME StateAssumption, RegistryInv, [Next]_vars
  PROVE  RegistryInv'
<1>1. CASE Recompose
  <2>1. open = <<>> /\ phase = "idle" /\ BeginIteration(1)
    BY <1>1 DEF Recompose, RegistryInv, ControlInv, Nested
  <2>2. composed' \in BOOLEAN /\ reload' \in BOOLEAN
    BY <1>1 DEF Recompose, RegistryInv, ControlInv
  <2>3. 1 \in 1 .. MaxDrain
    BY DEF StateAssumption
  <2> QED
    BY <2>1, <2>2, <2>3, BeginIterationInv
<1>2. CASE \E k \in due \cup {Root} : k \in mounted /\ Enter(k)
  <2>1. due \cup {Root} \subseteq Keys
    BY DEF RegistryInv, ControlInv, Keys
  <2> QED
    BY <1>2, <2>1, EnterInv
<1>3. CASE Exit
  BY <1>3, ExitInv
<1>4. CASE NextIteration
  <2>1. /\ open = <<>> /\ phase = "walk" /\ BeginIteration(drains + 1)
        /\ composed' \in BOOLEAN /\ reload' \in BOOLEAN
    BY <1>4 DEF NextIteration, IterationDone, RegistryInv, ControlInv, asks
  <2>2. drains + 1 \in 1 .. MaxDrain
    BY <1>4 DEF NextIteration, RegistryInv, ControlInv, StateAssumption
  <2> QED
    BY <2>1, <2>2, BeginIterationInv
<1>5. CASE DidNotConverge
  BY <1>5, DidNotConvergeInv
<1>6. CASE Converge
  BY <1>6, ConvergeInv
<1>7. CASE HotReload
  BY <1>7, HotReloadInv
<1>8. CASE ResolveStateInstance
  BY <1>8, ResolveStateInstanceInv
<1>9. CASE \E k \in Keys : Enter(k) \/ Drop(k)
  BY <1>9, EnterInv, DropInv
<1>10. CASE \E i \in Ids : RememberState(i) \/ Watch(i) \/ WatchOutside(i) \/ Mutate(i)
  BY <1>10, RememberStateInv, WatchInv, WatchOutsideInv, MutateInv
<1>11. CASE UNCHANGED vars
  BY <1>11 DEF RegistryInv, CellsInv, OneLiveCell, CleanIsPublished,
               ControlInv, Nested, HoldersKeepTheirCell, WatchersAreMounted, Live,
               vars, registry, table, walk, asks, shown
<1> QED
  BY <1>1, <1>2, <1>3, <1>4, <1>5, <1>6, <1>7, <1>8, <1>9, <1>10, <1>11
     DEF Next, Traverse, User

LEMMA RegistryTyped ==
  ASSUME RegistryInv
  PROVE  TypeOK /\ RegistryOK
  BY DEF RegistryInv, CellsInv, CellOK, ControlInv, TypeOK, RegistryOK

\* The strengthening of RegistryOK is an invariant: cells are changed in
\* place or appended, a key is listed once by a cell, and every running body
\* belongs to a mounted group this iteration has entered.
THEOREM RegistryInvariance == Spec => []RegistryInv
<1>1. Init => RegistryInv
  BY RegistryInit, StateAssumption
<1>2. RegistryInv /\ [Next]_vars => RegistryInv'
  BY RegistryNext, StateAssumption
<1> QED
  BY <1>1, <1>2, PTL DEF Spec

\* The types and bounds of the registry, the queue and the walk, CELS_MAX_*
\* included, hold whatever a program mounts, watches and writes.
THEOREM StateCellsTyped == Spec => []TypeOK
<1>1. RegistryInv => TypeOK
  BY RegistryTyped
<1> QED
  BY <1>1, RegistryInvariance, PTL

\* Cells, their holders and their watchers follow the mounted groups through
\* mounts, prunes and passes that give up, cells that the arena refuses and
\* hooks that their table refuses (state.c:34-122, 288-310, 381-446).
THEOREM RegistryFollowsGroups == Spec => []RegistryOK
<1>1. RegistryInv => RegistryOK
  BY RegistryTyped
<1> QED
  BY <1>1, RegistryInvariance, PTL

-----------------------------------------------------------------------------
(* Writes.                                                                 *)

\* A mounted group that shows an old value of a live cell is on its way to
\* run, or it had not subscribed when the cell was written.
OutdatedKnown ==
  \A n \in DOMAIN cells, k \in mounted :
    LET c == cells[n] IN
    c.inUse /\ seen[k][c.id] # 0 /\ seen[k][c.id] # c.back
      => k \in queue \cup due \/ <<k, c.id>> \in missed

\* Whoever read a cell that is gone has missed its end.
LostCellMissed ==
  \A k \in mounted, i \in Ids :
    seen[k][i] # 0 /\ Live(i) = {} => <<k, i>> \in missed

\* In a pass, a watcher of a dirty cell is queued, or it subscribed after the
\* write, in a body of this iteration.
DirtyIsQueued ==
  phase = "walk" =>
    \A n \in DOMAIN cells :
      LET c == cells[n] IN
      c.inUse /\ c.dirty =>
        \A k \in Subscribers(c) :
          k \in queue \/ (k \in visited /\ <<k, c.id>> \in missed)

WriteInv ==
  /\ RegistryInv
  /\ OutdatedKnown
  /\ LostCellMissed
  /\ DirtyIsQueued

\* The steps that touch neither cells nor what groups have read.
LEMMA ReadsKept ==
  ASSUME WriteInv, UNCHANGED <<cells, mounted, queue, seen, missed>>,
         due \cap mounted \subseteq due',
         phase' = "walk" => phase = "walk" /\ visited' = visited
  PROVE  OutdatedKnown' /\ LostCellMissed' /\ DirtyIsQueued'
  BY DEF WriteInv, OutdatedKnown, LostCellMissed, DirtyIsQueued, Live

LEMMA PublishWrites ==
  ASSUME StateAssumption, WriteInv, Publish,
         UNCHANGED <<mounted, seen, missed>>,
         \A k \in mounted : k \in queue \cup due => k \in queue' \cup due'
  PROVE  OutdatedKnown' /\ LostCellMissed' /\ DirtyIsQueued'
<1>1. /\ DOMAIN cells' = DOMAIN cells
      /\ \A n \in DOMAIN cells :
           /\ cells'[n].id = cells[n].id
           /\ cells'[n].inUse = cells[n].inUse
           /\ cells'[n].back = cells[n].back
           /\ cells'[n].inUse => ~cells'[n].dirty
  BY PublishFacts DEF WriteInv, RegistryInv
<1>2. OutdatedKnown'
  BY <1>1 DEF WriteInv, OutdatedKnown
<1>3. LostCellMissed'
  BY <1>1 DEF WriteInv, LostCellMissed, Live
<1>4. DirtyIsQueued'
  BY <1>1 DEF DirtyIsQueued
<1> QED
  BY <1>2, <1>3, <1>4

LEMMA EnterWrites ==
  ASSUME StateAssumption, WriteInv, NEW k \in Keys, Enter(k)
  PROVE  OutdatedKnown' /\ LostCellMissed' /\ DirtyIsQueued'
<1>1. /\ UNCHANGED <<cells, queue, phase>>
      /\ mounted' = mounted \cup {k} /\ due' = due \ {k}
      /\ visited' = visited \cup {k} /\ k \notin visited /\ phase = "walk"
      /\ missed' = {p \in missed : p[1] # k}
      /\ seen' = [seen EXCEPT ![k] = [i \in Ids |-> 0]]
  BY DEF Enter, registry
<1>2. /\ \A i \in Ids : seen'[k][i] = 0
      /\ \A h \in Keys : h # k => seen'[h] = seen[h]
  BY <1>1 DEF WriteInv, RegistryInv, ControlInv
<1>3. /\ mounted \subseteq Keys
      /\ \A n \in DOMAIN cells : /\ cells[n].id \in Ids
                                 /\ Subscribers(cells[n]) \subseteq Keys
  BY CellsDomain, CellParts DEF WriteInv, RegistryInv, ControlInv
<1>4. \A h, i : h # k /\ <<h, i>> \in missed => <<h, i>> \in missed'
  BY <1>1
<1>5. OutdatedKnown'
  <2> SUFFICES ASSUME NEW n \in DOMAIN cells, NEW h \in mounted',
                      cells[n].inUse, seen'[h][cells[n].id] # 0,
                      seen'[h][cells[n].id] # cells[n].back
               PROVE  h \in queue \cup due' \/ <<h, cells[n].id>> \in missed'
    BY <1>1 DEF OutdatedKnown
  <2>1. h # k /\ h \in mounted
    BY <1>1, <1>2, <1>3
  <2> QED
    BY <1>1, <1>2, <1>3, <1>4, <2>1 DEF WriteInv, OutdatedKnown
<1>6. LostCellMissed'
  BY <1>1, <1>2, <1>3, <1>4 DEF WriteInv, LostCellMissed, Live
<1>7. DirtyIsQueued'
  BY <1>1, <1>4 DEF WriteInv, DirtyIsQueued
<1> QED
  BY <1>5, <1>6, <1>7

LEMMA CreateWrites ==
  ASSUME StateAssumption, WriteInv, NEW i \in Ids, Live(i) = {}, Create(i),
         UNCHANGED <<mounted, queue, due, visited, seen, missed>>
  PROVE  OutdatedKnown' /\ LostCellMissed' /\ DirtyIsQueued'
<1>1. CASE cells' = cells
  <2>1. phase' = "walk" => phase = "walk"
    BY DEF Create
  <2> QED
    BY <1>1, <2>1 DEF WriteInv, OutdatedKnown, LostCellMissed, DirtyIsQueued, Live
<1>2. CASE cells' # cells
  <2> DEFINE last == Len(cells) + 1
  <2>1. /\ DOMAIN cells' = DOMAIN cells \cup {last}
        /\ \A n \in DOMAIN cells : cells'[n] = cells[n]
        /\ cells'[last] = NewCell(i) /\ phase' = phase
    BY <1>2, CreateFacts DEF WriteInv, RegistryInv
  <2>2. cells'[last].id = i /\ ~cells'[last].dirty
    BY <2>1 DEF NewCell
  <2> HIDE DEF last
  <2>3. OutdatedKnown'
    <3> SUFFICES ASSUME NEW n \in DOMAIN cells', NEW k \in mounted,
                        cells'[n].inUse, seen[k][cells'[n].id] # 0,
                        seen[k][cells'[n].id] # cells'[n].back
                 PROVE  k \in queue \cup due \/ <<k, cells'[n].id>> \in missed
      BY DEF OutdatedKnown
    <3>1. CASE n = last
      BY <2>2, <3>1 DEF WriteInv, LostCellMissed
    <3>2. CASE n \in DOMAIN cells
      BY <2>1, <3>2 DEF WriteInv, OutdatedKnown
    <3> QED
      BY <2>1, <3>1, <3>2
  <2>4. LostCellMissed'
    <3>1. \A j \in Ids : Live(j) # {} => Live(j)' # {}
      BY <2>1 DEF Live
    <3> QED
      BY <3>1 DEF WriteInv, LostCellMissed
  <2>5. DirtyIsQueued'
    BY <2>1, <2>2 DEF WriteInv, DirtyIsQueued
  <2> QED
    BY <2>3, <2>4, <2>5
<1> QED
  BY <1>1, <1>2

LEMMA WatchWrites ==
  ASSUME StateAssumption, WriteInv, NEW i \in Ids, Watch(i)
  PROVE  OutdatedKnown' /\ LostCellMissed' /\ DirtyIsQueued'
<1> DEFINE n0 == CellOf(i)
           c0 == cells[n0]
<1>1. /\ Me \in Keys /\ Me \in visited /\ Live(i) # {} /\ phase = "walk"
      /\ cells' = [cells EXCEPT ![n0] = Subscribed(@, Me)]
      /\ seen' = [seen EXCEPT ![Me][i] = c0.front]
      /\ missed' = IF ~c0.dirty THEN missed \ {<<Me, i>>}
                   ELSE IF Me \notin Subscribers(c0)
                   THEN missed \cup {<<Me, i>>} ELSE missed
      /\ UNCHANGED <<queue, mounted, due, visited, phase>>
  BY MeFacts DEF WriteInv, RegistryInv, Watch, InBody, table, walk
<1>2. /\ DOMAIN cells' = DOMAIN cells
      /\ \A n \in DOMAIN cells :
           /\ SameValue(cells[n], cells'[n])
           /\ n # n0 => cells'[n] = cells[n]
           /\ Subscribers(cells'[n]) \subseteq Subscribers(cells[n]) \cup {Me}
  BY <1>1, WatchFacts DEF WriteInv, RegistryInv
<1>3. /\ n0 \in DOMAIN cells /\ c0.inUse /\ c0.id = i
      /\ \A n \in DOMAIN cells : cells[n].inUse /\ cells[n].id = i => n = n0
  BY <1>1, CellOfLive DEF WriteInv, RegistryInv
<1>4. /\ ~c0.dirty => c0.front = c0.back
      /\ mounted \subseteq Keys
      /\ \A n \in DOMAIN cells : cells[n].id \in Ids
  BY <1>3, CellsDomain, CellParts
     DEF WriteInv, RegistryInv, CellsInv, CleanIsPublished, ControlInv
<1> HIDE DEF n0
<1>5. /\ seen'[Me][i] = c0.front
      /\ \A k \in Keys, j \in Ids : k # Me \/ j # i => seen'[k][j] = seen[k][j]
  <2>1. seen \in [Keys -> [Ids -> Nat]]
    BY DEF WriteInv, RegistryInv, ControlInv
  <2> QED
    BY <1>1, <2>1
<1>6. /\ \A k, j : (k # Me \/ j # i) /\ <<k, j>> \in missed => <<k, j>> \in missed'
      /\ c0.dirty => missed \subseteq missed'
      /\ c0.dirty /\ Me \notin Subscribers(c0) => <<Me, i>> \in missed'
  BY <1>1
<1>7. OutdatedKnown'
  <2> SUFFICES ASSUME NEW n \in DOMAIN cells, NEW k \in mounted,
                      cells[n].inUse, seen'[k][cells[n].id] # 0,
                      seen'[k][cells[n].id] # cells[n].back
               PROVE  k \in queue \cup due \/ <<k, cells[n].id>> \in missed'
    BY <1>1, <1>2 DEF OutdatedKnown, SameValue
  <2>1. CASE k # Me \/ cells[n].id # i
    BY <1>4, <1>5, <1>6, <2>1 DEF WriteInv, OutdatedKnown
  <2>2. CASE k = Me /\ cells[n].id = i
    <3>1. n = n0 /\ c0.dirty
      BY <1>3, <1>4, <1>5, <2>2
    <3>2. CASE Me \notin Subscribers(c0)
      BY <1>6, <2>2, <3>1, <3>2
    <3>3. CASE Me \in Subscribers(c0)
      <4>1. Me \in queue \/ <<Me, i>> \in missed
        BY <1>1, <1>3, <3>1, <3>3 DEF WriteInv, DirtyIsQueued
      <4> QED
        BY <1>6, <2>2, <3>1, <4>1
    <3> QED
      BY <3>2, <3>3
  <2> QED
    BY <2>1, <2>2
<1>8. LostCellMissed'
  <2> SUFFICES ASSUME NEW k \in mounted, NEW j \in Ids, seen'[k][j] # 0,
                      Live(j)' = {}
               PROVE  <<k, j>> \in missed'
    BY <1>1 DEF LostCellMissed
  <2>1. Live(j) = {}
    BY <1>2 DEF Live, SameValue
  <2>2. j # i
    BY <1>1, <2>1
  <2> QED
    BY <1>4, <1>5, <1>6, <2>1, <2>2 DEF WriteInv, LostCellMissed
<1>9. DirtyIsQueued'
  <2> SUFFICES ASSUME NEW n \in DOMAIN cells, cells[n].inUse, cells[n].dirty,
                      NEW k \in Subscribers(cells'[n])
               PROVE  k \in queue \/ (k \in visited /\ <<k, cells[n].id>> \in missed')
    BY <1>1, <1>2 DEF DirtyIsQueued, SameValue
  <2>1. CASE k \in Subscribers(cells[n])
    <3>1. k \in queue \/ (k \in visited /\ <<k, cells[n].id>> \in missed)
      BY <1>1, <2>1 DEF WriteInv, DirtyIsQueued
    <3>2. cells[n].id = i => c0.dirty
      BY <1>3
    <3> QED
      BY <1>6, <3>1, <3>2
  <2>2. CASE k \notin Subscribers(cells[n])
    <3>1. k = Me /\ n = n0
      BY <1>2, <2>2
    <3> QED
      BY <1>1, <1>3, <1>6, <2>2, <3>1
  <2> QED
    BY <2>1, <2>2
<1> QED
  BY <1>7, <1>8, <1>9

LEMMA WatchOutsideWrites ==
  ASSUME StateAssumption, WriteInv, NEW i \in Ids, WatchOutside(i)
  PROVE  OutdatedKnown' /\ LostCellMissed' /\ DirtyIsQueued'
<1>1. /\ Root \in Keys /\ Live(i) # {} /\ phase' # "walk"
      /\ cells' = [cells EXCEPT ![CellOf(i)] = Subscribed(@, Root)]
      /\ UNCHANGED <<queue, mounted, due, seen, missed>>
  BY DEF WatchOutside, Keys, table, walk, shown
<1>2. /\ DOMAIN cells' = DOMAIN cells
      /\ \A n \in DOMAIN cells : SameValue(cells[n], cells'[n])
  BY <1>1, WatchFacts DEF WriteInv, RegistryInv
<1>3. OutdatedKnown' /\ LostCellMissed'
  BY <1>1, <1>2 DEF WriteInv, OutdatedKnown, LostCellMissed, Live, SameValue
<1> QED
  BY <1>1, <1>3 DEF DirtyIsQueued

LEMMA MutateWrites ==
  ASSUME StateAssumption, QueueHoldsAll, WriteInv, NEW i \in Ids, Mutate(i)
  PROVE  OutdatedKnown' /\ LostCellMissed' /\ DirtyIsQueued'
<1> DEFINE n0 == CellOf(i)
           c0 == cells[n0]
<1>1. /\ Live(i) # {}
      /\ queue' = Enqueued(queue, c0.watchers)
      /\ missed' = {p \in missed : p[2] # i}
                     \cup {<<k, i>> : k \in Readers(i) \ Subscribers(c0)}
      /\ UNCHANGED <<mounted, due, visited, phase, seen>>
  BY DEF Mutate, table, walk
<1>2. /\ DOMAIN cells' = DOMAIN cells
      /\ \A n \in DOMAIN cells :
           /\ cells'[n].id = cells[n].id
           /\ cells'[n].inUse = cells[n].inUse
           /\ Subscribers(cells'[n]) = Subscribers(cells[n])
           /\ n # n0 => cells'[n] = cells[n]
  BY MutateFacts DEF WriteInv, RegistryInv, ControlInv
<1>3. /\ n0 \in DOMAIN cells /\ c0.inUse /\ c0.id = i /\ CellOK(c0)
      /\ \A n \in DOMAIN cells : cells[n].inUse /\ cells[n].id = i => n = n0
  BY <1>1, CellOfLive, CellsDomain DEF WriteInv, RegistryInv
<1> HIDE DEF n0
<1>4. queue \subseteq queue' /\ Subscribers(c0) \subseteq queue'
  <2>1. /\ queue \in SUBSET Keys /\ IsFiniteSet(queue)
        /\ Cardinality(queue) <= MaxQueue
    BY DEF WriteInv, RegistryInv, ControlInv
  <2>2. queue \subseteq Enqueued(queue, c0.watchers)
    BY <1>3, <2>1, EnqueuedFacts
  <2>3. Subscribers(c0) \subseteq Enqueued(queue, c0.watchers)
    BY <1>3, <2>1, AllEnqueued
  <2> QED
    BY <1>1, <2>2, <2>3
<1>5. /\ \A k, j : j # i /\ <<k, j>> \in missed => <<k, j>> \in missed'
      /\ \A k \in mounted : seen[k][i] # 0 /\ k \notin Subscribers(c0)
                              => <<k, i>> \in missed'
  BY <1>1 DEF Readers
<1>6. OutdatedKnown'
  <2> SUFFICES ASSUME NEW n \in DOMAIN cells, NEW k \in mounted,
                      cells[n].inUse, seen[k][cells[n].id] # 0,
                      seen[k][cells[n].id] # cells'[n].back
               PROVE  k \in queue' \cup due \/ <<k, cells[n].id>> \in missed'
    BY <1>1, <1>2 DEF OutdatedKnown
  <2>1. CASE n = n0
    BY <1>3, <1>4, <1>5, <2>1
  <2>2. CASE n # n0
    <3>1. cells'[n] = cells[n] /\ cells[n].id # i
      BY <1>2, <1>3, <2>2
    <3> QED
      BY <1>4, <1>5, <3>1 DEF WriteInv, OutdatedKnown
  <2> QED
    BY <2>1, <2>2
<1>7. LostCellMissed'
  <2>1. \A j \in Ids : Live(j)' = Live(j)
    BY <1>2 DEF Live
  <2> QED
    BY <1>1, <1>5, <2>1 DEF WriteInv, LostCellMissed
<1>8. DirtyIsQueued'
  <2> SUFFICES ASSUME phase = "walk", NEW n \in DOMAIN cells, cells[n].inUse,
                      cells'[n].dirty, NEW k \in Subscribers(cells[n])
               PROVE  k \in queue' \/ (k \in visited /\ <<k, cells[n].id>> \in missed')
    BY <1>1, <1>2 DEF DirtyIsQueued
  <2>1. CASE n = n0
    BY <1>4, <2>1
  <2>2. CASE n # n0
    <3>1. cells'[n] = cells[n] /\ cells[n].id # i
      BY <1>2, <1>3, <2>2
    <3> QED
      BY <1>4, <1>5, <3>1 DEF WriteInv, DirtyIsQueued
  <2> QED
    BY <2>1, <2>2
<1> QED
  BY <1>6, <1>7, <1>8

LEMMA DropWrites ==
  ASSUME StateAssumption, WriteInv, NEW k \in Keys, Drop(k)
  PROVE  OutdatedKnown' /\ LostCellMissed' /\ DirtyIsQueued'
<1>1. /\ UNCHANGED <<queue, visited, phase>>
      /\ mounted' = mounted \ {k} /\ due' = due \ {k} /\ k \notin visited
      /\ seen' = [seen EXCEPT ![k] = [i \in Ids |-> 0]]
      /\ missed' = {p \in missed \cup (IF k \in hooked THEN Readers(k) \X {k} ELSE {}) :
                     p[1] # k}
  BY DEF Drop
<1>2. /\ DOMAIN cells' = DOMAIN cells
      /\ \A n \in DOMAIN cells :
           /\ cells'[n].id = cells[n].id
           /\ cells'[n].inUse
                <=> cells[n].inUse /\ ~(k \in hooked /\ cells[n].id = k)
           /\ cells'[n].inUse => SameValue(cells[n], cells'[n])
           /\ cells'[n].inUse => k \notin Subscribers(cells'[n])
           /\ Subscribers(cells'[n]) \subseteq Subscribers(cells[n])
  BY DropFacts DEF WriteInv, RegistryInv
<1>3. \A h \in Keys : h # k => seen'[h] = seen[h]
  BY <1>1 DEF WriteInv, RegistryInv, ControlInv
<1>4. /\ \A h, j : h # k /\ <<h, j>> \in missed => <<h, j>> \in missed'
      /\ \A h \in mounted : h # k /\ k \in hooked /\ seen[h][k] # 0
                              => <<h, k>> \in missed'
  BY <1>1 DEF Readers
<1>5. mounted \subseteq Keys
  BY DEF WriteInv, RegistryInv, ControlInv
<1>6. OutdatedKnown'
  <2> SUFFICES ASSUME NEW n \in DOMAIN cells, NEW h \in mounted, h # k,
                      cells'[n].inUse, seen[h][cells[n].id] # 0,
                      seen[h][cells[n].id] # cells'[n].back
               PROVE  h \in queue \cup due' \/ <<h, cells[n].id>> \in missed'
    BY <1>1, <1>2, <1>3, <1>5 DEF OutdatedKnown
  <2>1. cells[n].inUse /\ cells'[n].back = cells[n].back
    BY <1>2 DEF SameValue
  <2> QED
    BY <1>1, <1>4, <2>1 DEF WriteInv, OutdatedKnown
<1>7. LostCellMissed'
  <2> SUFFICES ASSUME NEW h \in mounted, h # k, NEW j \in Ids, seen[h][j] # 0,
                      Live(j)' = {}
               PROVE  <<h, j>> \in missed'
    BY <1>1, <1>3, <1>5 DEF LostCellMissed
  <2>1. CASE k \in hooked /\ j = k
    BY <1>4, <2>1
  <2>2. CASE ~(k \in hooked /\ j = k)
    <3>1. Live(j) = {}
      BY <1>2, <2>2 DEF Live
    <3> QED
      BY <1>4, <3>1 DEF WriteInv, LostCellMissed
  <2> QED
    BY <2>1, <2>2
<1>8. DirtyIsQueued'
  <2> SUFFICES ASSUME phase = "walk", NEW n \in DOMAIN cells, cells'[n].inUse,
                      cells'[n].dirty, NEW h \in Subscribers(cells'[n])
               PROVE  h \in queue \/ (h \in visited /\ <<h, cells[n].id>> \in missed')
    BY <1>1, <1>2 DEF DirtyIsQueued
  <2>1. /\ h # k /\ h \in Subscribers(cells[n])
        /\ cells[n].inUse /\ cells[n].dirty
    BY <1>2 DEF SameValue
  <2> QED
    BY <1>4, <2>1 DEF WriteInv, DirtyIsQueued
<1> QED
  BY <1>6, <1>7, <1>8

-----------------------------------------------------------------------------

LEMMA WriteInit ==
  ASSUME StateAssumption, Init
  PROVE  WriteInv
  BY RegistryInit DEF Init, WriteInv, OutdatedKnown, LostCellMissed, DirtyIsQueued

LEMMA WriteNext ==
  ASSUME StateAssumption, QueueHoldsAll, WriteInv, [Next]_vars
  PROVE  WriteInv'
<1>1. RegistryInv'
  BY RegistryNext DEF WriteInv
<1> SUFFICES OutdatedKnown' /\ LostCellMissed' /\ DirtyIsQueued'
  BY <1>1 DEF WriteInv
<1>2. CASE Recompose \/ NextIteration
  <2>1. /\ Publish /\ UNCHANGED <<mounted, seen, missed>>
        /\ due' = due \cup (queue \cap mounted)
    BY <1>2 DEF Recompose, NextIteration, BeginIteration, table, shown
  <2> QED
    BY <2>1, PublishWrites
<1>3. CASE Converge
  <2>1. Publish /\ UNCHANGED <<mounted, seen, missed, queue, due>>
    BY <1>3 DEF Converge, table, shown
  <2> QED
    BY <2>1, PublishWrites
<1>4. CASE Exit \/ DidNotConverge \/ HotReload \/ UNCHANGED vars
  <2>1. /\ UNCHANGED <<cells, mounted, queue, seen, missed>>
        /\ due \cap mounted \subseteq due'
        /\ phase' = "walk" => phase = "walk" /\ visited' = visited
    BY <1>4 DEF Exit, DidNotConverge, HotReload, vars, registry, table, walk, shown
  <2> QED
    BY <2>1, ReadsKept
<1>5. CASE \E k \in due \cup {Root} : k \in mounted /\ Enter(k)
  <2>1. due \cup {Root} \subseteq Keys
    BY DEF WriteInv, RegistryInv, ControlInv, Keys
  <2> QED
    BY <1>5, <2>1, EnterWrites
<1>6. CASE \E k \in Keys : Enter(k) \/ Drop(k)
  BY <1>6, EnterWrites, DropWrites
<1>7. CASE ResolveStateInstance
  <2>1. UNCHANGED <<mounted, queue, due, visited, seen, missed>> /\ Me \in Ids
    BY <1>7 DEF ResolveStateInstance, shown, Ids
  <2>2. CASE Live(Me) = {}
    <3>1. Create(Me)
      BY <1>7, <2>2 DEF ResolveStateInstance
    <3> QED
      BY <2>1, <2>2, <3>1, CreateWrites
  <2>3. CASE Live(Me) # {}
    <3>1. UNCHANGED <<cells, phase>>
      BY <1>7, <2>3 DEF ResolveStateInstance
    <3> QED
      BY <2>1, <3>1, ReadsKept
  <2> QED
    BY <2>2, <2>3
<1>8. CASE \E i \in Ids : RememberState(i)
  <2>1. PICK i \in Ids : RememberState(i)
    BY <1>8
  <2>2. /\ UNCHANGED <<mounted, queue, due, visited, seen, missed>>
        /\ Live(i) = {} /\ Create(i)
    BY <2>1 DEF RememberState, table, shown
  <2> QED
    BY <2>2, CreateWrites
<1>9. CASE \E i \in Ids : Watch(i) \/ WatchOutside(i) \/ Mutate(i)
  BY <1>9, WatchWrites, WatchOutsideWrites, MutateWrites
<1> QED
  BY <1>2, <1>3, <1>4, <1>5, <1>6, <1>7, <1>8, <1>9 DEF Next, Traverse, User

LEMMA OutdatedIsPending ==
  ASSUME WriteInv
  PROVE  SubscribersPending
<1> SUFFICES ASSUME NEW k \in Keys, NEW i \in Ids, Stale(k, i)
             PROVE  k \in queue \cup due
  BY DEF SubscribersPending
<1>1. /\ CellOf(i) \in DOMAIN cells
      /\ cells[CellOf(i)].inUse /\ cells[CellOf(i)].id = i
  BY CellOfLive DEF WriteInv, RegistryInv, Stale
<1> QED
  BY <1>1 DEF WriteInv, OutdatedKnown, Stale

\* As long as the invalidation queue has a place for every key, a write is
\* never forgotten, whatever runs, mounts, prunes, writes and gives up in
\* between (state.c:233-248, session.c:846-930).
THEOREM WritesRemembered == QueueHoldsAll => (Spec => []SubscribersPending)
<1> SUFFICES ASSUME QueueHoldsAll
             PROVE  Spec => []SubscribersPending
  OBVIOUS
<1>1. Init => WriteInv
  BY WriteInit, StateAssumption
<1>2. WriteInv /\ [Next]_vars => WriteInv'
  BY WriteNext, StateAssumption
<1>3. WriteInv => SubscribersPending
  BY OutdatedIsPending
<1> QED
  BY <1>1, <1>2, <1>3, PTL DEF Spec
=============================================================================
