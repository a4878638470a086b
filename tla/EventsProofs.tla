---------------------------- MODULE EventsProofs ----------------------------
(***************************************************************************)
(* Proofs about Events, for all sessions, keys and limits: its types, that *)
(* nobody is handed an event twice, the order of broadcasts, the outcome   *)
(* of waits, that no wakeup is lost, and that an event leaves the queue    *)
(* only when everyone it was queued for has been handed it.                *)
(*                                                                         *)
(* Two loops of the code go through a queue: a drain delivers the staged   *)
(* broadcasts, and the end of a pass retires what was read.  What holds    *)
(* after any number of their turns is proved by Induction's lemmas.        *)
(***************************************************************************)
EXTENDS Events, Induction, SequenceTheorems

\* Least is what its name says.
LEMMA LeastOf ==
  ASSUME NEW T \in SUBSET Nat, T # {}
  PROVE  Least(T) \in T /\ \A n \in T : Least(T) <= n
  BY LeastElement DEF Least

-----------------------------------------------------------------------------
(* The end of a pass.                                                      *)

\* The loop of CelsEventRetireConsumed, turn by turn.
LEMMA KeptTurn ==
  ASSUME NEW rs \in Seq(Record)
  PROVE  /\ KeptUpTo(rs)[0] = <<>>
         /\ \A n \in 1 .. Len(rs) :
              KeptUpTo(rs)[n] = IF rs[n].read THEN KeptUpTo(rs)[n - 1]
                                ELSE Append(KeptUpTo(rs)[n - 1], rs[n])
<1> DEFINE Turn(v, n) == IF rs[n].read THEN v ELSE Append(v, rs[n])
           step == [n \in 1 .. Len(rs) |-> [v \in Seq(Record) |-> Turn(v, n)]]
           Is(f) == f = [n \in 0 .. Len(rs) |->
                           IF n = 0 THEN <<>>
                           ELSE IF rs[n].read THEN f[n - 1]
                           ELSE Append(f[n - 1], rs[n])]
<1>1. step \in [1 .. Len(rs) -> [Seq(Record) -> Seq(Record)]]
  OBVIOUS
<1>2. \A n \in 1 .. Len(rs) : \A v \in Seq(Record) : step[n][v] = Turn(v, n)
  OBVIOUS
<1>3. Len(rs) \in Nat /\ <<>> \in Seq(Record)
  OBVIOUS
<1> HIDE DEF step
<1>4. PICK f : Solves(f, Len(rs), Seq(Record), <<>>, step)
  BY <1>1, <1>3, Recursion
<1>5. Is(f)
  <2> DEFINE L == Len(rs)
             S == Seq(Record)
  <2>1. /\ L \in Nat /\ f \in [0 .. L -> S] /\ f[0] = <<>>
        /\ \A n \in 1 .. L : f[n] = step[n][f[n - 1]]
        /\ \A n \in 1 .. L : \A v \in S : step[n][v] = Turn(v, n)
    BY <1>2, <1>3, <1>4 DEF Solves
  <2> HIDE DEF L, S, Turn
  <2>2. \A n \in 1 .. L : n \in 0 .. L /\ n # 0 /\ f[n - 1] \in S
    BY <2>1
  <2>3. \A n \in 0 .. L : f[n] = IF n = 0 THEN <<>> ELSE Turn(f[n - 1], n)
    BY <2>1, <2>2
  <2>4. f = [n \in 0 .. L |-> IF n = 0 THEN <<>> ELSE Turn(f[n - 1], n)]
    BY <2>1, <2>3, Zenon
  <2> QED
    BY <2>4 DEF L, Turn
<1>6. Is(KeptUpTo(rs))
  <2>1. \E g : Is(g)
    BY <1>5
  <2> QED
    BY <2>1 DEF KeptUpTo
<1> DEFINE kept == KeptUpTo(rs)
<1>7. kept = [n \in 0 .. Len(rs) |->
                IF n = 0 THEN <<>>
                ELSE IF rs[n].read THEN kept[n - 1]
                ELSE Append(kept[n - 1], rs[n])]
  BY <1>6
<1> HIDE DEF kept, Is, Turn
<1>8. /\ kept[0] = <<>>
      /\ \A n \in 1 .. Len(rs) :
           kept[n] = IF rs[n].read THEN kept[n - 1]
                     ELSE Append(kept[n - 1], rs[n])
  <2> DEFINE L == Len(rs)
  <2>1. /\ L \in Nat
        /\ kept = [n \in 0 .. L |->
                     IF n = 0 THEN <<>>
                     ELSE IF rs[n].read THEN kept[n - 1]
                     ELSE Append(kept[n - 1], rs[n])]
    BY <1>3, <1>7
  <2> HIDE DEF L
  <2>2. 0 \in 0 .. L /\ \A n \in 1 .. L : n \in 0 .. L /\ n # 0
    BY <2>1
  <2>3. \A n \in 0 .. L :
          kept[n] = IF n = 0 THEN <<>>
                    ELSE IF rs[n].read THEN kept[n - 1]
                    ELSE Append(kept[n - 1], rs[n])
    BY <2>1, Zenon
  <2> QED
    BY <2>2, <2>3 DEF L
<1> QED
  BY <1>8 DEF kept

\* v is made of the unread records among the first n, in their order.
Selects(v, rs, n) ==
  /\ v \in Seq(Record) /\ Len(v) <= n
  /\ \A i \in 1 .. Len(v) : \E m \in 1 .. n : v[i] = rs[m] /\ ~rs[m].read
  /\ \A i, j \in 1 .. Len(v) : i < j =>
       \E l, m \in 1 .. n : l < m /\ v[i] = rs[l] /\ v[j] = rs[m]
  /\ \A m \in 1 .. n : ~rs[m].read => \E i \in 1 .. Len(v) : v[i] = rs[m]

\* One more turn of the loop that compacts a queue.
LEMMA SelectsTurn ==
  ASSUME NEW rs \in Seq(Record), NEW n \in 0 .. Len(rs) - 1, NEW v,
         Selects(v, rs, n)
  PROVE  Selects(IF rs[n + 1].read THEN v ELSE Append(v, rs[n + 1]), rs, n + 1)
<1> DEFINE r == rs[n + 1]
<1>1. /\ Len(rs) \in Nat /\ n \in Nat /\ n + 1 \in 1 .. Len(rs) /\ r \in Record
      /\ v \in Seq(Record) /\ Len(v) \in Nat /\ Len(v) <= n
  BY DEF Selects
<1>2. \A m \in 1 .. n : m \in 1 .. n + 1 /\ m < n + 1
  BY <1>1
<1>3. \A m \in 1 .. n + 1 : m \in 1 .. n \/ m = n + 1
  BY <1>1
<1>4. CASE r.read
  <2> HIDE DEF r
  <2>1. Selects(v, rs, n + 1)
    <3>1. \A i \in 1 .. Len(v) : \E m \in 1 .. n + 1 : v[i] = rs[m] /\ ~rs[m].read
      BY <1>2 DEF Selects
    <3>2. ASSUME NEW i \in 1 .. Len(v), NEW j \in 1 .. Len(v), i < j
          PROVE  \E l, m \in 1 .. n + 1 : l < m /\ v[i] = rs[l] /\ v[j] = rs[m]
      BY <1>2, <3>2 DEF Selects
    <3>3. ASSUME NEW m \in 1 .. n + 1, ~rs[m].read
          PROVE  \E i \in 1 .. Len(v) : v[i] = rs[m]
      BY <1>3, <1>4, <3>3 DEF Selects, r
    <3>4. Len(v) <= n + 1
      BY <1>1
    <3> QED
      BY <1>1, <3>1, <3>2, <3>3, <3>4 DEF Selects
  <2> QED
    BY <1>4, <2>1 DEF r
<1>5. CASE ~r.read
  <2> DEFINE w == Append(v, r)
  <2>1. /\ w \in Seq(Record) /\ Len(w) = Len(v) + 1 /\ w[Len(v) + 1] = r
        /\ \A i \in 1 .. Len(v) : w[i] = v[i]
    BY <1>1, AppendProperties
  <2>2. \A i \in 1 .. Len(w) : i \in 1 .. Len(v) \/ i = Len(v) + 1
    BY <1>1, <2>1
  <2>3. 1 .. Len(v) \subseteq 1 .. Len(w) /\ Len(v) + 1 \in 1 .. Len(w)
    BY <1>1, <2>1
  <2>4. r = rs[n + 1] /\ n + 1 \in 1 .. n + 1 /\ Len(w) <= n + 1
    BY <1>1, <2>1
  <2> HIDE DEF r, w
  <2>5. ASSUME NEW i \in 1 .. Len(w)
        PROVE  \E m \in 1 .. n + 1 : w[i] = rs[m] /\ ~rs[m].read
    <3>1. CASE i = Len(v) + 1
      BY <1>5, <2>1, <2>4, <3>1
    <3>2. CASE i \in 1 .. Len(v)
      <4>1. PICK m \in 1 .. n : v[i] = rs[m] /\ ~rs[m].read
        BY <3>2 DEF Selects
      <4> QED
        BY <1>2, <2>1, <3>2, <4>1
    <3> QED
      BY <2>2, <3>1, <3>2
  <2>6. ASSUME NEW i \in 1 .. Len(w), NEW j \in 1 .. Len(w), i < j
        PROVE  \E l, m \in 1 .. n + 1 : l < m /\ w[i] = rs[l] /\ w[j] = rs[m]
    <3>1. i \in 1 .. Len(v)
      BY <1>1, <2>1, <2>6
    <3>2. CASE j = Len(v) + 1
      <4>1. PICK l \in 1 .. n : v[i] = rs[l]
        BY <3>1 DEF Selects
      <4>2. l \in 1 .. n + 1 /\ l < n + 1
        BY <1>2
      <4> QED
        BY <2>1, <2>4, <3>1, <3>2, <4>1, <4>2
    <3>3. CASE j \in 1 .. Len(v)
      <4>1. PICK l \in 1 .. n, m \in 1 .. n :
              l < m /\ v[i] = rs[l] /\ v[j] = rs[m]
        BY <2>6, <3>1, <3>3 DEF Selects
      <4> QED
        BY <1>2, <2>1, <3>1, <3>3, <4>1
    <3> QED
      BY <2>2, <3>2, <3>3
  <2>7. ASSUME NEW m \in 1 .. n + 1, ~rs[m].read
        PROVE  \E i \in 1 .. Len(w) : w[i] = rs[m]
    <3>1. CASE m = n + 1
      BY <2>1, <2>3, <2>4, <3>1
    <3>2. CASE m \in 1 .. n
      <4>1. PICK i \in 1 .. Len(v) : v[i] = rs[m]
        BY <2>7, <3>2 DEF Selects
      <4> QED
        BY <2>1, <2>3, <4>1
    <3> QED
      BY <1>3, <3>1, <3>2
  <2>8. Selects(w, rs, n + 1)
    BY <2>1, <2>4, <2>5, <2>6, <2>7 DEF Selects
  <2> QED
    BY <1>5, <2>8 DEF r, w
<1> QED
  BY <1>4, <1>5

\* What is retired was read, and the rest stays in order.
LEMMA KeptFacts ==
  ASSUME NEW rs \in Seq(Record)
  PROVE  Selects(Kept(rs), rs, Len(rs))
<1> DEFINE N == Len(rs)
           P == {n \in 0 .. N : Selects(KeptUpTo(rs)[n], rs, n)}
<1>1. N \in Nat
  OBVIOUS
<1>2. 0 \in P
  <2>1. Selects(<<>>, rs, 0)
    BY DEF Selects
  <2> QED
    BY <1>1, <2>1, KeptTurn
<1>3. ASSUME NEW n \in 0 .. N - 1, n \in P
      PROVE  n + 1 \in P
  <2>1. n + 1 \in 1 .. N /\ n + 1 - 1 = n /\ n + 1 \in 0 .. N
    BY <1>1
  <2>2. KeptUpTo(rs)[n + 1] = IF rs[n + 1].read THEN KeptUpTo(rs)[n]
                              ELSE Append(KeptUpTo(rs)[n], rs[n + 1])
    BY <2>1, KeptTurn
  <2>3. Selects(KeptUpTo(rs)[n], rs, n)
    BY <1>3
  <2>4. Selects(KeptUpTo(rs)[n + 1], rs, n + 1)
    BY <2>2, <2>3, SelectsTurn
  <2> QED
    BY <2>1, <2>4
<1>4. P \in SUBSET Nat
  BY <1>1
<1> HIDE DEF P
<1>5. \A n \in 0 .. N : n \in P
  BY <1>1, <1>2, <1>3, <1>4, UpTo
<1>6. N \in P
  BY <1>1, <1>5
<1> QED
  BY <1>6 DEF P, Kept

-----------------------------------------------------------------------------
(* The inductive invariant.                                                *)

Types ==
  /\ staged \in Seq(Ids) /\ Len(staged) <= MaxQueue
  /\ records \in [Sessions -> Seq(Record)]
  /\ \A s \in Sessions : Len(records[s]) <= MaxQueue
  /\ cursor \in [Sessions -> 1 .. MaxQueue]
  /\ listening \subseteq Listeners
  /\ \A s \in Sessions : /\ IsFiniteSet(listening \cap KeysAt(s))
                         /\ Cardinality(listening \cap KeysAt(s)) <= MaxListeners
  /\ DOMAIN waiters \subseteq Tasks /\ waiters \in [DOMAIN waiters -> Waiter]
  /\ fiber \in [Tasks -> {"ready", "waiting", "found"}]
  /\ next \in [Sessions -> SUBSET (Keys \cup {Root})]
  /\ active \in [Sessions -> SUBSET (Keys \cup {Root})]
  /\ \A s \in Sessions : next[s] \cup active[s] \subseteq KeysAt(s) \cup {Root}
  /\ mounted \subseteq Sessions /\ composed \subseteq mounted
  /\ frame \subseteq Sessions /\ composing \in frame \cup {None}
  /\ iterations \in 0 .. MaxDrain
  /\ nextEvent \in 1 .. MaxEvents + 1

\* Bodies run only in a pass, and are those of its session.
PassOK ==
  /\ composing # None => composing \in mounted
  /\ due \subseteq KeysAt(composing) /\ body \in KeysAt(composing) \cup {None}

\* A listener was handed the event once if it is among the consumers; if it
\* was handed it and is not, there was no room among them.
RecordOK(s, r, limit) ==
  /\ r.told \subseteq Accepting(Listeners, s, r.scope)
  /\ IsFiniteSet(r.seen) /\ Cardinality(r.seen) <= MaxConsumers
  /\ \A k \in Listeners :
       /\ k \in r.seen => r.handed[k] = 1
       /\ k \notin r.seen /\ r.handed[k] > 0 =>
            Cardinality(r.seen) = MaxConsumers
  /\ r.id < limit

RecordsOK ==
  \A s \in Sessions : \A n \in 1 .. Len(records[s]) :
    RecordOK(s, records[s][n], nextEvent)

IsBroadcast(r) == r.scope = "broadcast"

Ordered(rs) ==
  \A m, n \in 1 .. Len(rs) :
    m < n /\ IsBroadcast(rs[m]) /\ IsBroadcast(rs[n]) => rs[m].id < rs[n].id

Before(rs, limit) ==
  \A n \in 1 .. Len(rs) : IsBroadcast(rs[n]) => rs[n].id < limit

\* What is staged was accepted after what has been delivered.
OrderOK ==
  /\ \A i \in 1 .. Len(staged) : staged[i] < nextEvent
  /\ \A i, j \in 1 .. Len(staged) : i < j => staged[i] < staged[j]
  /\ \A s \in Sessions :
       /\ Ordered(records[s])
       /\ \A i \in 1 .. Len(staged) : Before(records[s], staged[i])

\* Listener k is on its way to record n of s: its body will run in this pass
\* or the next one of s, or runs and has not come to the record.
Coming(s, k, n) ==
  \/ k \in due
  \/ {k, Root} \cap active[s] # {}
  \/ body = k /\ n > cursor[s]
  \/ composing # s /\ {k, Root} \cap next[s] # {}

\* Whoever was listening when an event was queued has been handed it, or
\* comes to it, unless it is a signal to a session that was composing.
HeardOK ==
  \A s \in Sessions : \A n \in 1 .. Len(records[s]) :
    \A k \in records[s][n].told :
      records[s][n].handed[k] = 0 /\ ~records[s][n].midway => Coming(s, k, n)

Inv == Types /\ PassOK /\ RecordsOK /\ OrderOK /\ OneOutcome

Served == WakeupPending /\ HeardOK

\* CELS_MAX_QUEUE is enough for all keys of a session, and for both of its
\* queues when one is moved behind the other.
QueueHoldsAll ==
  \A s \in Sessions :
    IsFiniteSet(KeysAt(s)) /\ 2 * (Cardinality(KeysAt(s)) + 1) <= MaxKeys

\* Then no step forgets a task or a listener.
KeepsServing == QueueHoldsAll /\ Served => Served'

-----------------------------------------------------------------------------
(* The queues of keys.                                                     *)

\* A full queue drops keys, but never one it has.
LEMMA EnqueuedWithin ==
  ASSUME NEW queue, NEW keys, NEW q \in Enqueued(queue, keys)
  PROVE  queue \subseteq q /\ q \subseteq queue \cup keys
  BY DEF Enqueued

LEMMA OneMore ==
  ASSUME NEW S, IsFiniteSet(S), NEW x
  PROVE  IsFiniteSet(S \cup {x}) /\ Cardinality(S \cup {x}) <= Cardinality(S) + 1
<1>1. /\ IsFiniteSet(S \cup {x})
      /\ \/ x \in S /\ Cardinality(S \cup {x}) = Cardinality(S)
         \/ Cardinality(S \cup {x}) = Cardinality(S) + 1
  BY FS_AddElement
<1>2. PICK n \in Nat : Cardinality(S) = n
  BY FS_CardinalityType
<1> QED
  BY <1>1, <1>2

\* With room for all keys it drops none.
LEMMA EnqueuedAll ==
  ASSUME EventsAssumption, QueueHoldsAll, NEW s \in Sessions,
         NEW queue, NEW keys, queue \cup keys \subseteq KeysAt(s) \cup {Root},
         NEW q \in Enqueued(queue, keys)
  PROVE  q = queue \cup keys
<1> DEFINE all == KeysAt(s) \cup {Root}
           sum == queue \cup keys
<1>1. IsFiniteSet(KeysAt(s)) /\ 2 * (Cardinality(KeysAt(s)) + 1) <= MaxKeys /\ MaxKeys \in Nat
  BY DEF QueueHoldsAll, EventsAssumption
<1>2. Cardinality(KeysAt(s)) \in Nat
  BY <1>1, FS_CardinalityType
<1>3. IsFiniteSet(all) /\ Cardinality(all) <= Cardinality(KeysAt(s)) + 1
  BY <1>1, OneMore
<1>4. IsFiniteSet(sum) /\ Cardinality(sum) <= Cardinality(all)
  BY <1>3, FS_Subset
<1>5. Cardinality(sum) \in Nat /\ Cardinality(all) \in Nat
  BY <1>3, <1>4, FS_CardinalityType
<1>6. Cardinality(sum) <= MaxKeys
  BY <1>1, <1>2, <1>3, <1>4, <1>5
<1> QED
  BY <1>6 DEF Enqueued

LEMMA MovedAll ==
  ASSUME EventsAssumption, QueueHoldsAll, Inv, NEW s \in Sessions,
         NEW keys \in Moved(s)
  PROVE  keys = next[s]
<1> DEFINE all == KeysAt(s) \cup {Root}
<1>1. IsFiniteSet(KeysAt(s)) /\ 2 * (Cardinality(KeysAt(s)) + 1) <= MaxKeys /\ MaxKeys \in Nat
  BY DEF QueueHoldsAll, EventsAssumption
<1>2. Cardinality(KeysAt(s)) \in Nat
  BY <1>1, FS_CardinalityType
<1>3. IsFiniteSet(all) /\ Cardinality(all) <= Cardinality(KeysAt(s)) + 1
  BY <1>1, OneMore
<1>4. next[s] \subseteq all /\ active[s] \subseteq all
  BY DEF Inv, Types
<1>5. /\ Cardinality(next[s]) <= Cardinality(all) /\ IsFiniteSet(next[s])
      /\ Cardinality(active[s]) <= Cardinality(all) /\ IsFiniteSet(active[s])
  BY <1>3, <1>4, FS_Subset
<1>6. /\ Cardinality(next[s]) \in Nat /\ Cardinality(active[s]) \in Nat
      /\ Cardinality(all) \in Nat
  BY <1>3, <1>5, FS_CardinalityType
<1>7. Cardinality(next[s]) + Cardinality(active[s]) <= MaxKeys
  BY <1>1, <1>2, <1>3, <1>5, <1>6
<1> QED
  BY <1>7 DEF Moved

-----------------------------------------------------------------------------
(* One event.                                                              *)

Mail == [records : Seq(Record), waiters : [DOMAIN waiters -> Waiter],
         woken : SUBSET Tasks, told : SUBSET Listeners]

\* A record that has just been queued in session s.
Fresh(s, r, told, limit) ==
  /\ r.told \subseteq told /\ r.told \subseteq Accepting(Listeners, s, r.scope)
  /\ r.seen = {} /\ \A k \in Listeners : r.handed[k] = 0
  /\ r.id < limit
  /\ r.midway <=> r.scope = "signal" /\ composing = s

\* An answer, which is given once and makes the task run.
AnswerOf(w, v) ==
  /\ w.waiting /\ ~v.waiting /\ v.received
  /\ v.timedOut = w.timedOut /\ v.timed = w.timed

\* What m makes of the inbox of s and of its waiters, with events below limit.
MailOK(s, m, limit) ==
  /\ m \in Mail
  /\ m.woken \subseteq KeysAt(s) /\ m.told \subseteq KeysAt(s)
  /\ Len(m.records) <= MaxQueue
  /\ Len(records[s]) <= Len(m.records)
  /\ \A n \in 1 .. Len(records[s]) : m.records[n] = records[s][n]
  /\ \A n \in 1 .. Len(m.records) :
       n > Len(records[s]) => Fresh(s, m.records[n], m.told, limit)
  /\ \A t \in DOMAIN waiters :
       \/ m.waiters[t] = waiters[t]
       \/ t \in m.woken /\ AnswerOf(waiters[t], m.waiters[t])

\* Nothing has been delivered yet.
LEMMA InboxMail ==
  ASSUME EventsAssumption, Inv, NEW s \in Sessions, NEW limit \in Nat
  PROVE  MailOK(s, Inbox(s), limit)
<1>1. /\ records[s] \in Seq(Record) /\ Len(records[s]) <= MaxQueue
      /\ Len(records[s]) \in Nat
      /\ waiters \in [DOMAIN waiters -> Waiter]
  BY DEF Inv, Types
<1>2. /\ Inbox(s).records = records[s] /\ Inbox(s).waiters = waiters
      /\ Inbox(s).woken = {} /\ Inbox(s).told = {}
  BY DEF Inbox
<1>3. Inbox(s) \in Mail
  BY <1>1 DEF Inbox, Mail
<1> QED
  BY <1>1, <1>2, <1>3 DEF MailOK

\* The record that CelsEventEmit and its siblings queue.
NewRecord(m, s, id, scope) ==
  [id |-> id, scope |-> scope, seen |-> {}, read |-> FALSE,
   told |-> Accepting(listening, s, scope),
   handed |-> [k \in Keys |-> IF k \in Woken(m.waiters, s, scope) THEN 1 ELSE 0],
   midway |-> scope = "signal" /\ composing = s]

LEMMA DeliveredFields ==
  ASSUME NEW m, NEW s, NEW id, NEW scope
  PROVE  LET d == Delivered(m, s, id, scope)
             woken == Woken(m.waiters, s, scope)
         IN  /\ d.waiters = Answered(m.waiters, woken)
             /\ d.woken = m.woken \cup woken
             /\ Room(m.records) =>
                  /\ d.records = Append(m.records, NewRecord(m, s, id, scope))
                  /\ d.told = m.told \cup Accepting(listening, s, scope)
             /\ ~Room(m.records) => d.records = m.records /\ d.told = m.told
             /\ d = [records |-> d.records, waiters |-> d.waiters,
                     woken |-> d.woken, told |-> d.told]
<1>1. CASE Room(m.records)
  BY <1>1 DEF Delivered, NewRecord
<1>2. CASE ~Room(m.records)
  BY <1>2 DEF Delivered
<1> QED
  BY <1>1, <1>2

LEMMA DeliveredType ==
  ASSUME EventsAssumption, Inv, NEW m \in Mail, NEW s \in Sessions,
         NEW id \in Ids, NEW scope \in Scopes
  PROVE  /\ Delivered(m, s, id, scope) \in Mail
         /\ NewRecord(m, s, id, scope) \in Record
         /\ Woken(m.waiters, s, scope) \subseteq Tasks \cap KeysAt(s)
         /\ Accepting(listening, s, scope) \subseteq Listeners \cap KeysAt(s)
<1> DEFINE d == Delivered(m, s, id, scope)
           woken == Woken(m.waiters, s, scope)
           heard == Accepting(listening, s, scope)
           rec == NewRecord(m, s, id, scope)
<1>1. /\ m.records \in Seq(Record) /\ m.waiters \in [DOMAIN waiters -> Waiter]
      /\ m.woken \subseteq Tasks /\ m.told \subseteq Listeners
      /\ DOMAIN waiters \subseteq Tasks /\ listening \subseteq Listeners
  BY DEF Mail, Inv, Types
<1>2. woken \subseteq Tasks \cap KeysAt(s) /\ woken \subseteq DOMAIN waiters
  BY <1>1 DEF Woken, Accepting, KeysAt, Keys
<1>3. heard \subseteq Listeners \cap KeysAt(s)
  BY <1>1 DEF Accepting, KeysAt, Keys
<1>4. rec \in Record
  BY <1>3 DEF NewRecord, Record
<1>5. Answered(m.waiters, woken) \in [DOMAIN waiters -> Waiter]
  BY <1>1, <1>2, ZenonT(30) DEF Answered, Waiter
<1> HIDE DEF woken, heard, rec
<1>6. /\ d.waiters = Answered(m.waiters, woken) /\ d.woken = m.woken \cup woken
      /\ Room(m.records) => d.records = Append(m.records, rec)
                            /\ d.told = m.told \cup heard
      /\ ~Room(m.records) => d.records = m.records /\ d.told = m.told
      /\ d = [records |-> d.records, waiters |-> d.waiters,
              woken |-> d.woken, told |-> d.told]
  BY DeliveredFields DEF woken, heard, rec
<1> HIDE DEF d
<1>7. d.records \in Seq(Record) /\ d.told \subseteq Listeners
  <2>1. Append(m.records, rec) \in Seq(Record)
    BY <1>1, <1>4, AppendProperties
  <2>2. m.told \cup heard \subseteq Listeners
    BY <1>1, <1>3
  <2> QED
    BY <1>1, <1>6, <2>1, <2>2, Zenon
<1>8. d.woken \subseteq Tasks /\ d.waiters \in [DOMAIN waiters -> Waiter]
  BY <1>1, <1>2, <1>5, <1>6
<1>9. d \in Mail
  BY <1>6, <1>7, <1>8 DEF Mail
<1> QED
  BY <1>2, <1>3, <1>4, <1>9 DEF d, woken, heard, rec

LEMMA DeliveredMail ==
  ASSUME EventsAssumption, Inv, NEW s \in Sessions, NEW id \in Ids,
         NEW scope \in Scopes, NEW limit \in Nat, id < limit,
         NEW m, MailOK(s, m, limit)
  PROVE  MailOK(s, Delivered(m, s, id, scope), limit)
<1> DEFINE d == Delivered(m, s, id, scope)
           woken == Woken(m.waiters, s, scope)
           heard == Accepting(listening, s, scope)
           rec == NewRecord(m, s, id, scope)
<1>1. /\ d \in Mail /\ rec \in Record
      /\ woken \subseteq Tasks \cap KeysAt(s) /\ heard \subseteq Listeners \cap KeysAt(s)
  BY DeliveredType DEF MailOK
<1>2. /\ d.waiters = Answered(m.waiters, woken) /\ d.woken = m.woken \cup woken
      /\ Room(m.records) => d.records = Append(m.records, rec)
                            /\ d.told = m.told \cup heard
      /\ ~Room(m.records) => d.records = m.records /\ d.told = m.told
  BY DeliveredFields
<1>3. /\ m.records \in Seq(Record) /\ m.waiters \in [DOMAIN waiters -> Waiter]
      /\ Len(m.records) \in Nat /\ Len(m.records) <= MaxQueue
      /\ records[s] \in Seq(Record) /\ Len(records[s]) \in Nat
      /\ Len(records[s]) <= Len(m.records)
      /\ MaxQueue \in Nat
  BY SMTT(30) DEF MailOK, Mail, Inv, Types, EventsAssumption
<1>4. Fresh(s, rec, heard, limit)
  <2>1. \A k \in Listeners : k \notin woken /\ k \in Keys
    BY <1>1 DEF EventsAssumption, Keys
  <2>2. heard \subseteq Accepting(Listeners, s, scope)
    BY <1>1 DEF Accepting
  <2> QED
    BY <2>1, <2>2 DEF Fresh, NewRecord
<1>5. \A t \in DOMAIN waiters :
        \/ d.waiters[t] = waiters[t]
        \/ t \in d.woken /\ AnswerOf(waiters[t], d.waiters[t])
  <2> SUFFICES ASSUME NEW t \in DOMAIN waiters
               PROVE  \/ d.waiters[t] = waiters[t]
                      \/ t \in d.woken /\ AnswerOf(waiters[t], d.waiters[t])
    OBVIOUS
  <2>1. \/ m.waiters[t] = waiters[t]
        \/ t \in m.woken /\ AnswerOf(waiters[t], m.waiters[t])
    BY DEF MailOK
  <2>2. CASE t \in woken
    <3>1. m.waiters[t].waiting /\ m.waiters[t] \in Waiter
      BY <1>3, <2>2 DEF Woken
    <3>2. m.waiters[t] = waiters[t]
      BY <2>1, <3>1 DEF AnswerOf
    <3>3. d.waiters[t] = [m.waiters[t] EXCEPT !.waiting = FALSE, !.received = TRUE]
      BY <1>2, <1>3, <2>2 DEF Answered
    <3>4. AnswerOf(m.waiters[t], d.waiters[t])
      BY <3>1, <3>3 DEF AnswerOf, Waiter
    <3> QED
      BY <1>2, <2>2, <3>2, <3>4
  <2>3. CASE t \notin woken
    <3>1. d.waiters[t] = m.waiters[t]
      BY <1>2, <1>3, <2>3 DEF Answered
    <3> QED
      BY <1>2, <2>1, <3>1
  <2> QED
    BY <2>2, <2>3
<1>6. d.woken \subseteq KeysAt(s) /\ d.told \subseteq KeysAt(s)
  BY <1>1, <1>2 DEF MailOK
<1> HIDE DEF d, woken, heard, rec
<1>7. CASE Room(m.records)
  <2>0. \A q \in Seq(Record), r \in Record :
          /\ Len(Append(q, r)) = Len(q) + 1
          /\ Append(q, r)[Len(q) + 1] = r
          /\ \A n \in 1 .. Len(q) : Append(q, r)[n] = q[n]
    BY AppendProperties
  <2>1. /\ Len(d.records) = Len(m.records) + 1
        /\ d.records[Len(m.records) + 1] = rec
        /\ \A n \in 1 .. Len(m.records) : d.records[n] = m.records[n]
    <3>1. d.records = Append(m.records, rec)
      BY <1>2, <1>7
    <3> HIDE DEF d
    <3>2. /\ Len(Append(m.records, rec)) = Len(m.records) + 1
          /\ Append(m.records, rec)[Len(m.records) + 1] = rec
          /\ \A n \in 1 .. Len(m.records) : Append(m.records, rec)[n] = m.records[n]
      BY <1>1, <1>3, <2>0, ZenonT(40)
    <3> QED
      BY <3>1, <3>2, Zenon
  <2>2. Len(d.records) <= MaxQueue /\ Len(records[s]) <= Len(d.records)
    BY <1>3, <1>7, <2>1 DEF Room
  <2>3. \A n \in 1 .. Len(records[s]) : d.records[n] = records[s][n]
    BY <1>3, <2>1 DEF MailOK
  <2>4. ASSUME NEW n \in 1 .. Len(d.records), n > Len(records[s])
        PROVE  Fresh(s, d.records[n], d.told, limit)
    <3>1. CASE n = Len(m.records) + 1
      BY <1>2, <1>4, <1>7, <2>1, <3>1 DEF Fresh
    <3>2. CASE n \in 1 .. Len(m.records)
      <4>1. Fresh(s, m.records[n], m.told, limit)
        BY <2>4, <3>2 DEF MailOK
      <4> QED
        BY <1>2, <1>7, <2>1, <3>2, <4>1 DEF Fresh
    <3> QED
      BY <1>3, <2>1, <3>1, <3>2, SMTT(30)
  <2> QED
    BY <1>1, <1>5, <1>6, <2>2, <2>3, <2>4 DEF MailOK, d
<1>8. CASE ~Room(m.records)
  <2>1. d.records = m.records /\ d.told = m.told
    BY <1>2, <1>8
  <2> QED
    BY <1>1, <1>3, <1>5, <1>6, <2>1 DEF MailOK, d
<1> QED
  BY <1>7, <1>8

\* One event keeps the order of broadcasts if it came after them.
LEMMA DeliveredOrder ==
  ASSUME EventsAssumption, Inv, NEW m \in Mail, NEW s \in Sessions,
         NEW id \in Ids, NEW scope \in Scopes,
         Ordered(m.records), scope = "broadcast" => Before(m.records, id)
  PROVE  LET d == Delivered(m, s, id, scope)
         IN  /\ Ordered(d.records)
             /\ \A limit \in Nat :
                  Before(m.records, limit) /\ (scope = "broadcast" => id < limit)
                    => Before(d.records, limit)
<1> DEFINE d == Delivered(m, s, id, scope)
           rec == NewRecord(m, s, id, scope)
           old == m.records
           rs == d.records
<1>1. old \in Seq(Record) /\ Len(old) \in Nat /\ rec \in Record
  BY DeliveredType DEF Mail
<1>2. /\ Room(old) => rs = Append(old, rec)
      /\ ~Room(old) => rs = old
  BY DeliveredFields
<1>3. rec.id = id /\ rec.scope = scope
  BY DEF NewRecord
<1> HIDE DEF d, rec
<1>4. CASE ~Room(old)
  BY <1>2, <1>4 DEF d
<1>5. CASE Room(old)
  <2>0. rs = Append(old, rec)
    BY <1>2, <1>5
  <2> HIDE DEF rs, old
  <2>1. /\ Len(rs) = Len(old) + 1 /\ rs[Len(old) + 1] = rec
        /\ \A n \in 1 .. Len(old) : rs[n] = old[n]
    BY <1>1, <2>0, AppendProperties
  <2>2. \A n \in 1 .. Len(rs) : n \in 1 .. Len(old) \/ n = Len(old) + 1
    BY <1>1, <2>1
  <2>3. Ordered(rs)
    <3> SUFFICES ASSUME NEW i \in 1 .. Len(rs), NEW j \in 1 .. Len(rs), i < j,
                        IsBroadcast(rs[i]), IsBroadcast(rs[j])
                 PROVE  rs[i].id < rs[j].id
      BY DEF Ordered
    <3>1. i \in 1 .. Len(old)
      BY <1>1, <2>1
    <3>2. CASE j \in 1 .. Len(old)
      <4>1. Ordered(old)
        BY DEF old
      <4> QED
        BY <2>1, <3>1, <3>2, <4>1 DEF Ordered
    <3>3. CASE j = Len(old) + 1
      <4>1. scope = "broadcast"
        BY <1>3, <2>1, <3>3 DEF IsBroadcast
      <4>2. Before(old, id)
        BY <4>1 DEF old
      <4> QED
        BY <1>3, <2>1, <3>1, <3>3, <4>2 DEF Before
    <3> QED
      BY <2>2, <3>2, <3>3
  <2>4. ASSUME NEW limit \in Nat, Before(old, limit), scope = "broadcast" => id < limit
        PROVE  Before(rs, limit)
    <3> SUFFICES ASSUME NEW n \in 1 .. Len(rs), IsBroadcast(rs[n])
                 PROVE  rs[n].id < limit
      BY DEF Before
    <3>1. CASE n \in 1 .. Len(old)
      BY <2>1, <2>4, <3>1 DEF Before
    <3>2. CASE n = Len(old) + 1
      BY <1>3, <2>1, <2>4, <3>2 DEF IsBroadcast
    <3> QED
      BY <2>2, <3>1, <3>2
  <2> QED
    BY <2>3, <2>4 DEF rs, d, old
<1> QED
  BY <1>4, <1>5

\* CelsEngineDrainBroadcasts, turn by turn.
LEMMA FloodedTurn ==
  ASSUME EventsAssumption, Inv, NEW s \in Sessions
  PROVE  /\ FloodedUpTo(s)[0] = Inbox(s)
         /\ \A n \in 1 .. Len(staged) :
              FloodedUpTo(s)[n] = Delivered(FloodedUpTo(s)[n - 1], s, staged[n], "broadcast")
<1> DEFINE Turn(v, n) == Delivered(v, s, staged[n], "broadcast")
           step == [n \in 1 .. Len(staged) |-> [v \in Mail |-> Turn(v, n)]]
           Is(f) == f = [n \in 0 .. Len(staged) |->
                           IF n = 0 THEN Inbox(s)
                           ELSE Delivered(f[n - 1], s, staged[n], "broadcast")]
           L == Len(staged)
           c == Inbox(s)
<1>1. L \in Nat /\ \A n \in 1 .. L : staged[n] \in Ids
  BY DEF Inv, Types
<1>2. c \in Mail
  BY InboxMail DEF MailOK
<1>3. ASSUME NEW n \in 1 .. L, NEW v \in Mail
      PROVE  Turn(v, n) \in Mail
  <2>1. staged[n] \in Ids /\ "broadcast" \in Scopes
    BY <1>1 DEF Scopes
  <2> QED
    BY <2>1, DeliveredType
<1> HIDE DEF Turn
<1>4. step \in [1 .. L -> [Mail -> Mail]]
  <2> HIDE DEF L
  <2> SUFFICES ASSUME NEW n \in 1 .. L
               PROVE  [v \in Mail |-> Turn(v, n)] \in [Mail -> Mail]
    BY DEF L
  <2> QED
    BY <1>3
<1>5. \A n \in 1 .. L : \A v \in Mail : step[n][v] = Turn(v, n)
  OBVIOUS
<1> HIDE DEF step, c, L
<1>6. PICK f : Solves(f, L, Mail, c, step)
  BY <1>1, <1>2, <1>4, Recursion
<1>7. Is(f)
  <2>1. f \in [0 .. L -> Mail] /\ f[0] = c /\ \A n \in 1 .. L : f[n] = step[n][f[n - 1]]
    BY <1>6 DEF Solves
  <2>2. \A n \in 1 .. L : n \in 0 .. L /\ n # 0 /\ f[n - 1] \in Mail
    BY <1>1, <2>1
  <2>3. ASSUME NEW n \in 0 .. L
        PROVE  f[n] = IF n = 0 THEN c ELSE Turn(f[n - 1], n)
    <3>1. CASE n = 0
      BY <2>1, <3>1
    <3>2. CASE n # 0
      <4>1. n \in 1 .. L
        BY <1>1, <3>2
      <4>2. f[n] = step[n][f[n - 1]] /\ f[n - 1] \in Mail
        BY <2>1, <2>2, <4>1
      <4>3. step[n][f[n - 1]] = Turn(f[n - 1], n)
        BY <1>5, <4>1, <4>2
      <4> QED
        BY <3>2, <4>2, <4>3
    <3> QED
      BY <3>1, <3>2
  <2>4. f = [n \in 0 .. L |-> IF n = 0 THEN c ELSE Turn(f[n - 1], n)]
    BY <2>1, <2>3, Zenon
  <2> QED
    BY <2>4 DEF L, Turn, c
<1> DEFINE flooded == FloodedUpTo(s)
<1>8. Is(flooded)
  <2>1. \E g : Is(g)
    BY <1>7
  <2> QED
    BY <2>1 DEF FloodedUpTo
<1>9. flooded = [n \in 0 .. L |-> IF n = 0 THEN c ELSE Turn(flooded[n - 1], n)]
  BY <1>8 DEF L, Turn, c
<1> HIDE DEF flooded, Is
<1>10. 0 \in 0 .. L /\ \A n \in 1 .. L : n \in 0 .. L /\ n # 0
  BY <1>1
<1>11. \A n \in 0 .. L : flooded[n] = IF n = 0 THEN c ELSE Turn(flooded[n - 1], n)
  BY <1>9, Zenon
<1>12. flooded[0] = c /\ \A n \in 1 .. L : flooded[n] = Turn(flooded[n - 1], n)
  BY <1>10, <1>11
<1> QED
  BY <1>12 DEF flooded, c, L, Turn

\* After any number of turns the inbox is in order, and what is still staged
\* was accepted later.
LEMMA FloodedFacts ==
  ASSUME EventsAssumption, Inv, NEW s \in Sessions
  PROVE  MailOK(s, Flooded(s), nextEvent) /\ Ordered(Flooded(s).records)
<1> DEFINE L == Len(staged)
           After(n) == FloodedUpTo(s)[n]
           Good(n) == /\ MailOK(s, After(n), nextEvent)
                      /\ Ordered(After(n).records)
                      /\ \A i \in n + 1 .. L : Before(After(n).records, staged[i])
           P == {n \in 0 .. L : Good(n)}
<1>1. /\ L \in Nat /\ nextEvent \in Nat /\ Ids \subseteq Nat
      /\ \A n \in 1 .. L : staged[n] \in Ids /\ staged[n] < nextEvent
      /\ \A i, j \in 1 .. L : i < j => staged[i] < staged[j]
  <2>1. L \in Nat /\ \A n \in 1 .. L : staged[n] \in Ids
    BY DEF Inv, Types
  <2>2. nextEvent \in Nat /\ Ids \subseteq Nat
    BY DEF Inv, Types, Ids, EventsAssumption
  <2>3. /\ \A n \in 1 .. L : staged[n] < nextEvent
        /\ \A i, j \in 1 .. L : i < j => staged[i] < staged[j]
    BY DEF Inv, OrderOK
  <2> QED
    BY <2>1, <2>2, <2>3
<1>2. After(0) = Inbox(s) /\ \A n \in 1 .. L :
        After(n) = Delivered(After(n - 1), s, staged[n], "broadcast")
  BY FloodedTurn
<1> HIDE DEF L, After
<1>3. Good(0)
  <2>1. MailOK(s, Inbox(s), nextEvent)
    BY <1>1, InboxMail
  <2>2. Inbox(s).records = records[s]
    BY DEF Inbox
  <2>3. Ordered(records[s]) /\ \A i \in 1 .. L : Before(records[s], staged[i])
    BY DEF Inv, OrderOK, L
  <2> QED
    BY <1>2, <2>1, <2>2, <2>3
<1>4. ASSUME NEW n \in 0 .. L - 1, Good(n)
      PROVE  Good(n + 1)
  <2> DEFINE m == After(n)
             id == staged[n + 1]
             d == After(n + 1)
  <2>1. /\ n + 1 \in 1 .. L /\ n + 1 - 1 = n /\ n + 1 \in n + 1 .. L
        /\ \A i \in (n + 1) + 1 .. L : i \in n + 1 .. L /\ i \in 1 .. L /\ n + 1 < i
    BY <1>1
  <2>2. d = Delivered(m, s, id, "broadcast") /\ id \in Ids /\ id < nextEvent
        /\ "broadcast" \in Scopes
    BY <1>1, <1>2, <2>1 DEF Scopes
  <2>3. /\ MailOK(s, m, nextEvent) /\ Ordered(m.records) /\ m \in Mail
        /\ \A i \in n + 1 .. L : Before(m.records, staged[i])
    BY <1>4 DEF MailOK
  <2>4. \A i \in (n + 1) + 1 .. L : staged[i] \in Nat /\ id < staged[i]
    BY <1>1, <2>1
  <2>5. Before(m.records, id)
    BY <2>1, <2>3
  <2> HIDE DEF m, id, d
  <2>6. MailOK(s, d, nextEvent)
    BY <1>1, <2>2, <2>3, DeliveredMail
  <2>7. /\ Ordered(d.records)
        /\ \A limit \in Nat :
             Before(m.records, limit) /\ id < limit => Before(d.records, limit)
    BY <2>2, <2>3, <2>5, DeliveredOrder
  <2>8. \A i \in (n + 1) + 1 .. L : Before(d.records, staged[i])
    BY <2>1, <2>3, <2>4, <2>7
  <2> QED
    BY <2>6, <2>7, <2>8 DEF d
<1> HIDE DEF Good
<1>5. 0 \in P /\ P \in SUBSET Nat /\ \A n \in 0 .. L - 1 : n \in P => n + 1 \in P
  BY <1>1, <1>3, <1>4
<1> HIDE DEF P
<1>6. \A n \in 0 .. L : n \in P
  BY <1>1, <1>5, UpTo
<1>7. L \in P
  BY <1>1, <1>6
<1> QED
  BY <1>7 DEF P, Good, Flooded, After, L

-----------------------------------------------------------------------------
(* The steps.                                                              *)

\* Session x has its mail m once the step is done, and asks for the passes
\* that mail needs.
Arrives(x, m) ==
  /\ MailOK(x, m, nextEvent') /\ Ordered(m.records)
  /\ \A i \in 1 .. Len(staged') : Before(m.records, staged'[i])
  /\ records'[x] = m.records
  /\ \A t \in DOMAIN waiters : HomeOf[t] = x => waiters'[t] = m.waiters[t]
  /\ next[x] \subseteq next'[x] /\ active[x] \subseteq active'[x]
  /\ QueueHoldsAll =>
       /\ m.woken \subseteq next'[x]
       /\ \/ composing # x /\ m.told \subseteq next'[x]
          \/ m.told \subseteq active'[x]
          \/ \A n \in 1 .. Len(m.records) : n > Len(records[x]) => m.records[n].midway

\* Events that arrive disturb nothing that is in the queue, and those who
\* are promised them have their keys scheduled.
LEMMA Arrival ==
  ASSUME EventsAssumption, Inv,
         \A x \in Sessions : \E m : Arrives(x, m),
         staged' \in {staged, <<>>},
         nextEvent' \in nextEvent .. MaxEvents + 1,
         records' = [x \in Sessions |-> records'[x]],
         waiters' = [t \in DOMAIN waiters |-> waiters'[t]],
         next' \in [Sessions -> SUBSET (Keys \cup {Root})],
         active' \in [Sessions -> SUBSET (Keys \cup {Root})],
         \A x \in Sessions : next'[x] \cup active'[x] \subseteq KeysAt(x) \cup {Root},
         UNCHANGED <<cursor, listening, fiber, mounted, composed, composing, iterations,
                     due, body>>,
         frame' \in {frame, Sessions}
  PROVE  Inv' /\ KeepsServing
<1>1. /\ MaxEvents \in Nat /\ MaxConsumers \in Nat /\ MaxQueue \in Nat
      /\ Listeners \subseteq Keys /\ Tasks \subseteq Keys
      /\ \A t \in Keys : HomeOf[t] \in Sessions
  BY DEF EventsAssumption, Keys
<1>2. /\ staged \in Seq(Ids) /\ nextEvent \in Nat /\ nextEvent' \in Nat
      /\ nextEvent <= nextEvent' /\ Ids \subseteq Nat
  BY <1>1 DEF Inv, Types, Ids
<1>3. \A x \in Sessions : /\ records[x] \in Seq(Record) /\ Len(records[x]) \in Nat
                          /\ records'[x] \in Seq(Record) /\ Len(records'[x]) <= MaxQueue
  BY DEF Inv, Types, Arrives, MailOK, Mail
<1>4. ASSUME NEW x \in Sessions, NEW n \in 1 .. Len(records'[x])
      PROVE  \/ n \in 1 .. Len(records[x]) /\ records'[x][n] = records[x][n]
             \/ \E m : /\ Arrives(x, m) /\ n > Len(records[x])
                       /\ Fresh(x, records'[x][n], m.told, nextEvent')
  <2>1. PICK m : Arrives(x, m)
    OBVIOUS
  <2>2. CASE n > Len(records[x])
    BY <2>1, <2>2 DEF Arrives, MailOK
  <2>3. CASE n \in 1 .. Len(records[x])
    BY <2>1, <2>3 DEF Arrives, MailOK
  <2> QED
    BY <1>3, <2>2, <2>3
<1>5. ASSUME NEW t \in DOMAIN waiters
      PROVE  \/ waiters'[t] = waiters[t]
             \/ /\ QueueHoldsAll => t \in next'[HomeOf[t]]
                /\ AnswerOf(waiters[t], waiters'[t])
  <2>1. HomeOf[t] \in Sessions
    BY <1>1 DEF Inv, Types
  <2>2. PICK m : Arrives(HomeOf[t], m)
    BY <2>1
  <2> QED
    BY <2>2 DEF Arrives, MailOK
<1>6. \A t \in DOMAIN waiters : waiters'[t] \in Waiter
  <2> SUFFICES ASSUME NEW t \in DOMAIN waiters
               PROVE  waiters'[t] \in Waiter
    OBVIOUS
  <2>1. HomeOf[t] \in Sessions
    BY <1>1 DEF Inv, Types
  <2>2. PICK m : Arrives(HomeOf[t], m)
    BY <2>1
  <2> QED
    BY <2>2 DEF Arrives, MailOK, Mail
<1>7. Types'
  <2>1. /\ staged' \in Seq(Ids) /\ Len(staged') <= MaxQueue
    <3>1. CASE staged' = staged
      BY <1>2, <3>1 DEF Inv, Types
    <3>2. CASE staged' = <<>>
      BY <1>1, <3>2
    <3> QED
      BY <3>1, <3>2
  <2>2. records' \in [Sessions -> Seq(Record)]
    BY <1>3
  <2>3. DOMAIN waiters' = DOMAIN waiters /\ waiters' \in [DOMAIN waiters' -> Waiter]
    BY <1>6
  <2>4. frame' \subseteq Sessions /\ composing' \in frame' \cup {None}
    BY DEF Inv, Types
  <2>5. nextEvent' \in 1 .. MaxEvents + 1
    BY <1>1 DEF Inv, Types
  <2> QED
    BY <1>3, <2>1, <2>2, <2>3, <2>4, <2>5 DEF Inv, Types, KeysAt
<1>8. PassOK'
  BY DEF Inv, PassOK, KeysAt
<1>9. RecordsOK'
  <2> SUFFICES ASSUME NEW x \in Sessions, NEW n \in 1 .. Len(records'[x])
               PROVE  RecordOK(x, records'[x][n], nextEvent')
    BY DEF RecordsOK, RecordOK, Accepting
  <2>1. CASE n \in 1 .. Len(records[x]) /\ records'[x][n] = records[x][n]
    <3>1. RecordOK(x, records[x][n], nextEvent)
      BY <2>1 DEF Inv, RecordsOK
    <3>2. records[x][n] \in Record
      BY <1>3, <2>1, ElementOfSeq
    <3>3. records[x][n].id \in Nat
      BY <1>2, <3>2 DEF Record
    <3>4. \A r : RecordOK(x, r, nextEvent) /\ r.id \in Nat
                  => RecordOK(x, r, nextEvent')
      BY <1>2 DEF RecordOK
    <3> QED
      BY <2>1, <3>1, <3>3, <3>4, Zenon
  <2>2. CASE \E m : Fresh(x, records'[x][n], m.told, nextEvent')
    <3>1. IsFiniteSet({}) /\ Cardinality({}) = 0
      BY FS_EmptySet
    <3> QED
      BY <1>1, <2>2, <3>1 DEF Fresh, RecordOK
  <2> QED
    BY <1>4, <2>1, <2>2
<1>10. OrderOK'
  <2>1. /\ \A i \in 1 .. Len(staged') : staged'[i] < nextEvent'
        /\ \A i, j \in 1 .. Len(staged') : i < j => staged'[i] < staged'[j]
    <3>1. CASE staged' = staged
      <4>1. \A i \in 1 .. Len(staged) : staged[i] \in Nat /\ staged[i] < nextEvent
        BY <1>2, ElementOfSeq DEF Inv, OrderOK
      <4> QED
        BY <1>2, <3>1, <4>1 DEF Inv, OrderOK
    <3>2. CASE staged' = <<>>
      BY <3>2
    <3> QED
      BY <3>1, <3>2
  <2>2. ASSUME NEW x \in Sessions
        PROVE  /\ Ordered(records'[x])
               /\ \A i \in 1 .. Len(staged') : Before(records'[x], staged'[i])
    BY DEF Arrives
  <2> QED
    BY <2>1, <2>2 DEF OrderOK, Ordered, Before, IsBroadcast
<1>11. OneOutcome'
  BY <1>5 DEF Inv, OneOutcome, AnswerOf
<1>12. ASSUME NEW t \in DOMAIN waiters, HomeOf[t] \in Sessions, Scheduled(t)
       PROVE  Scheduled(t)'
  BY <1>12 DEF Scheduled, Arrives
<1>13. QueueHoldsAll /\ Served => WakeupPending'
  <2> SUFFICES ASSUME QueueHoldsAll, Served,
                      NEW t \in DOMAIN waiters, fiber[t] = "waiting",
                      waiters'[t].timed \/ ~waiters'[t].waiting
               PROVE  Scheduled(t)'
    BY DEF WakeupPending
  <2>1. HomeOf[t] \in Sessions
    BY <1>1 DEF Inv, Types
  <2>2. CASE t \in next'[HomeOf[t]]
    BY <2>2 DEF Scheduled
  <2>3. CASE waiters'[t] = waiters[t]
    <3>1. Scheduled(t)
      BY <2>3 DEF Served, WakeupPending
    <3> QED
      BY <1>12, <2>1, <3>1
  <2> QED
    BY <1>5, <2>2, <2>3
<1>14. QueueHoldsAll /\ Served => HeardOK'
  <2> SUFFICES ASSUME QueueHoldsAll, Served,
                      NEW x \in Sessions, NEW n \in 1 .. Len(records'[x]),
                      NEW k \in records'[x][n].told,
                      records'[x][n].handed[k] = 0, ~records'[x][n].midway
               PROVE  Coming(x, k, n)'
    BY DEF HeardOK
  <2>1. CASE n \in 1 .. Len(records[x]) /\ records'[x][n] = records[x][n]
    <3>1. Coming(x, k, n)
      BY <2>1 DEF Served, HeardOK
    <3> QED
      BY <3>1 DEF Coming, Arrives
  <2>2. CASE \E m : /\ Arrives(x, m) /\ n > Len(records[x])
                    /\ Fresh(x, records'[x][n], m.told, nextEvent')
    <3>1. PICK m : /\ Arrives(x, m) /\ n > Len(records[x])
                   /\ Fresh(x, records'[x][n], m.told, nextEvent')
      BY <2>2
    <3>2. k \in m.told
      BY <3>1 DEF Fresh
    <3>3. \/ composing # x /\ k \in next'[x]
          \/ k \in active'[x]
      BY <3>1, <3>2 DEF Arrives
    <3> QED
      BY <3>3 DEF Coming
  <2> QED
    BY <1>4, <2>1, <2>2
<1> QED
  BY <1>7, <1>8, <1>9, <1>10, <1>11, <1>13, <1>14 DEF Inv, Served, KeepsServing

\* An event that is delivered when it is sent, and the sessions it is not for.
LEMMA SentMail ==
  ASSUME EventsAssumption, Inv, NEW s \in Sessions, nextEvent <= MaxEvents,
         NEW scope \in {"local", "signal"}
  PROVE  LET m == Delivered(Inbox(s), s, nextEvent, scope)
         IN  /\ MailOK(s, m, nextEvent + 1) /\ Ordered(m.records)
             /\ \A i \in 1 .. Len(staged) : Before(m.records, staged[i])
             /\ \A n \in 1 .. Len(m.records) :
                  n > Len(records[s]) => m.records[n].scope = scope
<1> DEFINE m == Delivered(Inbox(s), s, nextEvent, scope)
           rec == NewRecord(Inbox(s), s, nextEvent, scope)
<1>1. /\ nextEvent \in Ids /\ nextEvent + 1 \in Nat /\ nextEvent < nextEvent + 1
      /\ scope \in Scopes /\ scope # "broadcast"
  BY SMTT(30) DEF Inv, Types, Ids, Scopes, EventsAssumption
<1>2. MailOK(s, Inbox(s), nextEvent + 1) /\ Inbox(s) \in Mail
  BY <1>1, InboxMail DEF MailOK
<1>3. Inbox(s).records = records[s]
  BY DEF Inbox
<1>4. /\ Ordered(records[s]) /\ \A i \in 1 .. Len(staged) : Before(records[s], staged[i])
      /\ \A i \in 1 .. Len(staged) : staged[i] \in Nat
  <2>1. staged \in Seq(Ids) /\ Ids \subseteq Nat
    BY DEF Inv, Types, Ids
  <2> QED
    BY <2>1, ElementOfSeq DEF Inv, OrderOK
<1>5. MailOK(s, m, nextEvent + 1)
  BY <1>1, <1>2, DeliveredMail
<1>6. Ordered(m.records) /\ \A limit \in Nat :
        Before(records[s], limit) => Before(m.records, limit)
  BY <1>1, <1>2, <1>3, <1>4, DeliveredOrder
<1>7. \A i \in 1 .. Len(staged) : Before(m.records, staged[i])
  BY <1>4, <1>6
<1>8. ASSUME NEW n \in 1 .. Len(m.records), n > Len(records[s])
      PROVE  m.records[n].scope = scope
  <2> DEFINE box == Inbox(s)
  <2> HIDE DEF box
  <2>1. records[s] \in Seq(Record) /\ Len(records[s]) \in Nat /\ rec \in Record
        /\ rec.scope = scope
    <3>1. rec \in Record
      <4>1. NewRecord(box, s, nextEvent, scope) \in Record
        BY <1>1, <1>2, DeliveredType DEF box
      <4> QED
        BY <4>1 DEF box
    <3>2. records[s] \in Seq(Record) /\ rec.scope = scope
      BY DEF Inv, Types, NewRecord
    <3> QED
      BY <3>1, <3>2
  <2>2. /\ Room(records[s]) => m.records = Append(records[s], rec)
        /\ ~Room(records[s]) => m.records = records[s]
    <3>1. LET d == Delivered(box, s, nextEvent, scope)
          IN  /\ Room(box.records) =>
                    d.records = Append(box.records, NewRecord(box, s, nextEvent, scope))
              /\ ~Room(box.records) => d.records = box.records
      BY DeliveredFields
    <3> QED
      BY <1>3, <3>1 DEF box
  <2> HIDE DEF m, rec
  <2>3. m.records = Append(records[s], rec)
    BY <1>8, <2>1, <2>2
  <2>4. /\ Len(Append(records[s], rec)) = Len(records[s]) + 1
        /\ Append(records[s], rec)[Len(records[s]) + 1] = rec
    BY <2>1, AppendProperties
  <2>5. n = Len(records[s]) + 1
    BY <1>8, <2>1, <2>3, <2>4
  <2> QED
    BY <2>1, <2>3, <2>4, <2>5
<1> QED
  BY <1>5, <1>6, <1>7, <1>8

\* The sessions that an event does not go to.
LEMMA OtherMail ==
  ASSUME EventsAssumption, Inv, NEW s \in Sessions, NEW limit \in Nat,
         NEW m, MailOK(s, m, limit), NEW x \in Sessions, x # s,
         records'[x] = records[x],
         \A t \in DOMAIN waiters : waiters'[t] = m.waiters[t],
         next[x] \subseteq next'[x], active[x] \subseteq active'[x],
         staged' = staged, nextEvent' \in Nat
  PROVE  Arrives(x, Inbox(x))
<1>1. MailOK(x, Inbox(x), nextEvent')
  BY InboxMail
<1>2. Inbox(x).records = records[x] /\ Inbox(x).waiters = waiters
      /\ Inbox(x).woken = {} /\ Inbox(x).told = {}
  BY DEF Inbox
<1>3. Ordered(records[x]) /\ \A i \in 1 .. Len(staged) : Before(records[x], staged[i])
  BY DEF Inv, OrderOK
<1>4. ASSUME NEW t \in DOMAIN waiters, HomeOf[t] = x
      PROVE  m.waiters[t] = waiters[t]
  BY <1>4 DEF MailOK, KeysAt
<1>5. \/ composing # x /\ {} \subseteq next'[x]
      \/ {} \subseteq active'[x]
  OBVIOUS
<1> QED
  BY <1>1, <1>2, <1>3, <1>4, <1>5 DEF Arrives

\* One session is asked for more keys.
LEMMA Asked ==
  ASSUME EventsAssumption, Inv, NEW s \in Sessions, NEW keys, keys \subseteq KeysAt(s) \cup {Root},
         NEW later \in Enqueued(next[s], keys), next' = [next EXCEPT ![s] = later]
  PROVE  /\ next' \in [Sessions -> SUBSET (Keys \cup {Root})]
         /\ \A x \in Sessions : next[x] \subseteq next'[x] /\ next'[x] \subseteq KeysAt(x) \cup {Root}
         /\ \A x \in Sessions : x # s => next'[x] = next[x]
         /\ QueueHoldsAll => keys \subseteq next'[s]
<1>1. /\ next \in [Sessions -> SUBSET (Keys \cup {Root})] /\ KeysAt(s) \subseteq Keys
      /\ \A x \in Sessions : next[x] \subseteq KeysAt(x) \cup {Root}
  BY DEF Inv, Types, KeysAt
<1>2. next[s] \subseteq later /\ later \subseteq next[s] \cup keys
  BY EnqueuedWithin
<1>3. later \subseteq KeysAt(s) \cup {Root}
  BY <1>1, <1>2
<1>4. /\ next'[s] = later /\ next' \in [Sessions -> SUBSET (Keys \cup {Root})]
      /\ \A x \in Sessions : x # s => next'[x] = next[x]
  BY <1>1, <1>3
<1>5. QueueHoldsAll => keys \subseteq later
  <2> SUFFICES ASSUME QueueHoldsAll
               PROVE  keys \subseteq later
    OBVIOUS
  <2>1. later = next[s] \cup keys
    BY <1>1, EnqueuedAll
  <2> QED
    BY <2>1
<1> QED
  BY <1>1, <1>2, <1>3, <1>4, <1>5

\* The senders.
LEMMA EmitStep ==
  ASSUME EventsAssumption, Inv, NEW s \in Sessions, Emit(s)
  PROVE  Inv' /\ KeepsServing
<1> DEFINE m == Delivered(Inbox(s), s, nextEvent, "local")
           late == m.woken \cup IF Soon(s) THEN {} ELSE m.told
           soon == IF Soon(s) THEN m.told ELSE {}
<1>1. /\ MailOK(s, m, nextEvent + 1) /\ Ordered(m.records)
      /\ \A i \in 1 .. Len(staged) : Before(m.records, staged[i])
  BY SentMail DEF Emit
<1>2. /\ records' = [records EXCEPT ![s] = m.records]
      /\ waiters' = m.waiters
      /\ nextEvent' = nextEvent + 1 /\ nextEvent <= MaxEvents
      /\ UNCHANGED <<staged, cursor, listening, fiber, walk>>
  BY DEF Emit
<1>3. PICK later \in Enqueued(next[s], late) : next' = [next EXCEPT ![s] = later]
  BY DEF Emit
<1>4. PICK sooner \in Enqueued(active[s], soon) : active' = [active EXCEPT ![s] = sooner]
  BY DEF Emit
<1> HIDE DEF m
<1>5. /\ records \in [Sessions -> Seq(Record)] /\ nextEvent \in Nat /\ MaxEvents \in Nat
      /\ active \in [Sessions -> SUBSET (Keys \cup {Root})]
      /\ \A x \in Sessions : active[x] \subseteq KeysAt(x) \cup {Root}
      /\ m.woken \subseteq KeysAt(s) /\ m.told \subseteq KeysAt(s)
      /\ m.waiters \in [DOMAIN waiters -> Waiter]
      /\ KeysAt(s) \subseteq Keys
  BY <1>1, SMTT(30) DEF Inv, Types, EventsAssumption, MailOK, Mail, KeysAt
<1>6. late \subseteq KeysAt(s) \cup {Root} /\ soon \subseteq KeysAt(s) \cup {Root}
      /\ m.woken \subseteq late
      /\ \/ composing # s /\ m.told \subseteq late
         \/ m.told \subseteq soon
  BY <1>5 DEF Soon
<1> HIDE DEF late, soon
<1>7. /\ next' \in [Sessions -> SUBSET (Keys \cup {Root})]
      /\ \A x \in Sessions : next[x] \subseteq next'[x] /\ next'[x] \subseteq KeysAt(x) \cup {Root}
      /\ QueueHoldsAll => late \subseteq next'[s]
  BY <1>3, <1>6, Asked
<1>8. active[s] \subseteq sooner /\ sooner \subseteq active[s] \cup soon
  BY <1>4, EnqueuedWithin
<1>9. /\ active'[s] = sooner /\ active' \in [Sessions -> SUBSET (Keys \cup {Root})]
      /\ \A x \in Sessions : x # s => active'[x] = active[x]
  BY <1>4, <1>5, <1>6, <1>8
<1>10. QueueHoldsAll => soon \subseteq active'[s]
  BY <1>4, <1>5, <1>6, <1>9, EnqueuedAll
<1>11. \A x \in Sessions : /\ active[x] \subseteq active'[x]
                           /\ next'[x] \cup active'[x] \subseteq KeysAt(x) \cup {Root}
  BY <1>5, <1>6, <1>7, <1>8, <1>9
<1>12. Arrives(s, m)
  <2>1. QueueHoldsAll => /\ m.woken \subseteq next'[s]
                         /\ \/ composing # s /\ m.told \subseteq next'[s]
                            \/ m.told \subseteq active'[s]
    BY <1>6, <1>7, <1>10
  <2> QED
    BY <1>1, <1>2, <1>5, <1>7, <1>11, <2>1 DEF Arrives
<1>13. ASSUME NEW x \in Sessions, x # s
       PROVE  Arrives(x, Inbox(x))
  <2>1. records'[x] = records[x] /\ next[x] \subseteq next'[x] /\ active[x] \subseteq active'[x]
    BY <1>2, <1>5, <1>7, <1>11, <1>13
  <2>2. /\ nextEvent + 1 \in Nat /\ nextEvent' \in Nat /\ staged' = staged
        /\ \A t \in DOMAIN waiters : waiters'[t] = m.waiters[t]
    BY <1>2, <1>5
  <2> QED
    BY <1>1, <1>2, <1>5, <1>13, <2>1, <2>2, OtherMail
<1>14. \A x \in Sessions : \E n : Arrives(x, n)
  BY <1>12, <1>13
<1>15. records' = [x \in Sessions |-> records'[x]]
       /\ waiters' = [t \in DOMAIN waiters |-> waiters'[t]]
  BY <1>2, <1>5
<1> QED
  BY <1>2, <1>5, <1>7, <1>9, <1>11, <1>14, <1>15, Arrival DEF walk, pass

LEMMA SignalStep ==
  ASSUME EventsAssumption, Inv, NEW s \in Sessions, Signal(s)
  PROVE  Inv' /\ KeepsServing
<1> DEFINE m == Delivered(Inbox(s), s, nextEvent, "signal")
           root == IF m.records = records[s] THEN {} ELSE {Root}
           keys == m.woken \cup m.told \cup root
<1>1. /\ MailOK(s, m, nextEvent + 1) /\ Ordered(m.records)
      /\ \A i \in 1 .. Len(staged) : Before(m.records, staged[i])
      /\ \A n \in 1 .. Len(m.records) :
           n > Len(records[s]) => m.records[n].scope = "signal"
  BY SentMail DEF Signal
<1>2. /\ records' = [records EXCEPT ![s] = m.records]
      /\ waiters' = m.waiters
      /\ nextEvent' = nextEvent + 1 /\ nextEvent <= MaxEvents
      /\ UNCHANGED <<staged, cursor, listening, fiber, active, walk>>
  BY DEF Signal
<1>3. PICK later \in Enqueued(next[s], keys) : next' = [next EXCEPT ![s] = later]
  BY DEF Signal
<1>4. root \subseteq {Root}
  OBVIOUS
<1> HIDE DEF m, root
<1>5. /\ records \in [Sessions -> Seq(Record)] /\ nextEvent \in Nat /\ MaxEvents \in Nat
      /\ active \in [Sessions -> SUBSET (Keys \cup {Root})]
      /\ \A x \in Sessions : active[x] \subseteq KeysAt(x) \cup {Root}
      /\ m.woken \subseteq KeysAt(s) /\ m.told \subseteq KeysAt(s)
      /\ m.waiters \in [DOMAIN waiters -> Waiter]
  BY <1>1, SMTT(30) DEF Inv, Types, EventsAssumption, MailOK, Mail, KeysAt
<1>6. keys \subseteq KeysAt(s) \cup {Root} /\ m.woken \subseteq keys /\ m.told \subseteq keys
  BY <1>4, <1>5
<1> HIDE DEF keys
<1>7. /\ next' \in [Sessions -> SUBSET (Keys \cup {Root})]
      /\ \A x \in Sessions : next[x] \subseteq next'[x] /\ next'[x] \subseteq KeysAt(x) \cup {Root}
      /\ QueueHoldsAll => keys \subseteq next'[s]
  BY <1>3, <1>6, Asked
<1>8. /\ active' = active
      /\ \A x \in Sessions : next'[x] \cup active'[x] \subseteq KeysAt(x) \cup {Root}
  BY <1>2, <1>5, <1>7
<1>9. Arrives(s, m)
  <2>1. \/ composing # s
        \/ \A n \in 1 .. Len(m.records) : n > Len(records[s]) => m.records[n].midway
    <3>1. \A n \in 1 .. Len(m.records) : n > Len(records[s]) =>
            (m.records[n].midway <=> composing = s)
      BY <1>1 DEF MailOK, Fresh
    <3> QED
      BY <3>1
  <2>2. QueueHoldsAll => m.woken \subseteq next'[s] /\ m.told \subseteq next'[s]
    BY <1>6, <1>7
  <2> QED
    BY <1>1, <1>2, <1>5, <1>7, <1>8, <2>1, <2>2 DEF Arrives
<1>10. ASSUME NEW x \in Sessions, x # s
       PROVE  Arrives(x, Inbox(x))
  <2>1. records'[x] = records[x] /\ next[x] \subseteq next'[x] /\ active[x] \subseteq active'[x]
    BY <1>2, <1>5, <1>7, <1>10
  <2>2. /\ nextEvent + 1 \in Nat /\ nextEvent' \in Nat /\ staged' = staged
        /\ \A t \in DOMAIN waiters : waiters'[t] = m.waiters[t]
    BY <1>2, <1>5
  <2> QED
    BY <1>1, <1>2, <1>5, <1>10, <2>1, <2>2, OtherMail
<1>11. \A x \in Sessions : \E n : Arrives(x, n)
  BY <1>9, <1>10
<1>12. records' = [x \in Sessions |-> records'[x]]
       /\ waiters' = [t \in DOMAIN waiters |-> waiters'[t]]
  BY <1>2, <1>5
<1> QED
  BY <1>2, <1>5, <1>7, <1>8, <1>11, <1>12, Arrival DEF walk, pass

\* A frame drains what is staged into every session.
LEMMA StartFrameStep ==
  ASSUME EventsAssumption, Inv, StartFrame
  PROVE  Inv' /\ KeepsServing
<1> DEFINE asked == [s \in Sessions |-> Flooded(s).woken \cup Flooded(s).told]
<1>1. /\ records' = [s \in Sessions |-> Flooded(s).records]
      /\ waiters' = [t \in DOMAIN waiters |-> Flooded(HomeOf[t]).waiters[t]]
      /\ next' \in Scheduling(asked)
      /\ staged' = <<>> /\ frame' = Sessions /\ composing = None
      /\ UNCHANGED <<cursor, listening, fiber, active, mounted, composed, composing,
                     iterations, due, body, nextEvent>>
  BY DEF StartFrame, AfterDrain
<1>2. \A s \in Sessions :
        /\ MailOK(s, Flooded(s), nextEvent) /\ Ordered(Flooded(s).records)
        /\ Flooded(s).woken \subseteq KeysAt(s) /\ Flooded(s).told \subseteq KeysAt(s)
  BY FloodedFacts DEF MailOK
<1>3. /\ next \in [Sessions -> SUBSET (Keys \cup {Root})]
      /\ active \in [Sessions -> SUBSET (Keys \cup {Root})]
      /\ \A x \in Sessions : next[x] \cup active[x] \subseteq KeysAt(x) \cup {Root}
      /\ \A x \in Sessions : KeysAt(x) \subseteq Keys
      /\ nextEvent \in nextEvent .. MaxEvents + 1
  BY DEF Inv, Types, KeysAt, EventsAssumption
<1>4. \A x \in Sessions : asked[x] = Flooded(x).woken \cup Flooded(x).told
  OBVIOUS
<1> HIDE DEF asked
<1>5. /\ next' = [x \in Sessions |-> next'[x]]
      /\ \A x \in Sessions : next'[x] \in Enqueued(next[x], asked[x])
  BY <1>1 DEF Scheduling
<1>6. ASSUME NEW x \in Sessions
      PROVE  /\ next[x] \subseteq next'[x] /\ next'[x] \subseteq KeysAt(x) \cup {Root}
             /\ QueueHoldsAll => asked[x] \subseteq next'[x]
  <2>1. next'[x] \in Enqueued(next[x], asked[x]) /\ next[x] \cup asked[x] \subseteq KeysAt(x) \cup {Root}
    BY <1>2, <1>3, <1>4, <1>5
  <2>2. next[x] \subseteq next'[x] /\ next'[x] \subseteq next[x] \cup asked[x]
    BY <2>1, EnqueuedWithin
  <2>3. QueueHoldsAll => next'[x] = next[x] \cup asked[x]
    BY <2>1, EnqueuedAll
  <2> QED
    BY <2>1, <2>2, <2>3
<1>7. next' \in [Sessions -> SUBSET (Keys \cup {Root})]
  BY <1>3, <1>5, <1>6
<1>8. \A x \in Sessions : next'[x] \cup active'[x] \subseteq KeysAt(x) \cup {Root}
  BY <1>1, <1>3, <1>6
<1>9. ASSUME NEW x \in Sessions
      PROVE  Arrives(x, Flooded(x))
  <2>1. composing # x
    BY <1>1 DEF EventsAssumption
  <2>2. \A i \in 1 .. Len(staged') : FALSE
    BY <1>1
  <2>3. /\ records'[x] = Flooded(x).records
        /\ \A t \in DOMAIN waiters : HomeOf[t] = x => waiters'[t] = Flooded(x).waiters[t]
        /\ next[x] \subseteq next'[x] /\ active[x] \subseteq active'[x]
    BY <1>1, <1>6
  <2>4. QueueHoldsAll => Flooded(x).woken \subseteq next'[x] /\ Flooded(x).told \subseteq next'[x]
    BY <1>4, <1>6
  <2> QED
    BY <1>1, <1>2, <2>1, <2>2, <2>3, <2>4 DEF Arrives
<1>10. \A x \in Sessions : \E m : Arrives(x, m)
  BY <1>9
<1>11. records' = [x \in Sessions |-> records'[x]]
       /\ waiters' = [t \in DOMAIN waiters |-> waiters'[t]]
  BY <1>1
<1>12. nextEvent' \in nextEvent .. MaxEvents + 1 /\ active' = active
       /\ frame' \in {frame, Sessions} /\ staged' \in {staged, <<>>}
  BY <1>1, <1>3
<1> QED
  BY <1>1, <1>3, <1>7, <1>8, <1>10, <1>11, <1>12, Arrival

LEMMA BroadcastStep ==
  ASSUME EventsAssumption, Inv, Broadcast
  PROVE  Inv' /\ KeepsServing
<1>1. /\ nextEvent <= MaxEvents /\ Len(staged) < MaxQueue
      /\ staged' = Append(staged, nextEvent) /\ nextEvent' = nextEvent + 1
      /\ UNCHANGED <<inbox, fiber, next, active, walk>>
  BY DEF Broadcast
<1>2. /\ staged \in Seq(Ids) /\ Len(staged) \in Nat /\ nextEvent \in Ids /\ nextEvent \in Nat
      /\ MaxQueue \in Nat /\ MaxEvents \in Nat
      /\ \A i \in 1 .. Len(staged) : staged[i] \in Nat
  <2>1. staged \in Seq(Ids) /\ Ids \subseteq Nat
    BY DEF Inv, Types, Ids
  <2> QED
    BY <1>1, <2>1, ElementOfSeq, SMTT(30) DEF Inv, Types, Ids, EventsAssumption
<1>3. /\ staged' \in Seq(Ids) /\ Len(staged') = Len(staged) + 1
      /\ staged'[Len(staged) + 1] = nextEvent
      /\ \A i \in 1 .. Len(staged) : staged'[i] = staged[i]
  BY <1>1, <1>2, AppendProperties
<1>4. \A i \in 1 .. Len(staged') : i \in 1 .. Len(staged) \/ i = Len(staged) + 1
  BY <1>2, <1>3
<1>5. Types'
  <2>1. Len(staged') <= MaxQueue /\ nextEvent' \in 1 .. MaxEvents + 1
    BY <1>1, <1>2, <1>3
  <2> QED
    BY <1>1, <1>3, <2>1 DEF Inv, Types, inbox, walk, pass, KeysAt
<1>6. PassOK'
  BY <1>1 DEF Inv, PassOK, walk, pass, KeysAt
<1>7. \A s \in Sessions : \A n \in 1 .. Len(records[s]) : records[s][n].id \in Nat
  <2>1. \A s \in Sessions : records[s] \in Seq(Record)
    BY DEF Inv, Types
  <2>2. \A r \in Record : r.id \in Nat
    BY DEF Record, Ids
  <2> QED
    BY <2>1, <2>2, ElementOfSeq
<1>8. RecordsOK'
  <2> SUFFICES ASSUME NEW s \in Sessions, NEW n \in 1 .. Len(records[s])
               PROVE  RecordOK(s, records[s][n], nextEvent + 1)
    BY <1>1 DEF RecordsOK, RecordOK, Accepting, inbox
  <2>1. RecordOK(s, records[s][n], nextEvent)
    BY DEF Inv, RecordsOK
  <2> QED
    BY <1>2, <1>7, <2>1 DEF RecordOK
<1>9. OrderOK'
  <2>1. /\ \A i \in 1 .. Len(staged) : staged[i] < nextEvent
        /\ \A i, j \in 1 .. Len(staged) : i < j => staged[i] < staged[j]
        /\ \A s \in Sessions :
             /\ Ordered(records[s])
             /\ \A i \in 1 .. Len(staged) : Before(records[s], staged[i])
    BY DEF Inv, OrderOK
  <2>2. \A i \in 1 .. Len(staged') : staged'[i] < nextEvent'
    BY <1>1, <1>2, <1>3, <1>4, <2>1
  <2>3. ASSUME NEW i \in 1 .. Len(staged'), NEW j \in 1 .. Len(staged'), i < j
        PROVE  staged'[i] < staged'[j]
    <3>1. i \in 1 .. Len(staged) /\ staged'[i] = staged[i]
      BY <1>2, <1>3, <2>3
    <3>2. CASE j \in 1 .. Len(staged)
      BY <1>3, <2>1, <2>3, <3>1, <3>2
    <3>3. CASE j = Len(staged) + 1
      BY <1>3, <2>1, <3>1, <3>3
    <3> QED
      BY <1>4, <3>2, <3>3
  <2>4. ASSUME NEW s \in Sessions
        PROVE  Before(records[s], nextEvent)
    BY DEF Before, Inv, RecordsOK, RecordOK
  <2>5. \A s \in Sessions : \A i \in 1 .. Len(staged') : Before(records[s], staged'[i])
    BY <1>3, <1>4, <2>1, <2>4
  <2>6. records' = records
    BY <1>1 DEF inbox
  <2> QED
    BY <2>1, <2>2, <2>3, <2>5, <2>6 DEF OrderOK, Ordered, Before, IsBroadcast
<1>10. OneOutcome' /\ (Served => Served')
  BY <1>1, SMTT(30)
  DEF Inv, OneOutcome, Served, WakeupPending, Scheduled, HeardOK, Coming, inbox, walk, pass
<1> QED
  BY <1>5, <1>6, <1>8, <1>9, <1>10 DEF Inv, Served, KeepsServing

LEMMA SameRecords ==
  ASSUME Inv, UNCHANGED <<staged, records, nextEvent>>
  PROVE  RecordsOK' /\ OrderOK'
  BY DEF Inv, RecordsOK, RecordOK, Accepting, OrderOK, Ordered, Before, IsBroadcast

\* Between passes no body is due or runs.
LEMMA BetweenPasses ==
  ASSUME EventsAssumption, Inv, composing = None
  PROVE  due = {} /\ body = None
  BY DEF EventsAssumption, Inv, PassOK, KeysAt

\* What is invalidated in a session reaches bodies of that session.
LEMMA ReachedKeys ==
  ASSUME NEW s \in Sessions, NEW keys, keys \subseteq KeysAt(s) \cup {Root}
  PROVE  /\ Reached(s, keys) \subseteq KeysAt(s)
         /\ \A k \in KeysAt(s) : {k, Root} \cap keys # {} => k \in Reached(s, keys)
  BY DEF Reached

\* The keys a record was queued for, and the tasks with waiters, are of the
\* session they are in.
LEMMA AtHome ==
  ASSUME EventsAssumption, Inv
  PROVE  /\ \A s \in Sessions : \A n \in 1 .. Len(records[s]) :
              records[s][n].told \subseteq KeysAt(s) \cap Listeners
         /\ \A t \in DOMAIN waiters : /\ t \in Tasks /\ HomeOf[t] \in Sessions
                                      /\ t \in KeysAt(HomeOf[t])
         /\ Listeners \cap Tasks = {} /\ None \notin Keys /\ Root \notin Keys
<1>1. ASSUME NEW s \in Sessions, NEW n \in 1 .. Len(records[s])
      PROVE  records[s][n].told \subseteq KeysAt(s) \cap Listeners
  BY DEF Inv, RecordsOK, RecordOK, Accepting, KeysAt, Keys
<1>2. ASSUME NEW t \in DOMAIN waiters
      PROVE  t \in Tasks /\ HomeOf[t] \in Sessions /\ t \in KeysAt(HomeOf[t])
  BY DEF Inv, Types, EventsAssumption, KeysAt, Keys
<1>3. Listeners \cap Tasks = {} /\ None \notin Keys /\ Root \notin Keys
  BY DEF EventsAssumption, Keys
<1> QED
  BY <1>1, <1>2, <1>3

\* A frame passes over a session that has nothing to do, or begins its pass.
LEMMA SkipPassStep ==
  ASSUME EventsAssumption, Inv, NEW s \in Sessions, SkipPass(s)
  PROVE  Inv' /\ KeepsServing
<1>1. /\ composing = None /\ frame' = frame \ {s}
      /\ UNCHANGED <<staged, inbox, fiber, next, active, mounted, composed, composing,
                     iterations, due, body, nextEvent>>
  BY DEF SkipPass
<1>2. Types' /\ PassOK'
  <2>1. UNCHANGED <<records, cursor, listening, waiters>>
    BY <1>1 DEF inbox
  <2>2. Types'
    BY <1>1, <2>1 DEF Inv, Types, KeysAt
  <2> QED
    BY <1>1, <2>2 DEF Inv, PassOK, KeysAt
<1>3. RecordsOK' /\ OrderOK'
  BY <1>1, SameRecords DEF inbox
<1>4. OneOutcome' /\ (Served => Served')
  BY <1>1 DEF Inv, OneOutcome, Served, WakeupPending, Scheduled, HeardOK, Coming, inbox
<1> QED
  BY <1>2, <1>3, <1>4 DEF Inv, Served, KeepsServing

LEMMA BeginPassStep ==
  ASSUME EventsAssumption, Inv, NEW s \in Sessions, BeginPass(s)
  PROVE  Inv' /\ KeepsServing
<1>0. PICK keys \in Moved(s) :
        /\ due' = IF s \in mounted THEN Reached(s, keys \cup active[s]) ELSE KeysAt(s)
        /\ next' = [next EXCEPT ![s] = @ \ keys]
  BY DEF BeginPass
<1> DEFINE asked == keys \cup active[s]
<1>1. /\ composing = None /\ s \in frame /\ composing' = s /\ iterations' = 1
      /\ due' = IF s \in mounted THEN Reached(s, asked) ELSE KeysAt(s)
      /\ mounted' = mounted \cup {s}
      /\ next' = [next EXCEPT ![s] = @ \ keys] /\ active' = [active EXCEPT ![s] = {}]
      /\ UNCHANGED <<staged, inbox, fiber, composed, frame, body, nextEvent>>
  BY <1>0 DEF BeginPass
<1>2. due = {} /\ body = None
  BY <1>1, BetweenPasses
<1>3. /\ next \in [Sessions -> SUBSET (Keys \cup {Root})]
      /\ active \in [Sessions -> SUBSET (Keys \cup {Root})]
      /\ \A x \in Sessions : next[x] \cup active[x] \subseteq KeysAt(x) \cup {Root}
      /\ keys \subseteq next[s] /\ (QueueHoldsAll => keys = next[s])
  BY MovedAll DEF Inv, Types, Moved
<1>4. /\ due' \subseteq KeysAt(s)
      /\ \A k \in KeysAt(s) : {k, Root} \cap asked # {} => k \in due'
  BY <1>1, <1>3, ReachedKeys
<1>5. /\ next'[s] \subseteq next[s] /\ active'[s] = {}
      /\ \A x \in Sessions : x # s => next'[x] = next[x] /\ active'[x] = active[x]
      /\ next' \in [Sessions -> SUBSET (Keys \cup {Root})]
      /\ active' \in [Sessions -> SUBSET (Keys \cup {Root})]
  BY <1>1, <1>3
<1>6. Types'
  <2>1. \A x \in Sessions : next'[x] \cup active'[x] \subseteq KeysAt(x) \cup {Root}
    BY <1>3, <1>5
  <2>2. iterations' \in 0 .. MaxDrain
    BY <1>1 DEF EventsAssumption
  <2>3. /\ UNCHANGED <<staged, records, cursor, listening, waiters, fiber, composed, frame,
                       nextEvent>>
        /\ mounted' \subseteq Sessions /\ composed' \subseteq mounted'
        /\ composing' \in frame' \cup {None}
    BY <1>1 DEF Inv, Types, inbox
  <2> QED
    BY <1>5, <2>1, <2>2, <2>3 DEF Inv, Types, KeysAt
<1>7. PassOK'
  BY <1>1, <1>2, <1>4 DEF PassOK, KeysAt
<1>8. RecordsOK' /\ OrderOK'
  BY <1>1, SameRecords DEF inbox
<1>9. OneOutcome'
  BY <1>1 DEF Inv, OneOutcome, inbox
<1>10. QueueHoldsAll /\ Served => WakeupPending'
  <2> SUFFICES ASSUME QueueHoldsAll, Served,
                      NEW t \in DOMAIN waiters, Scheduled(t)
               PROVE  Scheduled(t)'
    BY <1>1 DEF Served, WakeupPending, inbox
  <2>1. t \in Keys /\ HomeOf[t] \in Sessions /\ t \in KeysAt(HomeOf[t]) /\ t # None
    BY AtHome DEF Keys
  <2>2. {t, Root} \cap (next[HomeOf[t]] \cup active[HomeOf[t]]) # {}
    BY <1>2, <2>1 DEF Scheduled
  <2>3. CASE HomeOf[t] = s
    BY <1>3, <1>4, <2>1, <2>2, <2>3 DEF Scheduled
  <2>4. CASE HomeOf[t] # s
    BY <1>5, <2>1, <2>2, <2>4 DEF Scheduled
  <2> QED
    BY <2>3, <2>4
<1>11. QueueHoldsAll /\ Served => HeardOK'
  <2> SUFFICES ASSUME QueueHoldsAll, Served,
                      NEW x \in Sessions, NEW n \in 1 .. Len(records[x]),
                      NEW k \in records[x][n].told, Coming(x, k, n)
               PROVE  Coming(x, k, n)'
    BY <1>1 DEF Served, HeardOK, inbox
  <2>1. k \in KeysAt(x) /\ k \in Keys /\ k # None
    BY AtHome DEF Keys
  <2>2. {k, Root} \cap (next[x] \cup active[x]) # {}
    BY <1>2, <2>1 DEF Coming
  <2>3. CASE x = s
    BY <1>3, <1>4, <2>1, <2>2, <2>3 DEF Coming
  <2>4. CASE x # s
    BY <1>1, <1>5, <2>2, <2>4 DEF Coming
  <2> QED
    BY <2>3, <2>4
<1> QED
  BY <1>6, <1>7, <1>8, <1>9, <1>10, <1>11 DEF Inv, Served, KeepsServing

LEMMA NextIterationStep ==
  ASSUME EventsAssumption, Inv, NextIteration
  PROVE  Inv' /\ KeepsServing
<1> DEFINE c == composing
<1>1. /\ c # None /\ body = None /\ due = {}
      /\ iterations < MaxDrain /\ iterations' = iterations + 1
      /\ due' = Reached(c, active[c]) /\ active' = [active EXCEPT ![c] = {}]
      /\ UNCHANGED <<staged, inbox, fiber, next, mounted, composed, frame,
                     composing, body, nextEvent>>
  BY DEF NextIteration, IterationDone
<1>2. /\ c \in Sessions
      /\ active \in [Sessions -> SUBSET (Keys \cup {Root})]
      /\ \A x \in Sessions : next[x] \cup active[x] \subseteq KeysAt(x) \cup {Root}
  BY <1>1 DEF Inv, Types
<1>3. /\ due' \subseteq KeysAt(c)
      /\ \A k \in KeysAt(c) : {k, Root} \cap active[c] # {} => k \in due'
  BY <1>1, <1>2, ReachedKeys
<1>4. /\ active'[c] = {} /\ active' \in [Sessions -> SUBSET (Keys \cup {Root})]
      /\ \A x \in Sessions : x # c => active'[x] = active[x]
  BY <1>1, <1>2
<1>5. Types'
  <2>1. \A x \in Sessions : next'[x] \cup active'[x] \subseteq KeysAt(x) \cup {Root}
    BY <1>1, <1>2, <1>4
  <2>2. iterations' \in 0 .. MaxDrain
    BY <1>1 DEF EventsAssumption, Inv, Types
  <2> QED
    BY <1>1, <1>4, <2>1, <2>2 DEF Inv, Types, KeysAt, inbox
<1>6. PassOK'
  BY <1>1, <1>3 DEF Inv, PassOK, KeysAt
<1>7. RecordsOK' /\ OrderOK'
  BY <1>1, SameRecords DEF inbox
<1>8. OneOutcome'
  BY <1>1 DEF Inv, OneOutcome, inbox
<1>9. QueueHoldsAll /\ Served => WakeupPending'
  <2> SUFFICES ASSUME QueueHoldsAll, Served,
                      NEW t \in DOMAIN waiters, Scheduled(t)
               PROVE  Scheduled(t)'
    BY <1>1 DEF Served, WakeupPending, inbox
  <2>1. t \in Keys /\ HomeOf[t] \in Sessions /\ t \in KeysAt(HomeOf[t]) /\ t # None
    BY AtHome DEF Keys
  <2>2. {t, Root} \cap (next[HomeOf[t]] \cup active[HomeOf[t]]) # {}
    BY <1>1, <2>1 DEF Scheduled
  <2>3. CASE HomeOf[t] = c
    BY <1>1, <1>3, <2>1, <2>2, <2>3 DEF Scheduled
  <2>4. CASE HomeOf[t] # c
    BY <1>1, <1>4, <2>1, <2>2, <2>4 DEF Scheduled
  <2> QED
    BY <2>3, <2>4
<1>10. QueueHoldsAll /\ Served => HeardOK'
  <2> SUFFICES ASSUME QueueHoldsAll, Served,
                      NEW x \in Sessions, NEW n \in 1 .. Len(records[x]),
                      NEW k \in records[x][n].told, Coming(x, k, n)
               PROVE  Coming(x, k, n)'
    BY <1>1 DEF Served, HeardOK, inbox
  <2>1. k \in KeysAt(x) /\ k \in Keys /\ k # None
    BY AtHome DEF Keys
  <2>2. CASE x = c
    BY <1>1, <1>3, <2>1, <2>2 DEF Coming
  <2>3. CASE x # c
    BY <1>1, <1>4, <2>1, <2>3 DEF Coming
  <2> QED
    BY <2>2, <2>3
<1> QED
  BY <1>5, <1>6, <1>7, <1>8, <1>9, <1>10 DEF Inv, Served, KeepsServing

LEMMA DidNotConvergeStep ==
  ASSUME EventsAssumption, Inv, DidNotConverge
  PROVE  Inv' /\ KeepsServing
<1>1. /\ composing # None /\ body = None /\ due = {}
      /\ frame' = frame \ {composing} /\ composing' = None
      /\ UNCHANGED <<staged, inbox, fiber, next, active, mounted, composed, iterations,
                     due, body, nextEvent>>
  BY DEF DidNotConverge, IterationDone
<1>2. Types' /\ PassOK'
  <2>1. UNCHANGED <<records, cursor, listening, waiters>>
    BY <1>1 DEF inbox
  <2>2. Types'
    BY <1>1, <2>1 DEF Inv, Types, KeysAt
  <2> QED
    BY <1>1, <2>2 DEF Inv, PassOK, KeysAt
<1>3. RecordsOK' /\ OrderOK'
  BY <1>1, SameRecords DEF inbox
<1>4. OneOutcome' /\ (Served => WakeupPending')
  BY <1>1 DEF Inv, OneOutcome, Served, WakeupPending, Scheduled, inbox
<1>5. QueueHoldsAll /\ Served => HeardOK'
  <2> SUFFICES ASSUME QueueHoldsAll, Served,
                      NEW x \in Sessions, NEW n \in 1 .. Len(records[x]),
                      NEW k \in records[x][n].told, Coming(x, k, n)
               PROVE  Coming(x, k, n)'
    BY <1>1 DEF Served, HeardOK, inbox
  <2>1. k # None /\ x # None
    BY AtHome DEF EventsAssumption, KeysAt
  <2> QED
    BY <1>1, <2>1 DEF Coming, inbox
<1> QED
  BY <1>2, <1>3, <1>4, <1>5 DEF Inv, Served, KeepsServing

\* A pass that converges comes to everyone an event was queued for.
LEMMA AllHeard ==
  ASSUME EventsAssumption, Inv, Served, IterationDone, active[composing] = {},
         NEW n \in 1 .. Len(records[composing]), NEW k \in records[composing][n].told
  PROVE  records[composing][n].midway \/ records[composing][n].handed[k] > 0
<1> DEFINE r == records[composing][n]
<1>1. composing \in Sessions /\ due = {} /\ body = None /\ k \in Keys /\ k # None
  <2>1. composing \in Sessions
    BY DEF Inv, Types, IterationDone
  <2> QED
    BY <2>1, AtHome DEF IterationDone, Keys
<1>2. ~Coming(composing, k, n)
  BY <1>1 DEF Coming
<1>3. r.midway \/ r.handed[k] # 0
  BY <1>1, <1>2 DEF Served, HeardOK
<1>4. r \in Record
  BY <1>1, ElementOfSeq DEF Inv, Types
<1>5. r.handed[k] \in Nat
  BY <1>1, <1>4 DEF Record
<1> QED
  BY <1>3, <1>5

\* A pass that converges retires what was read.
LEMMA FinishStep ==
  ASSUME EventsAssumption, Inv, Finish
  PROVE  Inv' /\ KeepsServing
<1> DEFINE c == composing
           old == records[c]
           rs == Kept(old)
<1>1. /\ IterationDone /\ c # None /\ body = None /\ due = {} /\ active[c] = {}
      /\ records' = [records EXCEPT ![c] = rs]
      /\ cursor' = [cursor EXCEPT ![c] = 1]
      /\ composed' = composed \cup {c} /\ frame' = frame \ {c} /\ composing' = None
      /\ UNCHANGED <<staged, listening, waiters, fiber, mounted, iterations, due,
                     body, nextEvent>>
  BY DEF Finish, IterationDone
<1>0. PICK keys \in Moved(c) : /\ active' = [active EXCEPT ![c] = keys]
                             /\ next' = [next EXCEPT ![c] = @ \ keys]
  BY DEF Finish
<1>2. /\ c \in Sessions /\ records \in [Sessions -> Seq(Record)]
      /\ active \in [Sessions -> SUBSET (Keys \cup {Root})]
      /\ next \in [Sessions -> SUBSET (Keys \cup {Root})]
      /\ \A x \in Sessions : next[x] \cup active[x] \subseteq KeysAt(x) \cup {Root}
      /\ old \in Seq(Record) /\ Len(old) \in Nat /\ Len(old) <= MaxQueue
      /\ MaxQueue \in Nat \ {0} /\ keys \subseteq next[c]
  BY <1>1 DEF Inv, Types, EventsAssumption, Moved
<1>3. Selects(rs, old, Len(old))
  BY <1>2, KeptFacts
<1> HIDE DEF rs
<1>4. rs \in Seq(Record) /\ Len(rs) \in Nat /\ Len(rs) <= MaxQueue
  BY <1>2, <1>3 DEF Selects
<1>5. /\ records'[c] = rs /\ records' \in [Sessions -> Seq(Record)]
      /\ active'[c] = keys /\ next'[c] = next[c] \ keys
      /\ \A x \in Sessions : x # c =>
           records'[x] = records[x] /\ next'[x] = next[x] /\ active'[x] = active[x]
      /\ next' \in [Sessions -> SUBSET (Keys \cup {Root})]
      /\ active' \in [Sessions -> SUBSET (Keys \cup {Root})]
  BY <1>0, <1>1, <1>2, <1>4
<1>6. Types'
  <2>1. \A x \in Sessions : /\ next'[x] \cup active'[x] \subseteq KeysAt(x) \cup {Root}
                            /\ Len(records'[x]) <= MaxQueue
    BY <1>2, <1>4, <1>5 DEF Inv, Types
  <2>2. cursor' \in [Sessions -> 1 .. MaxQueue]
    BY <1>1, <1>2 DEF Inv, Types
  <2>3. /\ mounted' \subseteq Sessions
        /\ frame' \subseteq Sessions /\ composing' \in frame' \cup {None}
    BY <1>1, <1>2 DEF Inv, Types
  <2>4. composed' \subseteq mounted'
    BY <1>1 DEF Inv, Types, PassOK
  <2>5. /\ staged' \in Seq(Ids) /\ Len(staged') <= MaxQueue
        /\ listening' \subseteq Listeners
        /\ \A s \in Sessions : /\ IsFiniteSet(listening' \cap KeysAt(s))
                               /\ Cardinality(listening' \cap KeysAt(s)) <= MaxListeners
        /\ DOMAIN waiters' \subseteq Tasks /\ waiters' \in [DOMAIN waiters' -> Waiter]
        /\ fiber' \in [Tasks -> {"ready", "waiting", "found"}]
        /\ iterations' \in 0 .. MaxDrain /\ nextEvent' \in 1 .. MaxEvents + 1
    BY <1>1 DEF Inv, Types
  <2> QED
    BY <1>5, <2>1, <2>2, <2>3, <2>4, <2>5 DEF Types, KeysAt
<1>7. PassOK'
  BY <1>1 DEF PassOK
<1>8. RecordsOK'
  <2> SUFFICES ASSUME NEW x \in Sessions, NEW n \in 1 .. Len(records'[x])
               PROVE  RecordOK(x, records'[x][n], nextEvent)
    BY <1>1 DEF RecordsOK, RecordOK, Accepting
  <2>1. CASE x = c
    <3>1. \E m \in 1 .. Len(old) : rs[n] = old[m]
      BY <1>3, <1>5, <2>1 DEF Selects
    <3> QED
      BY <1>2, <1>5, <2>1, <3>1 DEF Inv, RecordsOK
  <2>2. CASE x # c
    BY <1>5, <2>2 DEF Inv, RecordsOK
  <2> QED
    BY <2>1, <2>2
<1>9. OrderOK'
  <2>1. Ordered(old) /\ \A i \in 1 .. Len(staged) : Before(old, staged[i])
    BY <1>2 DEF Inv, OrderOK
  <2>2. Ordered(rs)
    <3> SUFFICES ASSUME NEW i \in 1 .. Len(rs), NEW j \in 1 .. Len(rs), i < j,
                        IsBroadcast(rs[i]), IsBroadcast(rs[j])
                 PROVE  rs[i].id < rs[j].id
      BY DEF Ordered
    <3>1. PICK l \in 1 .. Len(old), m \in 1 .. Len(old) :
            l < m /\ rs[i] = old[l] /\ rs[j] = old[m]
      BY <1>3 DEF Selects
    <3> QED
      BY <2>1, <3>1 DEF Ordered
  <2>3. ASSUME NEW i \in 1 .. Len(staged)
        PROVE  Before(rs, staged[i])
    BY <1>3, <2>1, ZenonT(30) DEF Selects, Before
  <2>4. \A x \in Sessions : /\ Ordered(records'[x])
                            /\ \A i \in 1 .. Len(staged) : Before(records'[x], staged[i])
    BY <1>5, <2>2, <2>3 DEF Inv, OrderOK
  <2>5. /\ \A i \in 1 .. Len(staged) : staged[i] < nextEvent
        /\ \A i, j \in 1 .. Len(staged) : i < j => staged[i] < staged[j]
        /\ staged' = staged /\ nextEvent' = nextEvent
    BY <1>1 DEF Inv, OrderOK
  <2> QED
    BY <2>4, <2>5 DEF OrderOK, Ordered, Before, IsBroadcast
<1>10. OneOutcome'
  BY <1>1 DEF Inv, OneOutcome
<1>11. QueueHoldsAll /\ Served => WakeupPending'
  <2> SUFFICES ASSUME QueueHoldsAll, Served,
                      NEW t \in DOMAIN waiters, Scheduled(t)
               PROVE  Scheduled(t)'
    BY <1>1 DEF Served, WakeupPending
  <2>1. HomeOf[t] \in Sessions
    BY AtHome
  <2>2. next[HomeOf[t]] \cup active[HomeOf[t]] \subseteq next'[HomeOf[t]] \cup active'[HomeOf[t]]
    BY <1>1, <1>5, <2>1
  <2> QED
    BY <1>1, <2>2 DEF Scheduled
<1>12. QueueHoldsAll /\ Served => HeardOK'
  <2> SUFFICES ASSUME QueueHoldsAll, Served,
                      NEW x \in Sessions, NEW n \in 1 .. Len(records'[x]),
                      NEW k \in records'[x][n].told, records'[x][n].handed[k] = 0,
                      ~records'[x][n].midway
               PROVE  Coming(x, k, n)'
    BY DEF HeardOK
  <2>1. CASE x = c
    <3>1. PICK m \in 1 .. Len(old) : rs[n] = old[m]
      BY <1>3, <1>5, <2>1 DEF Selects
    <3>2. old[m].midway \/ old[m].handed[k] > 0
      BY <1>1, <1>5, <2>1, <3>1, AllHeard
    <3> QED
      BY <1>5, <2>1, <3>1, <3>2
  <2>2. CASE x # c
    <3>1. records'[x] = records[x]
      BY <1>5, <2>2
    <3>2. Coming(x, k, n)
      BY <3>1 DEF Served, HeardOK
    <3>3. k # None /\ x # None
      BY <3>1, AtHome DEF EventsAssumption, KeysAt
    <3> QED
      BY <1>1, <1>5, <2>2, <3>2, <3>3 DEF Coming
  <2> QED
    BY <2>1, <2>2
<1> QED
  BY <1>6, <1>7, <1>8, <1>9, <1>10, <1>11, <1>12 DEF Inv, Served, KeepsServing

\* A record is replaced by one of the same event.
LEMMA MarkedRecord ==
  ASSUME EventsAssumption, Inv, NEW c \in Sessions, NEW m \in 1 .. Len(records[c]),
         NEW r \in Record, r.id = records[c][m].id, r.scope = records[c][m].scope,
         RecordOK(c, r, nextEvent), records' = [records EXCEPT ![c][m] = r],
         UNCHANGED <<staged, nextEvent>>
  PROVE  /\ records' \in [Sessions -> Seq(Record)]
         /\ \A s \in Sessions : Len(records'[s]) = Len(records[s])
         /\ \A s \in Sessions : \A n \in 1 .. Len(records[s]) :
              IF s = c /\ n = m THEN records'[s][n] = r ELSE records'[s][n] = records[s][n]
         /\ RecordsOK' /\ OrderOK'
<1>1. records \in [Sessions -> Seq(Record)] /\ records[c] \in Seq(Record)
  BY DEF Inv, Types
<1>2. [records[c] EXCEPT ![m] = r] \in Seq(Record)
      /\ Len([records[c] EXCEPT ![m] = r]) = Len(records[c])
      /\ \A n \in 1 .. Len(records[c]) :
           [records[c] EXCEPT ![m] = r][n] = IF n = m THEN r ELSE records[c][n]
  BY <1>1, ExceptSeq
<1>3. /\ records'[c] = [records[c] EXCEPT ![m] = r]
      /\ \A s \in Sessions : s # c => records'[s] = records[s]
      /\ records' = [s \in Sessions |-> records'[s]]
  BY <1>1
<1>4. /\ records' \in [Sessions -> Seq(Record)]
      /\ \A s \in Sessions : Len(records'[s]) = Len(records[s])
  BY <1>1, <1>2, <1>3
<1>5. \A s \in Sessions : \A n \in 1 .. Len(records[s]) :
        IF s = c /\ n = m THEN records'[s][n] = r ELSE records'[s][n] = records[s][n]
  BY <1>2, <1>3
<1>6. RecordsOK'
  <2> SUFFICES ASSUME NEW s \in Sessions, NEW n \in 1 .. Len(records[s])
               PROVE  RecordOK(s, records'[s][n], nextEvent)
    BY <1>4, SMTT(30) DEF RecordsOK, RecordOK, Accepting
  <2>1. RecordOK(s, records[s][n], nextEvent)
    BY DEF Inv, RecordsOK
  <2>2. CASE s = c /\ n = m
    BY <1>5, <2>2
  <2>3. CASE ~(s = c /\ n = m)
    <3>1. records'[s][n] = records[s][n]
      BY <1>5, <2>3
    <3> QED
      BY <2>1, <3>1
  <2> QED
    BY <2>2, <2>3
<1>7. \A s \in Sessions : \A n \in 1 .. Len(records[s]) :
        records'[s][n].id = records[s][n].id /\ records'[s][n].scope = records[s][n].scope
  BY <1>5
<1>8. OrderOK'
  <2> HIDE DEF Inv
  <2>1. \A s \in Sessions : /\ Ordered(records[s])
                            /\ \A i \in 1 .. Len(staged) : Before(records[s], staged[i])
    BY DEF Inv, OrderOK
  <2>2. \A s \in Sessions :
          /\ Ordered(records'[s])
          /\ \A i \in 1 .. Len(staged) : Before(records'[s], staged[i])
    <3> SUFFICES ASSUME NEW s \in Sessions
                 PROVE  /\ Ordered(records'[s])
                        /\ \A i \in 1 .. Len(staged) : Before(records'[s], staged[i])
      OBVIOUS
    <3>1. Len(records'[s]) = Len(records[s])
      BY <1>4
    <3>2. \A n \in 1 .. Len(records[s]) :
            /\ records'[s][n].id = records[s][n].id
            /\ IsBroadcast(records'[s][n]) <=> IsBroadcast(records[s][n])
      BY <1>7 DEF IsBroadcast
    <3>3. Ordered(records'[s])
      BY <2>1, <3>1, <3>2, SMTT(30) DEF Ordered
    <3>4. \A i \in 1 .. Len(staged) : Before(records'[s], staged[i])
      BY <2>1, <3>1, <3>2 DEF Before
    <3> QED
      BY <3>3, <3>4
  <2>3. /\ \A i \in 1 .. Len(staged) : staged[i] < nextEvent
        /\ \A i, j \in 1 .. Len(staged) : i < j => staged[i] < staged[j]
    BY DEF Inv, OrderOK
  <2> QED
    BY <2>2, <2>3 DEF OrderOK, Ordered, Before, IsBroadcast
<1> QED
  BY <1>4, <1>5, <1>6, <1>8

\* A listener that gets an event for the first time is put among its
\* consumers, if they have room.
LEMMA ConsumedRecord ==
  ASSUME EventsAssumption, NEW s, NEW r \in Record, NEW limit, RecordOK(s, r, limit),
         NEW k \in Listeners, k \notin r.seen
  PROVE  LET q == Consumed(r, k)
         IN  /\ q \in Record /\ RecordOK(s, q, limit)
             /\ q.id = r.id /\ q.scope = r.scope /\ q.told = r.told /\ q.midway = r.midway
             /\ q.handed[k] > 0 /\ \A j \in Keys : j # k => q.handed[j] = r.handed[j]
<1> DEFINE q == Consumed(r, k)
           seen == IF Cardinality(r.seen) < MaxConsumers THEN r.seen \cup {k} ELSE r.seen
           handed == [r.handed EXCEPT ![k] = @ + 1]
<1>1. /\ r.seen \subseteq Listeners /\ r.handed \in [Keys -> Nat] /\ k \in Keys
      /\ Listeners \subseteq Keys /\ MaxConsumers \in Nat
  BY DEF Record, Keys, EventsAssumption
<1>2. q = [r EXCEPT !.read = TRUE, !.handed = handed, !.seen = seen]
  BY DEF Consumed, Record
<1>3. seen \subseteq Listeners /\ handed \in [Keys -> Nat]
      /\ handed[k] = r.handed[k] + 1 /\ \A j \in Keys : j # k => handed[j] = r.handed[j]
  BY <1>1
<1>4. IsFiniteSet(r.seen) /\ Cardinality(r.seen) <= MaxConsumers /\ Cardinality(r.seen) \in Nat
  BY FS_CardinalityType DEF RecordOK
<1>5. IsFiniteSet(seen) /\ Cardinality(seen) <= MaxConsumers
  <2>1. CASE Cardinality(r.seen) < MaxConsumers
    <3>1. IsFiniteSet(r.seen \cup {k}) /\ Cardinality(r.seen \cup {k}) = Cardinality(r.seen) + 1
      BY <1>4, FS_AddElement
    <3> QED
      BY <1>1, <1>4, <2>1, <3>1
  <2>2. CASE ~(Cardinality(r.seen) < MaxConsumers)
    BY <1>4, <2>2
  <2> QED
    BY <2>1, <2>2
<1>6. /\ k \in seen <=> Cardinality(r.seen) < MaxConsumers
      /\ k \notin seen => seen = r.seen
      /\ \A j \in Listeners : j # k => (j \in seen <=> j \in r.seen)
  OBVIOUS
<1>7. /\ r.handed[k] > 0 => Cardinality(r.seen) = MaxConsumers
      /\ r.handed[k] \in Nat
      /\ \A j \in Listeners : /\ j \in r.seen => r.handed[j] = 1
                              /\ j \notin r.seen /\ r.handed[j] > 0 =>
                                   Cardinality(r.seen) = MaxConsumers
      /\ r.told \subseteq Accepting(Listeners, s, r.scope) /\ r.id < limit
  BY <1>1 DEF RecordOK
<1> DEFINE full == Cardinality(r.seen) = MaxConsumers
<1>8. full \/ Cardinality(r.seen) < MaxConsumers
  BY <1>1, <1>4
<1>9. full => seen = r.seen
  BY <1>1, <1>4
<1> HIDE DEF q, seen, handed
<1>10. ASSUME NEW j \in Listeners
       PROVE  /\ j \in seen => handed[j] = 1
              /\ j \notin seen /\ handed[j] > 0 => Cardinality(seen) = MaxConsumers
  <2>1. CASE j = k
    BY <1>1, <1>3, <1>4, <1>6, <1>7, <1>8, <1>9, <2>1
  <2>2. CASE j # k
    <3>1. handed[j] = r.handed[j] /\ (j \in seen <=> j \in r.seen)
      BY <1>1, <1>3, <1>6, <2>2
    <3> QED
      BY <1>7, <1>9, <3>1
  <2> QED
    BY <2>1, <2>2
<1>11. /\ q \in Record
       /\ q.id = r.id /\ q.scope = r.scope /\ q.seen = seen
       /\ q.told = r.told /\ q.handed = handed /\ q.midway = r.midway
  BY <1>2, <1>3 DEF Record
<1>12. RecordOK(s, q, limit)
  BY <1>5, <1>7, <1>10, <1>11 DEF RecordOK
<1>13. q.handed[k] > 0 /\ \A j \in Keys : j # k => q.handed[j] = r.handed[j]
  BY <1>3, <1>7, <1>11
<1> QED
  BY <1>11, <1>12, <1>13 DEF q

\* What k is not handed next it has been handed already.
LEMMA PassedOver ==
  ASSUME EventsAssumption, Inv, composing \in Sessions, NEW k, NEW n,
         NEW m \in n .. Len(records[composing]), m \in 1 .. Len(records[composing]),
         m \notin Unread(k, n), k \in records[composing][m].told
  PROVE  records[composing][m].handed[k] # 0
<1>1. RecordOK(composing, records[composing][m], nextEvent)
  BY DEF Inv, RecordsOK
<1>2. k \in Listeners /\ records[composing][m].scope \in ScopesOf[k]
  BY <1>1 DEF RecordOK, Accepting
<1>3. k \in records[composing][m].seen
  BY <1>2 DEF Unread
<1> QED
  BY <1>1, <1>2, <1>3 DEF RecordOK

\* CelsEventPoll and CelsEventNext: k is handed the next event for it from
\* position n on, all before n being behind it, or its body ends.
LEMMA HandStep ==
  ASSUME EventsAssumption, Inv, composing \in Sessions,
         NEW k \in Listeners, k \in KeysAt(composing), NEW n \in Nat, n > 0,
         \/ body = None /\ n = 1 /\ due' = due \ {k}
         \/ body = k /\ n = cursor[composing] + 1 /\ due' = due,
         Hand(k, n),
         listening' \subseteq Listeners,
         \A s \in Sessions : /\ IsFiniteSet(listening' \cap KeysAt(s))
                             /\ Cardinality(listening' \cap KeysAt(s)) <= MaxListeners,
         UNCHANGED <<staged, waiters, fiber, next, active, pass, nextEvent>>
  PROVE  Inv' /\ KeepsServing
<1> DEFINE c == composing
           m == Least(Unread(k, n))
           r == records[c][m]
           q == Consumed(r, k)
<1>1. k \in Keys /\ k # None /\ k \notin Tasks
  BY AtHome DEF Keys
<1>2. /\ records \in [Sessions -> Seq(Record)] /\ records[c] \in Seq(Record)
      /\ Len(records[c]) \in Nat /\ Len(records[c]) <= MaxQueue
      /\ cursor \in [Sessions -> 1 .. MaxQueue] /\ MaxQueue \in Nat
      /\ due \subseteq KeysAt(c)
  BY DEF Inv, Types, EventsAssumption, PassOK
<1>3. UNCHANGED <<staged, waiters, fiber, next, active, mounted, composed, frame, composing,
                  iterations, nextEvent>>
  BY DEF pass
<1>4. ASSUME Unread(k, n) # {}
      PROVE  /\ m \in Unread(k, n) /\ m \in n .. Len(records[c]) /\ m \in 1 .. Len(records[c])
             /\ k \notin r.seen /\ \A i \in Unread(k, n) : m <= i
             /\ r \in Record /\ RecordOK(c, r, nextEvent)
  <2>1. Unread(k, n) \in SUBSET Nat
    BY <1>2 DEF Unread
  <2>2. m \in Unread(k, n) /\ \A i \in Unread(k, n) : m <= i
    BY <1>4, <2>1, LeastOf
  <2>3. m \in n .. Len(records[c]) /\ m \in 1 .. Len(records[c]) /\ k \notin r.seen
    <3>1. /\ m \in n .. Len(records[c])
          /\ m \notin {i \in n .. Len(records[c]) : k \in records[c][i].seen}
      BY <2>2, Zenon DEF Unread
    <3>2. n .. Len(records[c]) \subseteq 1 .. Len(records[c])
      BY <1>2
    <3> HIDE DEF m
    <3> QED
      BY <3>1, <3>2, Zenon DEF r
  <2> QED
    BY <1>2, <2>2, <2>3, ElementOfSeq DEF Inv, RecordsOK
<1>5. /\ records' \in [Sessions -> Seq(Record)]
      /\ \A s \in Sessions : Len(records'[s]) = Len(records[s])
      /\ cursor' \in [Sessions -> 1 .. MaxQueue]
      /\ RecordsOK' /\ OrderOK'
      /\ body' \in {None, k}
      /\ \A s \in Sessions : \A i \in 1 .. Len(records[s]) :
           /\ records'[s][i].told = records[s][i].told
           /\ records'[s][i].midway = records[s][i].midway
           /\ \A j \in Keys : records'[s][i].handed[j] = 0 => records[s][i].handed[j] = 0
      /\ \A i \in n .. Len(records[c]) : k \in records'[c][i].told =>
           records'[c][i].handed[k] # 0 \/ (body' = k /\ i > cursor'[c])
  <2>1. CASE Unread(k, n) = {}
    <3>1. body' = None /\ UNCHANGED <<records, cursor>>
      BY <2>1 DEF Hand
    <3>2. RecordsOK' /\ OrderOK'
      BY <1>3, <3>1, SameRecords
    <3>3. ASSUME NEW i \in n .. Len(records[c]), k \in records[c][i].told
          PROVE  records[c][i].handed[k] # 0
      <4>1. i \in 1 .. Len(records[c])
        BY <1>2
      <4> QED
        BY <2>1, <3>3, <4>1, PassedOver
    <3> QED
      BY <1>2, <1>3, <3>1, <3>2, <3>3
  <2>2. CASE Unread(k, n) # {}
    <3>1. /\ records' = [records EXCEPT ![c][m] = q]
          /\ cursor' = [cursor EXCEPT ![c] = m] /\ body' = k
      BY <2>2 DEF Hand
    <3>2. /\ q \in Record /\ RecordOK(c, q, nextEvent)
          /\ q.id = r.id /\ q.scope = r.scope /\ q.told = r.told /\ q.midway = r.midway
          /\ q.handed[k] > 0 /\ \A j \in Keys : j # k => q.handed[j] = r.handed[j]
      <4> HIDE DEF r
      <4> QED
        BY <1>4, <2>2, ConsumedRecord
    <3>3. m \in 1 .. Len(records[c]) /\ m \in n .. Len(records[c]) /\ r \in Record
      BY <1>4, <2>2
    <3> HIDE DEF q, m
    <3>4. /\ records' \in [Sessions -> Seq(Record)]
          /\ \A s \in Sessions : Len(records'[s]) = Len(records[s])
          /\ \A s \in Sessions : \A i \in 1 .. Len(records[s]) :
               IF s = c /\ i = m THEN records'[s][i] = q ELSE records'[s][i] = records[s][i]
          /\ RecordsOK' /\ OrderOK'
      BY <1>3, <3>1, <3>2, <3>3, MarkedRecord
    <3>5. cursor' \in [Sessions -> 1 .. MaxQueue] /\ cursor'[c] = m
      BY <1>2, <3>1, <3>3
    <3>6. ASSUME NEW s \in Sessions, NEW i \in 1 .. Len(records[s])
          PROVE  /\ records'[s][i].told = records[s][i].told
                 /\ records'[s][i].midway = records[s][i].midway
                 /\ \A j \in Keys : records'[s][i].handed[j] = 0 => records[s][i].handed[j] = 0
      <4>1. CASE s = c /\ i = m
        <5>1. records'[s][i] = q /\ records[s][i] = r
          BY <3>4, <4>1
        <5>2. \A j \in Keys : q.handed[j] = 0 => r.handed[j] = 0
          BY <3>2
        <5> QED
          BY <3>2, <5>1, <5>2
      <4>2. CASE ~(s = c /\ i = m)
        <5>1. records'[s][i] = records[s][i]
          BY <3>4, <4>2
        <5> QED
          BY <5>1
      <4> QED
        BY <4>1, <4>2
    <3>7. ASSUME NEW i \in n .. Len(records[c]), k \in records'[c][i].told
          PROVE  records'[c][i].handed[k] # 0 \/ (body' = k /\ i > cursor'[c])
      <4>1. i \in 1 .. Len(records[c]) /\ i \in Nat /\ m \in Nat
        BY <1>2, <3>3
      <4>2. CASE i = m
        BY <3>2, <3>4, <4>1, <4>2
      <4>3. CASE i > m
        BY <3>1, <3>5, <4>3
      <4>4. CASE i < m
        <5>1. i \notin Unread(k, n)
          BY <1>4, <2>2, <4>1, <4>4 DEF m
        <5>2. records'[c][i] = records[c][i]
          BY <3>4, <4>1, <4>4
        <5> QED
          BY <3>7, <4>1, <5>1, <5>2, PassedOver
      <4> QED
        BY <4>1, <4>2, <4>3, <4>4
    <3> QED
      BY <3>1, <3>4, <3>5, <3>6, <3>7
  <2> QED
    BY <2>1, <2>2
<1> HIDE DEF m, r, q
<1>6. Types'
  <2>1. \A s \in Sessions : Len(records'[s]) <= MaxQueue
    BY <1>5 DEF Inv, Types
  <2>2. /\ records' \in [Sessions -> Seq(Record)] /\ cursor' \in [Sessions -> 1 .. MaxQueue]
    BY <1>5
  <2> QED
    BY <1>3, <2>1, <2>2 DEF Inv, Types, KeysAt
<1>7. PassOK'
  BY <1>2, <1>3, <1>5 DEF Inv, PassOK, KeysAt
<1>8. OneOutcome'
  BY <1>3 DEF Inv, OneOutcome
<1>9. QueueHoldsAll /\ Served => WakeupPending'
  <2> SUFFICES ASSUME QueueHoldsAll, Served,
                      NEW t \in DOMAIN waiters, Scheduled(t)
               PROVE  Scheduled(t)'
    BY <1>3 DEF Served, WakeupPending
  <2>1. t # k /\ t # None
    BY <1>1, AtHome DEF Keys
  <2> QED
    BY <1>1, <1>3, <2>1 DEF Scheduled
<1>10. QueueHoldsAll /\ Served => HeardOK'
  <2> SUFFICES ASSUME QueueHoldsAll, Served,
                      NEW s \in Sessions, NEW i \in 1 .. Len(records[s]),
                      NEW j \in records[s][i].told,
                      records'[s][i].handed[j] = 0, ~records[s][i].midway
               PROVE  Coming(s, j, i)'
    BY <1>5, ZenonT(30) DEF HeardOK
  <2>1. j \in KeysAt(s) /\ j \in Keys /\ j # None
    BY AtHome DEF Keys
  <2>2. Coming(s, j, i)
    BY <1>5, <2>1 DEF Served, HeardOK
  <2>3. CASE j # k
    BY <1>3, <2>1, <2>2, <2>3 DEF Coming
  <2>4. CASE j = k
    <3>1. s = c
      BY <2>1, <2>4 DEF KeysAt
    <3>2. CASE i \in n .. Len(records[c])
      BY <1>5, <2>4, <3>1, <3>2, ZenonT(30) DEF Coming
    <3>3. CASE i < n
      <4>1. body = k /\ i <= cursor[c] /\ due' = due /\ cursor[c] \in Nat
        BY <1>2, <3>3
      <4> QED
        BY <1>3, <2>2, <2>4, <3>1, <4>1 DEF Coming
    <3> QED
      BY <1>2, <3>1, <3>2, <3>3
  <2> QED
    BY <2>3, <2>4
<1> QED
  BY <1>5, <1>6, <1>7, <1>8, <1>9, <1>10 DEF Inv, Served, KeepsServing

\* The listen loop.
LEMMA PollStep ==
  ASSUME EventsAssumption, Inv, NEW k \in Listeners, Poll(k)
  PROVE  Inv' /\ KeepsServing
<1>1. /\ composing # None /\ body = None /\ k \in due /\ due' = due \ {k}
      /\ listening' = Registered(k) /\ Hand(k, 1)
      /\ UNCHANGED <<staged, waiters, fiber, next, active, pass, nextEvent>>
  BY DEF Poll
<1>2. composing \in Sessions /\ k \in KeysAt(composing)
  BY <1>1 DEF Inv, Types, PassOK
<1>3. listening \subseteq Listeners /\ MaxListeners \in Nat
  BY DEF Inv, Types, EventsAssumption
<1>4. listening' \subseteq Listeners
  BY <1>1, <1>3 DEF Registered
<1>5. ASSUME NEW s \in Sessions
      PROVE  /\ IsFiniteSet(listening' \cap KeysAt(s))
             /\ Cardinality(listening' \cap KeysAt(s)) <= MaxListeners
  <2> DEFINE old == listening \cap KeysAt(s)
  <2>1. IsFiniteSet(old) /\ Cardinality(old) <= MaxListeners /\ Cardinality(old) \in Nat
    BY FS_CardinalityType DEF Inv, Types
  <2>2. CASE listening' \cap KeysAt(s) = old
    BY <2>1, <2>2
  <2>3. CASE listening' \cap KeysAt(s) # old
    <3>1. HomeOf[k] = s /\ Cardinality(old) < MaxListeners /\ listening' = listening \cup {k}
      BY <1>1, <2>3 DEF Registered, KeysAt
    <3>2. listening' \cap KeysAt(s) = old \cup {k}
      BY <1>2, <3>1 DEF KeysAt
    <3>3. IsFiniteSet(old \cup {k}) /\ Cardinality(old \cup {k}) <= Cardinality(old) + 1
      BY <2>1, OneMore
    <3>4. Cardinality(old \cup {k}) \in Nat
      BY <3>3, FS_CardinalityType
    <3> QED
      BY <1>3, <2>1, <3>1, <3>2, <3>3, <3>4
  <2> QED
    BY <2>2, <2>3
<1>6. 1 \in Nat /\ 1 > 0
  OBVIOUS
<1> QED
  BY <1>1, <1>2, <1>4, <1>5, <1>6, HandStep, ZenonT(60)

LEMMA NextEventStep ==
  ASSUME EventsAssumption, Inv, NextEvent
  PROVE  Inv' /\ KeepsServing
<1>1. /\ body \in Listeners /\ Hand(body, cursor[composing] + 1)
      /\ UNCHANGED <<staged, listening, waiters, fiber, next, active, pass, due, nextEvent>>
  BY DEF NextEvent
<1>2. body \in KeysAt(composing) /\ composing \in Sessions
  <2>1. body \in Keys /\ body # None
    BY <1>1, AtHome DEF Keys
  <2>2. body \in KeysAt(composing)
    BY <2>1 DEF Inv, PassOK
  <2>3. HomeOf[body] \in Sessions /\ HomeOf[body] = composing
    BY <2>1, <2>2 DEF KeysAt, EventsAssumption
  <2> QED
    BY <2>2, <2>3
<1>3. cursor[composing] + 1 \in Nat /\ cursor[composing] + 1 > 0
  BY <1>2 DEF Inv, Types
<1>4. /\ listening' \subseteq Listeners
      /\ \A s \in Sessions : /\ IsFiniteSet(listening' \cap KeysAt(s))
                             /\ Cardinality(listening' \cap KeysAt(s)) <= MaxListeners
  BY <1>1 DEF Inv, Types
<1> QED
  BY <1>1, <1>2, <1>3, <1>4, HandStep

\* A task whose body is due or runs is one of the session in its pass.
LEMMA AmbientTask ==
  ASSUME EventsAssumption, Inv, NEW t \in Tasks, t \in due \/ body = t
  PROVE  /\ t \in KeysAt(composing) /\ composing \in Sessions /\ HomeOf[t] = composing
         /\ t \in Keys /\ t # None /\ t \notin Listeners
<1>1. t \in Keys /\ t # None /\ t \notin Listeners
  BY AtHome DEF Keys
<1>2. t \in KeysAt(composing)
  BY <1>1 DEF Inv, PassOK
<1>3. HomeOf[t] \in Sessions /\ HomeOf[t] = composing
  BY <1>1, <1>2 DEF KeysAt, EventsAssumption
<1> QED
  BY <1>1, <1>2, <1>3

\* The step of a task that waits, and the ways its wait begins and ends.
LEMMA KeepWaitingStep ==
  ASSUME EventsAssumption, Inv, NEW t \in Tasks, KeepWaiting(t)
  PROVE  Inv' /\ KeepsServing
<1>1. /\ t \in due /\ due' = due \ {t}
      /\ UNCHANGED <<staged, inbox, fiber, active, pass, body, nextEvent>>
  BY DEF KeepWaiting
<1>2. /\ t \in KeysAt(composing) /\ composing \in Sessions /\ HomeOf[t] = composing
      /\ t \in Keys /\ t # None /\ t \notin Listeners
  BY <1>1, AmbientTask
<1>3. /\ next' \in [Sessions -> SUBSET (Keys \cup {Root})]
      /\ \A s \in Sessions : next[s] \subseteq next'[s] /\ next'[s] \subseteq KeysAt(s) \cup {Root}
      /\ QueueHoldsAll => t \in next'[composing]
  <2>1. PICK later \in Enqueued(next[composing], {t}) : next' = [next EXCEPT ![composing] = later]
    BY DEF KeepWaiting
  <2>2. {t} \subseteq KeysAt(composing) \cup {Root}
    BY <1>2
  <2>3. QueueHoldsAll => {t} \subseteq next'[composing]
    BY <1>2, <2>1, <2>2, Asked
  <2> QED
    BY <1>2, <2>1, <2>2, <2>3, Asked
<1>4. Types'
  <2>1. \A s \in Sessions : next'[s] \cup active'[s] \subseteq KeysAt(s) \cup {Root}
    BY <1>1, <1>2, <1>3 DEF Inv, Types
  <2> QED
    BY <1>1, <1>3, <2>1 DEF Inv, Types, KeysAt, inbox, pass
<1>5. PassOK'
  BY <1>1 DEF Inv, PassOK, KeysAt, pass
<1>6. RecordsOK' /\ OrderOK'
  BY <1>1, SameRecords DEF inbox
<1>7. OneOutcome'
  BY <1>1 DEF Inv, OneOutcome, inbox
<1>8. QueueHoldsAll /\ Served => WakeupPending'
  <2> SUFFICES ASSUME QueueHoldsAll, Served,
                      NEW u \in DOMAIN waiters, Scheduled(u)
               PROVE  Scheduled(u)'
    BY <1>1 DEF Served, WakeupPending, inbox
  <2>1. HomeOf[u] \in Sessions
    BY AtHome
  <2> QED
    BY <1>1, <1>2, <1>3, <2>1 DEF Scheduled
<1>9. QueueHoldsAll /\ Served => HeardOK'
  <2> SUFFICES ASSUME QueueHoldsAll, Served,
                      NEW s \in Sessions, NEW n \in 1 .. Len(records[s]),
                      NEW k \in records[s][n].told, Coming(s, k, n)
               PROVE  Coming(s, k, n)'
    BY <1>1 DEF Served, HeardOK, inbox
  <2>1. k # t
    BY <1>2, AtHome
  <2> QED
    BY <1>1, <1>3, <2>1 DEF Coming, inbox, pass
<1> QED
  BY <1>4, <1>5, <1>6, <1>7, <1>8, <1>9 DEF Inv, Served, KeepsServing

LEMMA ResumeStep ==
  ASSUME EventsAssumption, Inv, NEW t \in Tasks, Resume(t)
  PROVE  Inv' /\ KeepsServing
<1>1. /\ t \in due /\ due' = due \ {t} /\ body = None /\ body' = t
      /\ waiters' = IF Waiting(t)
                    THEN [waiters EXCEPT ![t] = [@ EXCEPT !.timedOut = TRUE, !.waiting = FALSE]]
                    ELSE waiters
      /\ fiber' = [fiber EXCEPT ![t] = "ready"]
      /\ UNCHANGED <<staged, records, cursor, listening, next, active, pass, nextEvent>>
  BY DEF Resume
<1>2. /\ t \in KeysAt(composing) /\ composing \in Sessions /\ HomeOf[t] = composing
      /\ t \in Keys /\ t # None /\ t \notin Listeners
  BY <1>1, AmbientTask
<1>3. /\ waiters \in [DOMAIN waiters -> Waiter] /\ DOMAIN waiters \subseteq Tasks
      /\ fiber \in [Tasks -> {"ready", "waiting", "found"}]
  BY DEF Inv, Types
<1>4. /\ DOMAIN waiters' = DOMAIN waiters
      /\ \A u \in DOMAIN waiters : u # t => waiters'[u] = waiters[u]
      /\ t \in DOMAIN waiters =>
           \/ waiters'[t] = waiters[t]
           \/ /\ waiters[t].waiting
              /\ waiters'[t] = [waiters[t] EXCEPT !.timedOut = TRUE, !.waiting = FALSE]
      /\ waiters' = [u \in DOMAIN waiters |-> waiters'[u]]
  BY <1>1, <1>3 DEF Waiting
<1>5. Types'
  <2>1. \A u \in DOMAIN waiters : waiters'[u] \in Waiter
    <3> SUFFICES ASSUME NEW u \in DOMAIN waiters
                 PROVE  waiters'[u] \in Waiter
      OBVIOUS
    <3>1. waiters[u] \in Waiter
      BY <1>3
    <3>2. [waiters[u] EXCEPT !.timedOut = TRUE, !.waiting = FALSE] \in Waiter
      BY <3>1 DEF Waiter
    <3>3. \/ waiters'[u] = waiters[u]
          \/ waiters'[u] = [waiters[u] EXCEPT !.timedOut = TRUE, !.waiting = FALSE]
      BY <1>4
    <3> QED
      BY <3>1, <3>2, <3>3
  <2>2. waiters' \in [DOMAIN waiters' -> Waiter] /\ DOMAIN waiters' \subseteq Tasks
    BY <1>3, <1>4, <2>1
  <2>3. fiber' \in [Tasks -> {"ready", "waiting", "found"}]
    BY <1>1, <1>3
  <2> QED
    BY <1>1, <2>2, <2>3 DEF Inv, Types, KeysAt, pass
<1>6. PassOK'
  BY <1>1, <1>2 DEF Inv, PassOK, KeysAt, pass
<1>7. RecordsOK' /\ OrderOK'
  BY <1>1, SameRecords
<1>8. OneOutcome'
  <2> SUFFICES ASSUME NEW u \in DOMAIN waiters
               PROVE  LET w == waiters'[u] IN
                      /\ ~(w.received /\ w.timedOut)
                      /\ w.waiting => ~w.received /\ ~w.timedOut
    BY <1>4 DEF OneOutcome
  <2>1. LET w == waiters[u] IN
        ~(w.received /\ w.timedOut) /\ (w.waiting => ~w.received /\ ~w.timedOut)
    BY DEF Inv, OneOutcome
  <2>2. waiters[u] \in Waiter
    BY <1>3
  <2> QED
    BY <1>4, <2>1, <2>2, ZenonT(30) DEF Waiter
<1>9. QueueHoldsAll /\ Served => WakeupPending'
  <2> SUFFICES ASSUME QueueHoldsAll, Served,
                      NEW u \in DOMAIN waiters, fiber'[u] = "waiting",
                      waiters'[u].timed \/ ~waiters'[u].waiting
               PROVE  Scheduled(u)'
    BY <1>4 DEF WakeupPending
  <2>1. u # t /\ fiber[u] = "waiting" /\ waiters'[u] = waiters[u] /\ u # None
    BY <1>1, <1>3, <1>4, AtHome DEF Keys
  <2>2. Scheduled(u)
    BY <2>1 DEF Served, WakeupPending
  <2> QED
    BY <1>1, <2>1, <2>2 DEF Scheduled
<1>10. QueueHoldsAll /\ Served => HeardOK'
  <2> SUFFICES ASSUME QueueHoldsAll, Served,
                      NEW s \in Sessions, NEW n \in 1 .. Len(records[s]),
                      NEW k \in records[s][n].told, Coming(s, k, n)
               PROVE  Coming(s, k, n)'
    BY <1>1 DEF Served, HeardOK
  <2>1. k # t /\ k # None
    BY <1>2, AtHome DEF Keys
  <2> QED
    BY <1>1, <2>1 DEF Coming, pass
<1> QED
  BY <1>5, <1>6, <1>7, <1>8, <1>9, <1>10 DEF Inv, Served, KeepsServing

LEMMA WaitFoundStep ==
  ASSUME EventsAssumption, Inv, WaitFound
  PROVE  Inv' /\ KeepsServing
<1> DEFINE c == composing
           m == Least(Matching(body))
           r == records[c][m]
           q == Copied(r, body)
<1>1. /\ body \in Tasks /\ Matching(body) # {}
      /\ records' = [records EXCEPT ![c][m] = q]
      /\ fiber' = [fiber EXCEPT ![body] = "found"] /\ body' = None
      /\ UNCHANGED <<staged, cursor, listening, waiters, next, active, pass, due, nextEvent>>
  BY DEF WaitFound
<1>2. body \in KeysAt(c) /\ c \in Sessions /\ body \in Keys /\ body # None /\ body \notin Listeners
  BY <1>1, AmbientTask
<1>3. /\ records \in [Sessions -> Seq(Record)] /\ records[c] \in Seq(Record)
      /\ fiber \in [Tasks -> {"ready", "waiting", "found"}]
  BY <1>2 DEF Inv, Types
<1>4. m \in 1 .. Len(records[c])
  <2>1. Matching(body) \in SUBSET (1 .. Len(records[c]))
    BY <1>3 DEF Matching
  <2> QED
    BY <1>1, <2>1, LeastOf
<1>5. r \in Record /\ RecordOK(c, r, nextEvent)
  BY <1>2, <1>3, <1>4, ElementOfSeq DEF Inv, RecordsOK
<1> HIDE DEF m, r
<1>6. /\ q \in Record /\ q.id = r.id /\ q.scope = r.scope /\ q.told = r.told /\ q.midway = r.midway
      /\ q.seen = r.seen /\ \A k \in Listeners : q.handed[k] = r.handed[k]
  <2> DEFINE h == [r.handed EXCEPT ![body] = @ + 1]
  <2>1. r.handed \in [Keys -> Nat] /\ Listeners \subseteq Keys
    BY <1>5 DEF Record, Keys
  <2>2. h \in [Keys -> Nat] /\ \A k \in Listeners : h[k] = r.handed[k]
    BY <1>2, <2>1
  <2>3. q = [r EXCEPT !.read = TRUE, !.handed = h]
    BY <1>5 DEF Record, Copied
  <2> HIDE DEF h, q
  <2> QED
    BY <1>5, <2>2, <2>3 DEF Record
<1> HIDE DEF q
<1>7. RecordOK(c, q, nextEvent)
  BY <1>5, <1>6 DEF RecordOK
<1>8. /\ records' \in [Sessions -> Seq(Record)]
      /\ \A s \in Sessions : Len(records'[s]) = Len(records[s])
      /\ \A s \in Sessions : \A i \in 1 .. Len(records[s]) :
           IF s = c /\ i = m THEN records'[s][i] = q ELSE records'[s][i] = records[s][i]
      /\ RecordsOK' /\ OrderOK'
  <2>1. q.id = records[c][m].id /\ q.scope = records[c][m].scope
    BY <1>6 DEF r
  <2> QED
    BY <1>1, <1>2, <1>4, <1>6, <1>7, <2>1, MarkedRecord
<1>9. Types'
  <2>1. \A s \in Sessions : Len(records'[s]) <= MaxQueue
    BY <1>8 DEF Inv, Types
  <2>2. fiber' \in [Tasks -> {"ready", "waiting", "found"}] /\ records' \in [Sessions -> Seq(Record)]
    BY <1>1, <1>3, <1>8
  <2> QED
    BY <1>1, <2>1, <2>2 DEF Inv, Types, KeysAt, pass
<1>10. PassOK'
  BY <1>1 DEF Inv, PassOK, KeysAt, pass
<1>11. OneOutcome'
  BY <1>1 DEF Inv, OneOutcome
<1>12. QueueHoldsAll /\ Served => WakeupPending'
  <2> SUFFICES ASSUME QueueHoldsAll, Served,
                      NEW u \in DOMAIN waiters, fiber'[u] = "waiting",
                      waiters[u].timed \/ ~waiters[u].waiting
               PROVE  Scheduled(u)'
    BY <1>1 DEF WakeupPending
  <2>1. u # body /\ fiber[u] = "waiting"
    BY <1>1, <1>3, AtHome
  <2>2. Scheduled(u)
    BY <2>1 DEF Served, WakeupPending
  <2> QED
    BY <1>1, <2>1, <2>2 DEF Scheduled
<1>13. QueueHoldsAll /\ Served => HeardOK'
  <2> SUFFICES ASSUME QueueHoldsAll, Served,
                      NEW s \in Sessions, NEW n \in 1 .. Len(records[s]),
                      NEW k \in records'[s][n].told,
                      records'[s][n].handed[k] = 0, ~records'[s][n].midway
               PROVE  Coming(s, k, n)'
    BY <1>8 DEF HeardOK
  <2>1. /\ records'[s][n].told = records[s][n].told
        /\ records'[s][n].midway = records[s][n].midway
        /\ \A j \in Listeners : records'[s][n].handed[j] = records[s][n].handed[j]
    <3>1. CASE s = c /\ n = m
      <4>1. records'[s][n] = q /\ records[s][n] = r
        BY <1>8, <3>1 DEF r
      <4> QED
        BY <1>6, <4>1
    <3>2. CASE ~(s = c /\ n = m)
      <4>1. records'[s][n] = records[s][n]
        BY <1>8, <3>2
      <4> QED
        BY <4>1
    <3> QED
      BY <3>1, <3>2
  <2>2. k \in Listeners
    BY <2>1, AtHome
  <2>3. Coming(s, k, n)
    BY <2>1, <2>2 DEF Served, HeardOK
  <2> QED
    BY <1>1, <1>2, <2>2, <2>3 DEF Coming, pass
<1> QED
  BY <1>8, <1>9, <1>10, <1>11, <1>12, <1>13 DEF Inv, Served, KeepsServing

LEMMA WaitRegisteredStep ==
  ASSUME EventsAssumption, Inv, NEW timed \in BOOLEAN, WaitRegistered(timed)
  PROVE  Inv' /\ KeepsServing
<1> DEFINE room == \/ body \in DOMAIN waiters
                   \/ Cardinality(DOMAIN waiters \cap KeysAt(composing)) < MaxListeners
           asks == IF room /\ Polls(timed) THEN {body} ELSE {}
<1>1. /\ body \in Tasks
      /\ waiters' = IF room THEN [t \in DOMAIN waiters \cup {body} |->
                                    IF t = body THEN NewWaiter(timed) ELSE waiters[t]]
                    ELSE waiters
      /\ fiber' = [fiber EXCEPT ![body] = "waiting"] /\ body' = None
      /\ UNCHANGED <<staged, records, cursor, listening, active, pass, due, nextEvent>>
  BY DEF WaitRegistered
<1>2. /\ body \in KeysAt(composing) /\ composing \in Sessions /\ HomeOf[body] = composing
      /\ body \in Keys /\ body # None /\ body \notin Listeners
  BY <1>1, AmbientTask
<1>3. /\ waiters \in [DOMAIN waiters -> Waiter] /\ DOMAIN waiters \subseteq Tasks
      /\ fiber \in [Tasks -> {"ready", "waiting", "found"}]
      /\ NewWaiter(timed) \in Waiter
  BY DEF Inv, Types, NewWaiter, Waiter
<1>0. PICK later \in Enqueued(next[composing], asks) : next' = [next EXCEPT ![composing] = later]
  BY DEF WaitRegistered
<1>4. asks \subseteq {body} /\ (room /\ timed => body \in asks) /\ (~room => body \notin DOMAIN waiters)
  BY DEF Polls
<1>5. \/ waiters' = waiters /\ ~room
      \/ /\ room /\ DOMAIN waiters' = DOMAIN waiters \cup {body}
         /\ waiters'[body] = NewWaiter(timed)
         /\ \A t \in DOMAIN waiters : t # body => waiters'[t] = waiters[t]
         /\ waiters' \in [DOMAIN waiters' -> Waiter]
  <2>1. CASE room
    <3> DEFINE ws == [t \in DOMAIN waiters \cup {body} |->
                        IF t = body THEN NewWaiter(timed) ELSE waiters[t]]
    <3>1. waiters' = ws
      BY <1>1, <2>1
    <3>2. /\ DOMAIN ws = DOMAIN waiters \cup {body} /\ ws[body] = NewWaiter(timed)
          /\ \A t \in DOMAIN waiters : t # body => ws[t] = waiters[t]
      OBVIOUS
    <3>3. ws \in [DOMAIN waiters \cup {body} -> Waiter]
      BY <1>3
    <3> HIDE DEF ws
    <3> QED
      BY <2>1, <3>1, <3>2, <3>3
  <2>2. CASE ~room
    BY <1>1, <2>2
  <2> QED
    BY <2>1, <2>2
<1> HIDE DEF room, asks
<1>6. /\ next' \in [Sessions -> SUBSET (Keys \cup {Root})]
      /\ \A s \in Sessions : next[s] \subseteq next'[s] /\ next'[s] \subseteq KeysAt(s) \cup {Root}
      /\ QueueHoldsAll => asks \subseteq next'[composing]
  <2>1. asks \subseteq KeysAt(composing) \cup {Root}
    BY <1>2, <1>4
  <2> QED
    BY <1>0, <1>2, <2>1, Asked
<1>7. Types'
  <2>1. \A s \in Sessions : next'[s] \cup active'[s] \subseteq KeysAt(s) \cup {Root}
    BY <1>1, <1>2, <1>4, <1>6 DEF Inv, Types
  <2>2. waiters' \in [DOMAIN waiters' -> Waiter] /\ DOMAIN waiters' \subseteq Tasks
    BY <1>1, <1>3, <1>5
  <2>3. fiber' \in [Tasks -> {"ready", "waiting", "found"}]
    BY <1>1, <1>3
  <2> QED
    BY <1>1, <1>6, <2>1, <2>2, <2>3 DEF Inv, Types, KeysAt, pass
<1>8. PassOK'
  BY <1>1 DEF Inv, PassOK, KeysAt, pass
<1>9. RecordsOK' /\ OrderOK'
  BY <1>1, SameRecords
<1>10. ASSUME NEW t \in DOMAIN waiters'
       PROVE  \/ t = body /\ room /\ waiters'[t] = NewWaiter(timed)
              \/ t \in DOMAIN waiters /\ t # body /\ waiters'[t] = waiters[t]
  BY <1>4, <1>5
<1>11. OneOutcome'
  BY <1>10 DEF Inv, OneOutcome, NewWaiter
<1>12. QueueHoldsAll /\ Served => WakeupPending'
  <2> SUFFICES ASSUME QueueHoldsAll, Served,
                      NEW t \in DOMAIN waiters', fiber'[t] = "waiting",
                      waiters'[t].timed \/ ~waiters'[t].waiting
               PROVE  Scheduled(t)'
    BY DEF WakeupPending
  <2>1. CASE t = body /\ room /\ waiters'[t] = NewWaiter(timed)
    <3>1. timed
      BY <2>1 DEF NewWaiter
    <3> QED
      BY <1>2, <1>4, <1>6, <2>1, <3>1 DEF Scheduled
  <2>2. CASE t \in DOMAIN waiters /\ t # body /\ waiters'[t] = waiters[t]
    <3>1. fiber[t] = "waiting" /\ HomeOf[t] \in Sessions
      BY <1>1, <1>3, <2>2, AtHome
    <3>2. Scheduled(t)
      BY <2>2, <3>1 DEF Served, WakeupPending
    <3> QED
      BY <1>1, <1>6, <2>2, <3>1, <3>2 DEF Scheduled
  <2> QED
    BY <1>10, <2>1, <2>2
<1>13. QueueHoldsAll /\ Served => HeardOK'
  <2> SUFFICES ASSUME QueueHoldsAll, Served,
                      NEW s \in Sessions, NEW n \in 1 .. Len(records[s]),
                      NEW k \in records[s][n].told, Coming(s, k, n)
               PROVE  Coming(s, k, n)'
    BY <1>1 DEF Served, HeardOK
  <2>1. k # body
    BY <1>2, AtHome
  <2> QED
    BY <1>1, <1>6, <2>1 DEF Coming, pass
<1> QED
  BY <1>7, <1>8, <1>9, <1>11, <1>12, <1>13 DEF Inv, Served, KeepsServing

LEMMA ExpireStep ==
  ASSUME EventsAssumption, Inv, NEW t \in Tasks, Expire(t)
  PROVE  Inv' /\ KeepsServing
<1>1. /\ t \in DOMAIN waiters /\ waiters' = [waiters EXCEPT ![t].late = TRUE]
      /\ UNCHANGED <<staged, records, cursor, listening, fiber, next, active, walk, nextEvent>>
  BY DEF Expire, Waiting
<1>2. waiters \in [DOMAIN waiters -> Waiter] /\ DOMAIN waiters \subseteq Tasks
  BY DEF Inv, Types
<1>3. /\ DOMAIN waiters' = DOMAIN waiters /\ waiters' \in [DOMAIN waiters -> Waiter]
      /\ \A u \in DOMAIN waiters :
           /\ waiters'[u].waiting = waiters[u].waiting /\ waiters'[u].timed = waiters[u].timed
           /\ waiters'[u].received = waiters[u].received
           /\ waiters'[u].timedOut = waiters[u].timedOut
  BY <1>1, <1>2, ZenonT(30) DEF Waiter
<1>4. Types' /\ PassOK'
  BY <1>1, <1>3 DEF Inv, Types, PassOK, KeysAt, walk, pass
<1>5. RecordsOK' /\ OrderOK'
  BY <1>1, SameRecords
<1>6. OneOutcome' /\ (Served => Served')
  BY <1>1, <1>3
  DEF Inv, OneOutcome, Served, WakeupPending, Scheduled, HeardOK, Coming, walk, pass
<1> QED
  BY <1>4, <1>5, <1>6 DEF Inv, Served, KeepsServing

LEMMA StutterStep ==
  ASSUME Inv, UNCHANGED vars
  PROVE  Inv' /\ KeepsServing
<1>1. UNCHANGED <<staged, records, cursor, listening, waiters, fiber, next, active, mounted,
                  composed, frame, composing, iterations, due, body, nextEvent>>
  BY DEF vars, inbox, walk, pass
<1>2. Types' /\ PassOK'
  BY <1>1 DEF Inv, Types, PassOK, KeysAt
<1>3. RecordsOK' /\ OrderOK'
  BY <1>1, SameRecords
<1>4. OneOutcome' /\ (Served => Served')
  BY <1>1 DEF Inv, OneOutcome, Served, WakeupPending, Scheduled, HeardOK, Coming
<1> QED
  BY <1>2, <1>3, <1>4 DEF Inv, Served, KeepsServing

LEMMA InitInv ==
  ASSUME EventsAssumption, Init
  PROVE  Inv /\ Served
<1>1. /\ staged = <<>> /\ records = [s \in Sessions |-> <<>>]
      /\ cursor = [s \in Sessions |-> 1] /\ listening = {} /\ waiters = <<>>
      /\ fiber = [t \in Tasks |-> "ready"]
      /\ next = [s \in Sessions |-> {}] /\ active = [s \in Sessions |-> {}]
      /\ mounted = {} /\ composed = {} /\ frame = {} /\ composing = None
      /\ iterations = 0 /\ due = {} /\ body = None /\ nextEvent = 1
  BY DEF Init
<1>2. /\ MaxQueue \in Nat \ {0} /\ MaxListeners \in Nat \ {0} /\ MaxDrain \in Nat \ {0}
      /\ MaxEvents \in Nat \ {0}
  BY DEF EventsAssumption
<1>3. DOMAIN waiters = {}
  BY <1>1
<1>4. IsFiniteSet({}) /\ Cardinality({}) = 0
  BY FS_EmptySet
<1>5. Types
  <2>1. \A s \in Sessions : /\ IsFiniteSet(listening \cap KeysAt(s))
                            /\ Cardinality(listening \cap KeysAt(s)) <= MaxListeners
    <3> SUFFICES ASSUME NEW s \in Sessions
                 PROVE  /\ IsFiniteSet(listening \cap KeysAt(s))
                        /\ Cardinality(listening \cap KeysAt(s)) <= MaxListeners
      OBVIOUS
    <3>1. listening \cap KeysAt(s) = {}
      BY <1>1
    <3> QED
      BY <1>2, <1>4, <3>1
  <2>2. waiters \in [DOMAIN waiters -> Waiter] /\ DOMAIN waiters \subseteq Tasks
    BY <1>1, <1>3
  <2> QED
    BY <1>1, <1>2, <2>1, <2>2 DEF Types
<1>6. PassOK
  BY <1>1 DEF PassOK
<1>7. RecordsOK /\ HeardOK
  BY <1>1 DEF RecordsOK, HeardOK
<1>8. OrderOK
  BY <1>1 DEF OrderOK, Ordered, Before
<1>9. OneOutcome /\ WakeupPending
  BY <1>3 DEF OneOutcome, WakeupPending
<1> QED
  BY <1>5, <1>6, <1>7, <1>8, <1>9 DEF Inv, Served

LEMMA NextInv ==
  ASSUME EventsAssumption, Inv, [Next]_vars
  PROVE  Inv' /\ KeepsServing
<1>1. ASSUME NEW s \in Sessions, SkipPass(s) \/ BeginPass(s)
      PROVE  Inv' /\ KeepsServing
  BY <1>1, SkipPassStep, BeginPassStep
<1>2. ASSUME NEW k \in Listeners, Poll(k)
      PROVE  Inv' /\ KeepsServing
  BY <1>2, PollStep
<1>3. ASSUME NEW t \in Tasks, KeepWaiting(t) \/ Resume(t)
      PROVE  Inv' /\ KeepsServing
  BY <1>3, KeepWaitingStep, ResumeStep
<1>4. ASSUME NEW timed \in BOOLEAN, WaitRegistered(timed)
      PROVE  Inv' /\ KeepsServing
  BY <1>4, WaitRegisteredStep
<1>5. CASE Host
  BY <1>1, <1>2, <1>3, <1>4, <1>5, StartFrameStep, NextIterationStep, DidNotConvergeStep,
     FinishStep, NextEventStep, WaitFoundStep DEF Host
<1>6. ASSUME NEW s \in Sessions, Emit(s) \/ Signal(s)
      PROVE  Inv' /\ KeepsServing
  BY <1>6, EmitStep, SignalStep
<1>7. CASE Send
  BY <1>6, <1>7, BroadcastStep DEF Send
<1>8. ASSUME NEW t \in Tasks, Expire(t)
      PROVE  Inv' /\ KeepsServing
  BY <1>8, ExpireStep
<1>9. CASE UNCHANGED vars
  BY <1>9, StutterStep
<1> QED
  BY <1>5, <1>7, <1>8, <1>9 DEF Next

\* What holds of the queues, the waiters and who was handed what, whatever a
\* full queue of keys drops.
THEOREM EventsInvariant == Spec => []Inv
<1>1. Init => Inv
  BY EventsAssumption, InitInv
<1>2. Inv /\ [Next]_vars => Inv'
  BY EventsAssumption, NextInv
<1> QED
  BY <1>1, <1>2, PTL DEF Spec

\* With room for the keys, whoever is answered or promised an event is on its
\* way to it, through every pass, iteration and carry-over.
THEOREM EverybodyServed == QueueHoldsAll => (Spec => []Served)
<1> SUFFICES ASSUME QueueHoldsAll
             PROVE  Spec => []Served
  OBVIOUS
<1>1. Init => Inv /\ Served
  BY EventsAssumption, InitInv
<1>2. Inv /\ Served /\ [Next]_vars => Inv' /\ Served'
  BY EventsAssumption, NextInv DEF KeepsServing
<1> QED
  BY <1>1, <1>2, PTL DEF Spec

-----------------------------------------------------------------------------
(* What it says.                                                           *)

\* The types of the state, and the limits of its queues and tables
\* (CELS_EVENT_QUEUE_CAPACITY, CELS_MAX_EVENT_LISTENERS, maxDrainIterations).
THEOREM EventsTyped == Spec => []TypeOK
<1>1. Inv => TypeOK
  <2> SUFFICES ASSUME Inv
               PROVE  TypeOK
    OBVIOUS
  <2>1. \A s \in Sessions : KeysAt(s) \subseteq Keys
    BY DEF KeysAt
  <2>2. body \in Keys \cup {None} /\ due \subseteq Keys
    BY DEF Inv, PassOK, KeysAt
  <2> QED
    BY <2>2 DEF Inv, Types, TypeOK
<1> QED
  BY <1>1, EventsInvariant, PTL

\* CelsEventPoll and CelsEventNext hand no listener an event twice, unless
\* its table of consumers was full (CELS_MAX_EVENT_CONSUMERS).
THEOREM NobodyHandedTwice == Spec => []HandedOnce
<1>1. Inv => HandedOnce
  <2> SUFFICES ASSUME Inv, NEW s \in Sessions, NEW k \in Listeners,
                      NEW n \in DOMAIN records[s], records[s][n].handed[k] > 1
               PROVE  /\ k \notin records[s][n].seen
                      /\ Cardinality(records[s][n].seen) = MaxConsumers
    BY DEF HandedOnce
  <2> DEFINE r == records[s][n]
  <2>1. records[s] \in Seq(Record) /\ n \in 1 .. Len(records[s])
    BY DEF Inv, Types
  <2>2. RecordOK(s, r, nextEvent) /\ r \in Record
    BY <2>1, ElementOfSeq DEF Inv, RecordsOK
  <2>3. r.handed[k] \in Nat
    BY <2>2 DEF Record, Keys
  <2> QED
    BY <2>2, <2>3 DEF RecordOK
<1> QED
  BY <1>1, EventsInvariant, PTL

\* Sessions see broadcasts once and in the order CelsEngineBroadcast took them.
THEOREM BroadcastsOrdered == Spec => []BroadcastsInOrder
<1>1. Inv => BroadcastsInOrder
  <2> SUFFICES ASSUME Inv, NEW s \in Sessions
               PROVE  \A m, n \in DOMAIN records[s] :
                        /\ m < n
                        /\ records[s][m].scope = "broadcast"
                        /\ records[s][n].scope = "broadcast"
                        => records[s][m].id < records[s][n].id
    BY DEF BroadcastsInOrder
  <2>1. DOMAIN records[s] = 1 .. Len(records[s])
    BY DEF Inv, Types
  <2>2. Ordered(records[s])
    BY DEF Inv, OrderOK
  <2> QED
    BY <2>1, <2>2 DEF Ordered, IsBroadcast
<1> QED
  BY <1>1, EventsInvariant, PTL

\* CheckTaskWaiters and CelsTaskEventShouldWait: a wait ends with its event
\* or its deadline, never with both.
THEOREM WaitsEndOneWay == Spec => []OneOutcome
<1>1. Inv => OneOutcome
  BY DEF Inv
<1> QED
  BY <1>1, EventsInvariant, PTL

\* A suspended task whose event came or whose deadline is to be polled for is
\* always scheduled: no step drops its key, as long as the queues of keys have
\* a place for every key of their session.
THEOREM NoWakeupLost == QueueHoldsAll => (Spec => []WakeupPending)
<1>1. Served => WakeupPending
  BY DEF Served
<1> SUFFICES ASSUME QueueHoldsAll
             PROVE  Spec => []WakeupPending
  OBVIOUS
<1>2. Spec => []Served
  BY EverybodyServed
<1> QED
  BY <1>1, <1>2, PTL

\* The records of a session stay where they are, with those that arrive
\* behind them, except at the end of its pass.
LEMMA RecordsStay ==
  ASSUME EventsAssumption, Inv, [Next]_vars, ~Finish,
         NEW s \in Sessions, NEW n \in DOMAIN records[s]
  PROVE  \E m \in DOMAIN records'[s] : records'[s][m].id = records[s][n].id
<1>1. /\ records \in [Sessions -> Seq(Record)] /\ n \in 1 .. Len(records[s])
      /\ records'[s] \in Seq(Record)
  <2>1. Inv'
    BY NextInv
  <2>2. records' \in [Sessions -> Seq(Record)]
    BY <2>1 DEF Inv, Types
  <2>3. records \in [Sessions -> Seq(Record)]
    BY DEF Inv, Types
  <2> QED
    BY <2>2, <2>3
<1> DEFINE Stays == /\ Len(records[s]) <= Len(records'[s])
                    /\ records'[s][n].id = records[s][n].id
<1>2. SUFFICES Stays
  <2>1. ASSUME Stays
        PROVE  n \in DOMAIN records'[s]
    BY <1>1, <2>1
  <2> QED
    BY <2>1
<1> HIDE DEF Stays
<1>3. CASE records'[s] = records[s]
  BY <1>1, <1>3 DEF Stays
<1>4. ASSUME NEW m, NEW limit, MailOK(s, m, limit), records'[s] = m.records
      PROVE  Stays
  BY <1>1, <1>4 DEF Stays, MailOK
<1>5. ASSUME NEW x \in Sessions, Emit(x)
      PROVE  Stays
  <2> DEFINE m == Delivered(Inbox(x), x, nextEvent, "local")
  <2>1. MailOK(x, m, nextEvent + 1) /\ records' = [records EXCEPT ![x] = m.records]
    BY <1>5, SentMail DEF Emit
  <2> HIDE DEF m
  <2> QED
    BY <1>1, <1>3, <1>4, <2>1
<1>6. ASSUME NEW x \in Sessions, Signal(x)
      PROVE  Stays
  <2> DEFINE m == Delivered(Inbox(x), x, nextEvent, "signal")
  <2>1. MailOK(x, m, nextEvent + 1) /\ records' = [records EXCEPT ![x] = m.records]
    BY <1>6, SentMail DEF Signal
  <2> HIDE DEF m
  <2> QED
    BY <1>1, <1>3, <1>4, <2>1
<1>7. CASE StartFrame
  <2>1. MailOK(s, Flooded(s), nextEvent)
    BY FloodedFacts
  <2>2. records'[s] = Flooded(s).records
    BY <1>7 DEF StartFrame
  <2> QED
    BY <1>4, <2>1, <2>2
<1>8. ASSUME NEW k, NEW i, Hand(k, i)
      PROVE  Stays
  <2> DEFINE c == composing
             m == Least(Unread(k, i))
  <2>1. CASE UNCHANGED records
    BY <1>3, <2>1
  <2>2. CASE ~UNCHANGED records
    <3>1. records' = [records EXCEPT ![c][m] = Consumed(@, k)]
      BY <1>8, <2>2 DEF Hand
    <3> HIDE DEF m
    <3>2. CASE s # c
      BY <1>1, <1>3, <3>1, <3>2
    <3>3. CASE s = c
      <4>1. records'[s] = [records[s] EXCEPT ![m] = Consumed(records[s][m], k)]
        BY <1>1, <3>1, <3>3
      <4>2. Len(records'[s]) = Len(records[s])
        BY <1>1, <4>1
      <4>3. records[s][n] \in Record
        BY <1>1, ElementOfSeq
      <4>4. records'[s][n] = IF n = m THEN Consumed(records[s][n], k) ELSE records[s][n]
        BY <1>1, <4>1
      <4>5. Consumed(records[s][n], k).id = records[s][n].id
        BY <4>3 DEF Consumed, Record
      <4> QED
        BY <1>1, <4>2, <4>4, <4>5 DEF Stays
    <3> QED
      BY <3>2, <3>3
  <2> QED
    BY <2>1, <2>2
<1>9. CASE WaitFound
  <2> DEFINE c == composing
             m == Least(Matching(body))
  <2>1. records' = [records EXCEPT ![c][m] = Copied(@, body)]
    BY <1>9 DEF WaitFound
  <2>2. \A r \in Record : Copied(r, body).id = r.id
    BY DEF Record, Copied
  <2> HIDE DEF m
  <2>3. CASE s # c
    BY <1>1, <1>3, <2>1, <2>3
  <2>4. CASE s = c
    <3>1. records'[s] = [records[s] EXCEPT ![m] = Copied(records[s][m], body)]
      BY <1>1, <2>1, <2>4
    <3>2. Len(records'[s]) = Len(records[s])
      BY <1>1, <3>1
    <3>3. records[s][n] \in Record
      BY <1>1, ElementOfSeq
    <3>4. records'[s][n] = IF n = m THEN Copied(records[s][n], body) ELSE records[s][n]
      BY <1>1, <3>1
    <3> QED
      BY <1>1, <2>2, <3>2, <3>3, <3>4 DEF Stays
  <2> QED
    BY <2>3, <2>4
<1>10. CASE Host
  <2>1. ASSUME NEW k \in Listeners, Poll(k)
        PROVE  Stays
    BY <1>8, <2>1 DEF Poll
  <2>2. CASE NextEvent
    BY <1>8, <2>2 DEF NextEvent
  <2>3. ASSUME \/ NextIteration \/ DidNotConverge
               \/ \E x \in Sessions : SkipPass(x) \/ BeginPass(x)
               \/ \E t \in Tasks : KeepWaiting(t) \/ Resume(t)
               \/ \E timed \in BOOLEAN : WaitRegistered(timed)
        PROVE  Stays
    BY <1>3, <2>3 DEF NextIteration, DidNotConverge, SkipPass, BeginPass, KeepWaiting, Resume,
                      WaitRegistered, inbox
  <2> QED
    BY <1>7, <1>9, <1>10, <2>1, <2>2, <2>3 DEF Host
<1>11. CASE Send
  BY <1>3, <1>5, <1>6, <1>11 DEF Send, Broadcast, inbox
<1>12. ASSUME NEW t \in Tasks, Expire(t)
       PROVE  Stays
  BY <1>3, <1>12 DEF Expire
<1>13. CASE UNCHANGED vars
  BY <1>3, <1>13 DEF vars, inbox
<1> QED
  BY <1>10, <1>11, <1>12, <1>13 DEF Next

\* CelsEventRetireConsumed drops an event only when it was read and everyone
\* who was listening when it was queued has been handed it, signals queued
\* during a pass of their session excepted, as long as the queues of keys have
\* a place for every key of their session.
THEOREM RetirementHeard == QueueHoldsAll => (Spec => RetiredOnceHeard)
<1> SUFFICES ASSUME QueueHoldsAll
             PROVE  Spec => RetiredOnceHeard
  OBVIOUS
<1> DEFINE Heard ==
             \A s \in Sessions : \A n \in DOMAIN records[s] :
               LET r == records[s][n] IN
               \/ \E m \in DOMAIN records'[s] : records'[s][m].id = r.id
               \/ r.read /\ (r.midway \/ \A k \in r.told : r.handed[k] > 0)
<1>1. ASSUME Inv, Served, [Next]_vars, NEW s \in Sessions, NEW n \in DOMAIN records[s]
      PROVE  LET r == records[s][n] IN
             \/ \E m \in DOMAIN records'[s] : records'[s][m].id = r.id
             \/ r.read /\ (r.midway \/ \A k \in r.told : r.handed[k] > 0)
  <2> DEFINE r == records[s][n]
             rs == Kept(records[s])
  <2>1. CASE ~Finish
    BY <1>1, <2>1, EventsAssumption, RecordsStay
  <2>2. CASE Finish /\ s # composing
    <3>1. records'[s] = records[s]
      BY <1>1, <2>2 DEF Finish, Inv, Types
    <3> QED
      BY <3>1
  <2>3. CASE Finish /\ s = composing
    <3>1. /\ records[s] \in Seq(Record) /\ n \in 1 .. Len(records[s])
          /\ records'[s] = rs
      BY <1>1, <2>3 DEF Finish, Inv, Types
    <3>2. Selects(rs, records[s], Len(records[s]))
      BY <3>1, KeptFacts
    <3> HIDE DEF rs
    <3>3. CASE ~r.read
      <4>1. PICK i \in 1 .. Len(rs) : rs[i] = r
        BY <3>1, <3>2, <3>3 DEF Selects
      <4>2. i \in DOMAIN records'[s]
        BY <3>1, <3>2 DEF Selects
      <4> QED
        BY <3>1, <4>1, <4>2
    <3>4. CASE r.read
      <4>1. IterationDone /\ active[composing] = {}
        BY <2>3 DEF Finish
      <4>2. \A k \in r.told : r.midway \/ r.handed[k] > 0
        BY <1>1, <2>3, <3>1, <4>1, EventsAssumption, AllHeard
      <4> QED
        BY <3>4, <4>2
    <3> QED
      BY <3>3, <3>4
  <2> QED
    BY <2>1, <2>2, <2>3
<1>2. Inv /\ Served /\ [Next]_vars => [Heard]_vars
  BY <1>1
<1>3. Spec => []Served
  BY EverybodyServed
<1> QED
  BY <1>2, <1>3, EventsInvariant, PTL DEF Spec, RetiredOnceHeard
=============================================================================
