---------------------------- MODULE BufferProofs ----------------------------
(***************************************************************************)
(* The two buffers beside the reconciler.                                  *)
(*                                                                         *)
(* Transactions, for every size of the batches and any number of           *)
(* operations: the batches stay within their limits and each operation in  *)
(* them keeps its payload, whatever the two threads do; and until a batch  *)
(* is taken from a busy worker, no operation is lost, repeated or moved.   *)
(*                                                                         *)
(* GapTable, for every capacity and callers whose gap moves fit: both gaps *)
(* stay at the same group, links and sizes tell the same tree, a reader    *)
(* stays within it, and a walk over marked groups jumps over no            *)
(* invalidated one.  And the table implements SlotForest, the list of      *)
(* groups that it stands for.                                              *)
(***************************************************************************)
EXTENDS GapTable, Transactions, Induction, FiniteSetTheorems, SequenceTheorems

-----------------------------------------------------------------------------
(* Transactions.                                                           *)

\* The batch of the worker and the batch that is staged into, and the part of
\* each that is still to be handed over.
Ready == transactionBatches[ReadyIndex].ops
Active == transactionBatches[activeBatchIndex].ops

ReadyFirst == IF worker.reading THEN worker.next ELSE 1
ActiveFirst == IF phase = "committing" THEN committing.next ELSE 1
ActiveLast == IF phase = "committing" THEN committing.count ELSE Len(Active)

\* What holds of the places of the loops whatever the threads do.
Places ==
  /\ phase = "committing" =>
       committing.count <= Len(Active) /\ committing.next >= 1
  /\ worker.next >= 1

Always == TypeOK /\ Places

\* Until a batch is taken from a busy worker the loops stay within the batch
\* they work on, the worker holds an operation of its batch, and only the
\* hook that gives batches to the worker leaves anything in the ready one.
LoopsOK ==
  /\ phase = "committing" =>
       /\ hook = "commit"
       /\ committing.count <= Len(Active)
       /\ committing.next \in 1 .. committing.count + 1
  /\ hook # "swap" => ~worker.reading /\ Ready = <<>>
  /\ worker.reading =>
       /\ worker.batch = ReadyIndex
       /\ worker.next \in 1 .. Len(Ready) + 1
  /\ worker.held # NoOp =>
       /\ worker.reading
       /\ worker.next \in 1 .. Len(Ready)
       /\ worker.held = Ready[worker.next]

\* AppliedInOrder, with what is owed by each batch taken from the loop that
\* can be working on it.
Order ==
  LET n == Len(applied)
      r == Len(Ready) + 1 - ReadyFirst
  IN /\ \A i \in 1 .. n : applied[i] = i
     /\ \A i \in ReadyFirst .. Len(Ready) :
          Ready[i].id = n + (i + 1 - ReadyFirst)
     /\ \A i \in ActiveFirst .. ActiveLast :
          Active[i].id = n + r + (i + 1 - ActiveFirst)
     /\ accepted = n + r + (ActiveLast + 1 - ActiveFirst)

InStep == LoopsOK /\ Order

Inv == Always /\ (~overrun => InStep)

-----------------------------------------------------------------------------

LEMMA TwoBatches ==
  ASSUME activeBatchIndex \in BatchIds
  PROVE  /\ ReadyIndex \in BatchIds
         /\ ReadyIndex # activeBatchIndex
         /\ 1 - ReadyIndex = activeBatchIndex
BY DEF BatchIds, ReadyIndex

LEMMA BatchType ==
  ASSUME NEW batch \in Batch
  PROVE  /\ Emptied(batch) \in Batch
         /\ Emptied(batch).ops = <<>>
         /\ Emptied(batch).dataSize = 0
<1>1. <<>> \in Seq(Op) /\ batch.data \in [0 .. DataSize - 1 -> Nat]
  BY DEF Batch
<1> QED
  BY <1>1 DEF Batch, Emptied

LEMMA WithOpType ==
  ASSUME NEW batch \in Batch, NEW id \in Nat, NEW size \in Nat
  PROVE  /\ WithOp(batch, id, size) \in Batch
         /\ Len(WithOp(batch, id, size).ops) = Len(batch.ops) + 1
         /\ WithOp(batch, id, size).ops[Len(batch.ops) + 1].id = id
         /\ \A i \in 1 .. Len(batch.ops) :
              WithOp(batch, id, size).ops[i] = batch.ops[i]
<1> DEFINE op == [id |-> id, size |-> size, dataOffset |-> batch.dataSize]
           data == [k \in 0 .. DataSize - 1 |->
                      IF batch.dataSize <= k /\ k < batch.dataSize + size
                      THEN id ELSE batch.data[k]]
<1>1. op \in Op
  BY DEF Op, Batch
<1>2. data \in [0 .. DataSize - 1 -> Nat]
  BY DEF Batch
<1>3. batch.ops \in Seq(Op) /\ batch.dataSize \in Nat
  BY DEF Batch
<1>4. /\ Append(batch.ops, op) \in Seq(Op)
      /\ Len(Append(batch.ops, op)) = Len(batch.ops) + 1
      /\ Append(batch.ops, op)[Len(batch.ops) + 1] = op
      /\ \A i \in 1 .. Len(batch.ops) : Append(batch.ops, op)[i] = batch.ops[i]
  BY <1>1, <1>3
<1>5. WithOp(batch, id, size)
        = [ops |-> Append(batch.ops, op), data |-> data,
           dataSize |-> batch.dataSize + size]
  BY DEF WithOp
<1>6. op.id = id
  OBVIOUS
<1> HIDE DEF op, data
<1> QED
  BY <1>2, <1>3, <1>4, <1>5, <1>6 DEF Batch

LEMMA InitInv == ASSUME TransactionsAssumption PROVE Init => Inv
<1> SUFFICES ASSUME Init PROVE Inv
  OBVIOUS
<1>1. /\ Ready = <<>> /\ Active = <<>>
      /\ ReadyFirst = 1 /\ ActiveFirst = 1 /\ ActiveLast = 0
      /\ applied = <<>>
  BY DEF Init, Ready, Active, ReadyFirst, ActiveFirst, ActiveLast, BatchIds,
         ReadyIndex
<1>2. Always
  <2>1. TypeOK
    <3> DEFINE empty == [ops |-> <<>>,
                         data |-> [k \in 0 .. DataSize - 1 |-> 0],
                         dataSize |-> 0]
    <3>1. empty \in Batch /\ Len(empty.ops) = 0 /\ empty.dataSize = 0
      BY DEF Batch
    <3>2. transactionBatches = [b \in BatchIds |-> empty]
      BY DEF Init
    <3> HIDE DEF empty
    <3>3. /\ transactionBatches \in [BatchIds -> Batch]
          /\ \A b \in BatchIds :
               /\ Len(transactionBatches[b].ops) <= MaxTransactions
               /\ transactionBatches[b].dataSize <= DataSize
      BY <3>1, <3>2 DEF TransactionsAssumption
    <3>4. worker \in [reading : BOOLEAN, batch : BatchIds, next : Nat,
                      held : {NoOp} \cup Op]
      BY DEF Init, BatchIds
    <3>5. /\ activeBatchIndex \in BatchIds
          /\ hook \in {"none", "commit", "swap"}
          /\ phase \in {"idle", "composing", "committing"}
          /\ committing \in [next : Nat, count : Nat]
          /\ accepted \in Nat /\ applied \in Seq(Nat)
      BY DEF Init, BatchIds
    <3>6. wanted \in BOOLEAN /\ overrun \in BOOLEAN
      BY DEF Init
    <3> QED
      BY <3>3, <3>4, <3>5, <3>6, Zenon DEF TypeOK
  <2> QED
    BY <2>1 DEF Init, Always, Places
<1>3. LoopsOK
  BY <1>1 DEF Init, LoopsOK
<1>4. Order
  BY <1>1 DEF Init, Order
<1> QED
  BY <1>2, <1>3, <1>4 DEF Inv, InStep

\* What the types say of the batches and of the places in them.
LEMMA Counted ==
  ASSUME Always, InStep
  PROVE  /\ activeBatchIndex \in BatchIds /\ ReadyIndex \in BatchIds
         /\ ReadyIndex # activeBatchIndex /\ 1 - ReadyIndex = activeBatchIndex
         /\ transactionBatches[activeBatchIndex] \in Batch
         /\ transactionBatches[ReadyIndex] \in Batch
         /\ Ready \in Seq(Op) /\ Active \in Seq(Op)
         /\ Len(Ready) \in Nat /\ Len(Active) \in Nat /\ Len(applied) \in Nat
         /\ ReadyFirst \in Nat \ {0} /\ ReadyFirst <= Len(Ready) + 1
         /\ ActiveFirst \in Nat \ {0} /\ ActiveLast \in Nat
         /\ ActiveFirst <= ActiveLast + 1 /\ ActiveLast <= Len(Active)
<1>1. /\ activeBatchIndex \in BatchIds /\ ReadyIndex \in BatchIds
      /\ ReadyIndex # activeBatchIndex /\ 1 - ReadyIndex = activeBatchIndex
  BY TwoBatches DEF Always, InStep, TypeOK
<1>2. /\ transactionBatches[activeBatchIndex] \in Batch
      /\ transactionBatches[ReadyIndex] \in Batch
      /\ Len(applied) \in Nat
  BY <1>1 DEF Always, InStep, TypeOK
<1>3. Ready \in Seq(Op) /\ Active \in Seq(Op)
  BY <1>2 DEF Batch, Ready, Active
<1>4. Len(Ready) \in Nat /\ Len(Active) \in Nat
  BY <1>3
<1>5. ReadyFirst \in Nat \ {0} /\ ReadyFirst <= Len(Ready) + 1
  BY <1>4 DEF Always, InStep, LoopsOK, ReadyFirst
<1>6. /\ ActiveFirst \in Nat \ {0} /\ ActiveLast \in Nat
      /\ ActiveFirst <= ActiveLast + 1 /\ ActiveLast <= Len(Active)
  BY <1>4 DEF Always, InStep, LoopsOK, TypeOK, ActiveFirst, ActiveLast
<1> QED
  BY <1>1, <1>2, <1>3, <1>4, <1>5, <1>6

LEMMA InvImplies == Inv => AppliedInOrder
<1> SUFFICES ASSUME Always, InStep PROVE AppliedInOrder
  BY DEF Inv, AppliedInOrder
<1>1. /\ FirstOwed(ReadyIndex) = ReadyFirst
      /\ LastOwed(ReadyIndex) = Len(Ready)
      /\ FirstOwed(activeBatchIndex) = ActiveFirst
      /\ LastOwed(activeBatchIndex) = ActiveLast
  BY Counted DEF Always, InStep, LoopsOK, FirstOwed, LastOwed, ReadyFirst, ActiveFirst,
                 ActiveLast, Ready, Active
<1>2. DOMAIN applied = 1 .. Len(applied)
  BY DEF Always, InStep, TypeOK
<1> QED
  BY <1>1, <1>2 DEF Always, InStep, Order, AppliedInOrder, NumberedFrom, Owed, Ready,
                    Active

\* A step that changes what the host does next, but no batch and no loop.
LEMMA QuietInStep ==
  ASSUME Always, InStep, phase # "committing", phase' # "committing",
         hook' = hook \/ hook = "none",
         UNCHANGED <<transactionBatches, activeBatchIndex, committing, worker,
                     accepted, applied>>
  PROVE  InStep'
<1>1. /\ Ready' = Ready /\ Active' = Active /\ ReadyIndex' = ReadyIndex
      /\ ReadyFirst' = ReadyFirst /\ ActiveFirst' = ActiveFirst
      /\ ActiveLast' = ActiveLast
  BY DEF Ready, Active, ReadyIndex, ReadyFirst, ActiveFirst, ActiveLast
<1>2. LoopsOK'
  BY <1>1 DEF InStep, LoopsOK
<1>3. Order'
  BY <1>1 DEF InStep, Order
<1> QED
  BY <1>2, <1>3 DEF InStep

LEMMA BeginCommitInStep ==
  ASSUME Always, InStep, BeginCommit
  PROVE  InStep'
<1>1. /\ Ready' = Ready /\ Active' = Active /\ ReadyIndex' = ReadyIndex
      /\ ReadyFirst' = ReadyFirst
  BY DEF BeginCommit, batches, Ready, Active, ReadyIndex, ReadyFirst
<1>2. /\ ActiveFirst = 1 /\ ActiveFirst' = 1
      /\ ActiveLast = Len(Active) /\ ActiveLast' = Len(Active)
  BY DEF BeginCommit, ActiveFirst, ActiveLast, Active
<1>3. LoopsOK'
  BY Counted, <1>1 DEF BeginCommit, InStep, LoopsOK, Active
<1>4. Order'
  BY <1>1, <1>2 DEF BeginCommit, history, InStep, Order
<1> QED
  BY <1>3, <1>4 DEF InStep

\* What is handed over stays 1, 2, 3 and so on.
LEMMA HandedOver ==
  ASSUME NEW s \in Seq(Nat), \A i \in 1 .. Len(s) : s[i] = i
  PROVE  LET t == Append(s, Len(s) + 1) IN
           /\ t \in Seq(Nat) /\ Len(t) = Len(s) + 1
           /\ \A i \in 1 .. Len(t) : t[i] = i
<1> DEFINE t == Append(s, Len(s) + 1)
<1>1. Len(s) \in Nat /\ Len(s) + 1 \in Nat
  OBVIOUS
<1>2. /\ t \in Seq(Nat) /\ Len(t) = Len(s) + 1
      /\ t[Len(s) + 1] = Len(s) + 1
      /\ \A i \in 1 .. Len(s) : t[i] = s[i]
  BY <1>1
<1> HIDE DEF t
<1>3. \A i \in 1 .. Len(t) : t[i] = i
  BY <1>1, <1>2
<1> QED
  BY <1>2, <1>3 DEF t

LEMMA CommitOpInStep ==
  ASSUME Always, InStep, CommitOp
  PROVE  InStep'
<1>1. /\ Ready' = Ready /\ Active' = Active /\ ReadyIndex' = ReadyIndex
      /\ ReadyFirst' = ReadyFirst
  BY DEF CommitOp, batches, Ready, Active, ReadyIndex, ReadyFirst
<1>2. /\ ActiveFirst = committing.next
      /\ ActiveFirst' = committing.next + 1
      /\ ActiveLast = committing.count /\ ActiveLast' = committing.count
      /\ committing.next \in Nat \ {0} /\ committing.count \in Nat
      /\ committing.next <= committing.count
      /\ committing.count <= Len(Active)
  BY DEF CommitOp, Always, InStep, TypeOK, LoopsOK, ActiveFirst, ActiveLast
<1>3. Ready = <<>> /\ Len(Ready) = 0 /\ ReadyFirst = 1
  BY DEF CommitOp, Always, InStep, LoopsOK, ReadyFirst
<1>4. \A i \in ActiveFirst .. ActiveLast :
        Active[i].id = Len(applied) + (i + 1 - ActiveFirst)
  BY <1>3, Counted DEF Always, InStep, Order
<1>5. /\ applied' = Append(applied, Active[committing.next].id)
      /\ Active[committing.next].id = Len(applied) + 1
  <2>1. Active[committing.next].id
          = Len(applied) + (committing.next + 1 - ActiveFirst)
    <3>1. committing.next \in ActiveFirst .. ActiveLast
      BY <1>2
    <3> QED
      BY <1>4, <3>1
  <2> QED
    BY <1>2, <2>1, Counted DEF CommitOp, Active
<1>6. /\ applied' \in Seq(Nat) /\ Len(applied') = Len(applied) + 1
      /\ \A i \in 1 .. Len(applied') : applied'[i] = i
  BY <1>5, HandedOver DEF Always, InStep, TypeOK, Order
<1>8. LoopsOK'
  BY <1>1, <1>2 DEF CommitOp, Always, InStep, TypeOK, LoopsOK
<1>9. Order'
  <2> DEFINE n == Len(applied)
             first == ActiveFirst
             last == ActiveLast
  <2>0. /\ n \in Nat /\ first \in Nat /\ last \in Nat
        /\ Len(applied') = n + 1
        /\ ActiveFirst' = first + 1 /\ ActiveLast' = last
    BY <1>2, <1>6, Counted
  <2> HIDE DEF n, first, last
  <2>1. \A i \in ActiveFirst' .. ActiveLast' :
          Active[i].id = Len(applied') + (i + 1 - ActiveFirst')
    <3>1. \A i \in first .. last : Active[i].id = n + (i + 1 - first)
      BY <1>4 DEF n, first, last
    <3>2. \A i \in first + 1 .. last :
            Active[i].id = n + 1 + (i + 1 - (first + 1))
      BY <2>0, <3>1
    <3> QED
      BY <2>0, <3>2
  <2>3. accepted' = Len(applied') + (ActiveLast' + 1 - ActiveFirst')
    <3>1. accepted = n + (last + 1 - first)
      BY <1>3, Counted DEF Always, InStep, Order, n, first, last
    <3>2. accepted' = accepted
      BY DEF CommitOp
    <3> QED
      BY <2>0, <3>1, <3>2
  <2> QED
    BY <1>1, <1>2, <1>3, <1>6, <2>1, <2>3, Counted DEF Order
<1> QED
  BY <1>8, <1>9 DEF InStep

LEMMA EmptiedOps ==
  ASSUME TransactionsAssumption, TypeOK, NEW b \in BatchIds,
         transactionBatches' = [transactionBatches EXCEPT ![b] = Emptied(@)]
  PROVE  /\ transactionBatches' \in [BatchIds -> Batch]
         /\ transactionBatches'[b].ops = <<>>
         /\ \A c \in BatchIds : c # b =>
              transactionBatches'[c] = transactionBatches[c]
         /\ \A c \in BatchIds :
              /\ Len(transactionBatches'[c].ops) <= MaxTransactions
              /\ transactionBatches'[c].dataSize <= DataSize
<1>1. transactionBatches \in [BatchIds -> Batch]
  BY DEF TypeOK
<1>2. transactionBatches[b] \in Batch
  BY <1>1
<1>3. /\ transactionBatches'[b] = Emptied(transactionBatches[b])
      /\ \A c \in BatchIds : c # b =>
           transactionBatches'[c] = transactionBatches[c]
      /\ DOMAIN transactionBatches' = BatchIds
  BY <1>1
<1>4. /\ Emptied(transactionBatches[b]) \in Batch
      /\ Emptied(transactionBatches[b]).ops = <<>>
      /\ Emptied(transactionBatches[b]).dataSize = 0
  BY <1>2, BatchType
<1>5. transactionBatches' \in [BatchIds -> Batch]
  BY <1>1, <1>2, <1>4
<1>6. \A c \in BatchIds :
        /\ Len(transactionBatches'[c].ops) <= MaxTransactions
        /\ transactionBatches'[c].dataSize <= DataSize
  BY <1>3, <1>4 DEF TypeOK, TransactionsAssumption
<1> QED
  BY <1>3, <1>4, <1>5, <1>6

\* The commit has reached its count: nothing of the batch is owed, whatever
\* handlers staged behind it.
LEMMA EndCommitInStep ==
  ASSUME TransactionsAssumption, Always, InStep, EndCommit
  PROVE  InStep'
<1>1. /\ activeBatchIndex \in BatchIds /\ ReadyIndex \in BatchIds
      /\ ReadyIndex # activeBatchIndex /\ ReadyIndex' = ReadyIndex
  BY Counted DEF EndCommit, ReadyIndex
<1>2. /\ transactionBatches' \in [BatchIds -> Batch]
      /\ transactionBatches'[activeBatchIndex].ops = <<>>
      /\ transactionBatches'[ReadyIndex] = transactionBatches[ReadyIndex]
      /\ \A c \in BatchIds :
           /\ Len(transactionBatches'[c].ops) <= MaxTransactions
           /\ transactionBatches'[c].dataSize <= DataSize
  BY <1>1, EmptiedOps DEF EndCommit, Always, InStep
<1>3. /\ Ready = <<>> /\ Ready' = <<>> /\ Active' = <<>>
      /\ ReadyFirst = 1 /\ ReadyFirst' = 1
      /\ ~worker.reading /\ worker' = worker
  BY <1>1, <1>2 DEF EndCommit, Always, InStep, LoopsOK, Ready, Active, ReadyFirst
<1>4. /\ ActiveFirst = committing.next /\ ActiveLast = committing.count
      /\ committing.next = committing.count + 1
      /\ committing.count \in Nat
      /\ ActiveFirst' = 1 /\ ActiveLast' = Len(Active')
  BY DEF EndCommit, Always, InStep, TypeOK, LoopsOK, ActiveFirst, ActiveLast
<1>6. LoopsOK'
  BY <1>3 DEF EndCommit, InStep, LoopsOK
<1>7. Order'
  <2>1. accepted = Len(applied)
    <3>1. accepted = Len(applied) + (Len(Ready) + 1 - ReadyFirst)
                       + (ActiveLast + 1 - ActiveFirst)
      BY DEF Always, InStep, Order
    <3>2. Len(Ready) = 0 /\ Len(applied) \in Nat
      BY <1>3, Counted
    <3> QED
      BY <1>3, <1>4, <3>1, <3>2
  <2>2. \A i \in 1 .. Len(applied) : applied[i] = i
    BY DEF Always, InStep, Order
  <2>3. applied' = applied /\ accepted' = accepted /\ Len(applied) \in Nat
    BY Counted DEF EndCommit, history
  <2> QED
    BY <1>3, <1>4, <2>1, <2>2, <2>3 DEF Order
<1> QED
  BY <1>6, <1>7 DEF InStep

\* The batches change places.  The one that is emptied is empty, as long as
\* the worker was done with it.
LEMMA SwapInStep ==
  ASSUME TransactionsAssumption, Always, InStep, WorkerDone,
         SwapTransactionBatches
  PROVE  InStep'
<1>1. /\ activeBatchIndex \in BatchIds /\ ReadyIndex \in BatchIds
      /\ ReadyIndex # activeBatchIndex
      /\ activeBatchIndex' = ReadyIndex /\ ReadyIndex' = activeBatchIndex
  BY Counted DEF SwapTransactionBatches, ReadyIndex
<1>2. /\ transactionBatches' \in [BatchIds -> Batch]
      /\ transactionBatches'[ReadyIndex].ops = <<>>
      /\ transactionBatches'[activeBatchIndex]
           = transactionBatches[activeBatchIndex]
      /\ \A c \in BatchIds :
           /\ Len(transactionBatches'[c].ops) <= MaxTransactions
           /\ transactionBatches'[c].dataSize <= DataSize
  BY <1>1, EmptiedOps DEF SwapTransactionBatches, Swapped, Always, InStep
<1>3. /\ ~worker.reading /\ worker' = worker
      /\ Ready = <<>> /\ Ready' = Active /\ Active' = <<>>
      /\ ReadyFirst = 1 /\ ReadyFirst' = 1
      /\ ActiveFirst = 1 /\ ActiveFirst' = 1
      /\ ActiveLast = Len(Active) /\ ActiveLast' = Len(Active')
  BY <1>1, <1>2 DEF SwapTransactionBatches, WorkerDone, Ready, Active,
                    ReadyFirst, ActiveFirst, ActiveLast
<1>5. LoopsOK'
  BY <1>3 DEF SwapTransactionBatches, WorkerDone, InStep, LoopsOK
<1>6. Order'
  <2>1. /\ \A i \in 1 .. Len(applied) : applied[i] = i
        /\ \A i \in 1 .. Len(Active) : Active[i].id = Len(applied) + i
        /\ accepted = Len(applied) + Len(Active)
    BY <1>3, Counted DEF Always, InStep, Order
  <2>2. /\ applied' = applied /\ accepted' = accepted
        /\ Len(applied) \in Nat /\ Len(Active) \in Nat
    BY Counted DEF SwapTransactionBatches
  <2> QED
    BY <1>3, <2>1, <2>2 DEF Order
<1> QED
  BY <1>5, <1>6 DEF InStep

LEMMA GetReadyBatchInStep ==
  ASSUME Always, InStep, GetReadyBatch
  PROVE  InStep'
<1>1. /\ Ready' = Ready /\ Active' = Active /\ ReadyIndex' = ReadyIndex
      /\ ReadyFirst = 1 /\ ReadyFirst' = 1
      /\ ActiveFirst' = ActiveFirst /\ ActiveLast' = ActiveLast
  BY DEF GetReadyBatch, batches, host, Ready, Active, ReadyIndex, ReadyFirst,
         ActiveFirst, ActiveLast
<1>2. LoopsOK'
  BY <1>1, Counted DEF GetReadyBatch, host, InStep, LoopsOK
<1>3. Order'
  BY <1>1 DEF GetReadyBatch, history, InStep, Order
<1> QED
  BY <1>2, <1>3 DEF InStep

\* The worker of a batch that is still its own reads the operation of it.
LEMMA FetchOpInStep ==
  ASSUME Always, InStep, FetchOp
  PROVE  InStep'
<1>1. /\ Ready' = Ready /\ Active' = Active /\ ReadyIndex' = ReadyIndex
      /\ ActiveFirst' = ActiveFirst /\ ActiveLast' = ActiveLast
      /\ worker.reading /\ worker.batch = ReadyIndex
      /\ worker.next \in 1 .. Len(Ready)
  BY Counted DEF FetchOp, batches, host, InStep, LoopsOK, Ready, Active,
     ReadyIndex, ActiveFirst, ActiveLast
<1>2. /\ worker'.reading /\ worker'.batch = ReadyIndex
      /\ worker'.next = worker.next /\ worker'.held = Ready[worker.next]
  BY <1>1 DEF FetchOp, Ready, Always, TypeOK
<1>3. ReadyFirst' = ReadyFirst
  BY <1>1, <1>2 DEF ReadyFirst
<1>4. LoopsOK'
  BY <1>1, <1>2, Counted DEF FetchOp, host, InStep, LoopsOK
<1>5. Order'
  BY <1>1, <1>3 DEF FetchOp, history, InStep, Order
<1> QED
  BY <1>4, <1>5 DEF InStep

LEMMA WorkOpInStep ==
  ASSUME Always, InStep, WorkOp
  PROVE  InStep'
<1>1. /\ Ready' = Ready /\ Active' = Active /\ ReadyIndex' = ReadyIndex
      /\ ActiveFirst' = ActiveFirst /\ ActiveLast' = ActiveLast
      /\ worker.batch = ReadyIndex /\ worker.reading
  BY DEF WorkOp, batches, host, InStep, LoopsOK, Ready, Active, ReadyIndex,
         ActiveFirst, ActiveLast
<1>2. /\ worker.next \in Nat \ {0} /\ worker.next <= Len(Ready)
      /\ worker.held = Ready[worker.next]
  BY Counted DEF WorkOp, InStep, LoopsOK
<1>3. /\ worker'.reading = worker.reading /\ worker'.batch = worker.batch
      /\ worker'.next = worker.next + 1 /\ worker'.held = NoOp
  BY DEF WorkOp, Always, TypeOK
<1>4. ReadyFirst = worker.next /\ ReadyFirst' = worker.next + 1
  BY <1>1, <1>3 DEF ReadyFirst
<1>5. \A i \in ReadyFirst .. Len(Ready) :
        Ready[i].id = Len(applied) + (i + 1 - ReadyFirst)
  BY DEF Always, InStep, Order
<1>6. /\ applied' = Append(applied, Ready[worker.next].id)
      /\ Ready[worker.next].id = Len(applied) + 1
  <2>1. Ready[worker.next].id = Len(applied) + (worker.next + 1 - ReadyFirst)
    <3>1. worker.next \in ReadyFirst .. Len(Ready)
      BY <1>2, <1>4, Counted
    <3> QED
      BY <1>5, <3>1
  <2> QED
    BY <1>2, <1>4, <2>1, Counted DEF WorkOp
<1>7. /\ applied' \in Seq(Nat) /\ Len(applied') = Len(applied) + 1
      /\ \A i \in 1 .. Len(applied') : applied'[i] = i
  BY <1>6, HandedOver DEF Always, InStep, TypeOK, Order
<1>9. LoopsOK'
  <2>1. worker'.next \in 1 .. Len(Ready) + 1
    BY <1>2, <1>3, Counted
  <2>2. UNCHANGED <<phase, hook, committing>>
    BY DEF WorkOp, host
  <2> QED
    BY <1>1, <1>3, <2>1, <2>2 DEF InStep, LoopsOK
<1>10. Order'
  <2> DEFINE n == Len(applied)
             first == ReadyFirst
             last == Len(Ready)
             owed == ActiveLast + 1 - ActiveFirst
  <2>1. /\ n \in Nat /\ first \in Nat /\ last \in Nat /\ owed \in Int
        /\ Len(applied') = n + 1
        /\ ReadyFirst' = first + 1 /\ Len(Ready') = last
        /\ ActiveLast' + 1 - ActiveFirst' = owed
    BY <1>1, <1>4, <1>7, Counted
  <2>2. /\ \A i \in first .. last : Ready[i].id = n + (i + 1 - first)
        /\ \A i \in ActiveFirst .. ActiveLast :
             Active[i].id = n + (last + 1 - first) + (i + 1 - ActiveFirst)
        /\ accepted = n + (last + 1 - first) + owed
    BY DEF Always, InStep, Order, n, first, last, owed
  <2>3. ActiveFirst \in Nat /\ ActiveLast \in Nat /\ accepted' = accepted
    BY Counted DEF WorkOp
  <2> HIDE DEF n, first, last, owed
  <2>4. \A i \in first + 1 .. last :
          Ready[i].id = n + 1 + (i + 1 - (first + 1))
    BY <2>1, <2>2
  <2>5. n + 1 + (last + 1 - (first + 1)) = n + (last + 1 - first)
    BY <2>1
  <2>6. /\ \A i \in ActiveFirst .. ActiveLast :
             Active[i].id = n + 1 + (last + 1 - (first + 1))
                              + (i + 1 - ActiveFirst)
        /\ accepted' = n + 1 + (last + 1 - (first + 1)) + owed
    BY <2>2, <2>3, <2>5
  <2> QED
    BY <1>1, <1>7, <2>1, <2>4, <2>6 DEF Order
<1> QED
  BY <1>9, <1>10 DEF InStep

\* The worker is done with its batch.  It clears the ready one, which is the
\* same: nobody has swapped meanwhile.
LEMMA ClearReadyBatchInStep ==
  ASSUME TransactionsAssumption, Always, InStep, ClearReadyBatch
  PROVE  InStep'
<1>1. /\ activeBatchIndex \in BatchIds /\ ReadyIndex \in BatchIds
      /\ ReadyIndex # activeBatchIndex /\ ReadyIndex' = ReadyIndex
      /\ worker.reading /\ worker.batch = ReadyIndex
  BY Counted DEF ClearReadyBatch, ReadyIndex, Always, InStep, LoopsOK
<1>2. /\ transactionBatches' \in [BatchIds -> Batch]
      /\ transactionBatches'[ReadyIndex].ops = <<>>
      /\ transactionBatches'[activeBatchIndex]
           = transactionBatches[activeBatchIndex]
      /\ \A c \in BatchIds :
           /\ Len(transactionBatches'[c].ops) <= MaxTransactions
           /\ transactionBatches'[c].dataSize <= DataSize
  BY <1>1, EmptiedOps DEF ClearReadyBatch, Always, InStep
<1>3. ~worker'.reading /\ worker'.held = NoOp
  BY DEF ClearReadyBatch, Always, TypeOK
<1>4. /\ Ready' = <<>> /\ Active' = Active /\ ReadyFirst' = 1
      /\ ReadyFirst = Len(Ready) + 1
      /\ ActiveFirst' = ActiveFirst /\ ActiveLast' = ActiveLast
  <2>1. Ready' = <<>> /\ Active' = Active /\ ReadyFirst' = 1
    BY <1>1, <1>2, <1>3 DEF ClearReadyBatch, Ready, Active, ReadyFirst
  <2>2. ReadyFirst = Len(Ready) + 1
    <3>1. worker.next > Len(Ready) /\ ReadyFirst = worker.next
      BY <1>1 DEF ClearReadyBatch, ReadyFirst, Ready
    <3> QED
      BY <3>1, Counted
  <2>3. ActiveFirst' = ActiveFirst /\ ActiveLast' = ActiveLast
    BY <2>1 DEF ClearReadyBatch, host, ActiveFirst, ActiveLast
  <2> QED
    BY <2>1, <2>2, <2>3
<1>6. LoopsOK'
  BY <1>3, <1>4 DEF ClearReadyBatch, host, InStep, LoopsOK
<1>7. Order'
  <2>1. /\ Len(Ready) + 1 - ReadyFirst = 0 /\ Len(Ready') + 1 - ReadyFirst' = 0
        /\ Len(Ready') = 0
    BY <1>4, Counted
  <2>2. applied' = applied /\ accepted' = accepted
    BY DEF ClearReadyBatch, history
  <2> QED
    BY <1>4, <2>1, <2>2 DEF InStep, Order
<1> QED
  BY <1>6, <1>7 DEF InStep

\* Staging outside a handler owes one operation more, at the end of the
\* active batch; staging inside one owes none.
LEMMA StageInStep ==
  ASSUME TransactionsAssumption, Always, InStep, NEW size \in Nat, Stage(size)
  PROVE  InStep'
<1> DEFINE a == activeBatchIndex
           id == IF phase = "committing" THEN 0 ELSE accepted + 1
           new == WithOp(transactionBatches[a], id, size)
<1>1. /\ a \in BatchIds /\ transactionBatches[a] \in Batch /\ id \in Nat
      /\ ReadyIndex \in BatchIds /\ ReadyIndex # a /\ ReadyIndex' = ReadyIndex
  BY Counted DEF Stage, ReadyIndex, Always, InStep, TypeOK
<1> HIDE DEF id
<1>2. UNCHANGED <<activeBatchIndex, hook, phase, committing, worker, applied>>
  BY DEF Stage, host
<1>3. /\ new \in Batch
      /\ Len(new.ops) = Len(transactionBatches[a].ops) + 1
      /\ new.ops[Len(transactionBatches[a].ops) + 1].id = id
      /\ \A i \in 1 .. Len(transactionBatches[a].ops) :
           new.ops[i] = transactionBatches[a].ops[i]
  <2> DEFINE batch == transactionBatches[a]
  <2>1. batch \in Batch /\ id \in Nat
    BY <1>1
  <2> HIDE DEF batch
  <2>2. /\ WithOp(batch, id, size) \in Batch
        /\ Len(WithOp(batch, id, size).ops) = Len(batch.ops) + 1
        /\ WithOp(batch, id, size).ops[Len(batch.ops) + 1].id = id
        /\ \A i \in 1 .. Len(batch.ops) :
             WithOp(batch, id, size).ops[i] = batch.ops[i]
    BY <2>1, WithOpType
  <2> QED
    BY <2>2, Zenon DEF batch
<1>5. /\ transactionBatches' = [transactionBatches EXCEPT ![a] = new]
      /\ phase = "committing" => accepted' = accepted
      /\ phase # "committing" => accepted' = accepted + 1
  BY DEF Stage, id
<1> HIDE DEF new
<1>6. /\ transactionBatches' \in [BatchIds -> Batch]
      /\ transactionBatches'[a] = new
      /\ \A c \in BatchIds : c # a =>
           transactionBatches'[c] = transactionBatches[c]
  BY <1>1, <1>3, <1>5 DEF Always, InStep, TypeOK
<1>9. /\ Ready' = Ready /\ ReadyFirst' = ReadyFirst
      /\ ActiveFirst' = ActiveFirst
      /\ Active' = new.ops
      /\ Len(Active') = Len(Active) + 1
      /\ Active'[Len(Active) + 1].id = id
      /\ \A i \in 1 .. Len(Active) : Active'[i] = Active[i]
  BY <1>1, <1>2, <1>3, <1>6 DEF Ready, Active, ReadyFirst, ActiveFirst
<1>10. LoopsOK'
  <2>1. phase = "committing" => committing.count <= Len(Active) + 1
    BY Counted DEF Always, InStep, LoopsOK, TypeOK
  <2> QED
    BY <1>1, <1>2, <1>9, <2>1 DEF Always, InStep, LoopsOK
<1> DEFINE n == Len(applied)
           r == Len(Ready) + 1 - ReadyFirst
           first == ActiveFirst
           last == ActiveLast
<1>11. /\ n \in Nat /\ r \in Int /\ first \in Nat \ {0} /\ last \in Nat
       /\ last <= Len(Active) /\ Len(Active) \in Nat
       /\ \A i \in first .. last : Active[i].id = n + r + (i + 1 - first)
       /\ accepted = n + r + (last + 1 - first)
  <2>1. /\ \A i \in first .. last : Active[i].id = n + r + (i + 1 - first)
        /\ accepted = n + r + (last + 1 - first)
    BY DEF InStep, Order
  <2> QED
    BY <2>1, Counted
<1>12. /\ \A i \in 1 .. Len(applied') : applied'[i] = i
       /\ \A i \in ReadyFirst' .. Len(Ready') :
            Ready'[i].id = Len(applied') + (i + 1 - ReadyFirst')
  BY <1>2, <1>9 DEF Always, InStep, Order
<1>13. Len(applied') = n /\ Len(Ready') + 1 - ReadyFirst' = r
       /\ ActiveFirst' = first
  BY <1>2, <1>9
<1>14. /\ \A i \in first .. ActiveLast' :
            Active'[i].id = n + r + (i + 1 - first)
       /\ accepted' = n + r + (ActiveLast' + 1 - first)
  <2>1. CASE phase = "committing"
    <3>1. ActiveLast' = last
      BY <1>2, <2>1 DEF ActiveLast
    <3> HIDE DEF n, r, first, last
    <3>2. \A i \in first .. last : Active'[i] = Active[i]
      <4>1. \A i \in first .. last : i \in 1 .. Len(Active)
        BY <1>11
      <4> QED
        BY <1>9, <4>1
    <3> QED
      BY <1>5, <1>11, <2>1, <3>1, <3>2
  <2>2. CASE phase # "committing"
    <3>1. /\ last = Len(Active) /\ first = 1 /\ ActiveLast' = last + 1
          /\ id = accepted + 1
      BY <1>2, <1>9, <2>2 DEF ActiveLast, ActiveFirst, id
    <3> HIDE DEF n, r, first, last
    <3>2. \A i \in 1 .. last :
            Active'[i].id = n + r + (i + 1 - first)
      BY <1>9, <1>11, <3>1
    <3>3. Active'[last + 1].id = n + r + (last + 1 + 1 - first)
      BY <1>9, <1>11, <3>1
    <3>4. \A i \in first .. last + 1 :
            Active'[i].id = n + r + (i + 1 - first)
      BY <1>11, <3>1, <3>2, <3>3
    <3> QED
      BY <1>5, <1>11, <2>2, <3>1, <3>4
  <2> QED
    BY <2>1, <2>2
<1>15. Order'
  <2> HIDE DEF n, r, first, last
  <2> QED
    BY <1>12, <1>13, <1>14 DEF Order
<1> QED
  BY <1>10, <1>15 DEF InStep

-----------------------------------------------------------------------------

\* What the types say without the order.
LEMMA BatchesTyped ==
  ASSUME Always
  PROVE  /\ activeBatchIndex \in BatchIds /\ ReadyIndex \in BatchIds
         /\ ReadyIndex # activeBatchIndex /\ 1 - ReadyIndex = activeBatchIndex
         /\ transactionBatches[activeBatchIndex] \in Batch
         /\ transactionBatches[ReadyIndex] \in Batch
         /\ \A b \in BatchIds :
              /\ transactionBatches[b].ops \in Seq(Op)
              /\ Len(transactionBatches[b].ops) \in Nat
         /\ Active \in Seq(Op) /\ Len(Active) \in Nat
<1>1. /\ activeBatchIndex \in BatchIds /\ ReadyIndex \in BatchIds
      /\ ReadyIndex # activeBatchIndex /\ 1 - ReadyIndex = activeBatchIndex
  BY TwoBatches DEF Always, TypeOK
<1>2. \A b \in BatchIds : transactionBatches[b] \in Batch
  BY DEF Always, TypeOK
<1>3. \A b \in BatchIds : transactionBatches[b].ops \in Seq(Op)
  BY <1>2 DEF Batch
<1> QED
  BY <1>1, <1>2, <1>3 DEF Active

LEMMA StageAlways ==
  ASSUME TransactionsAssumption, Always, NEW size \in Nat, Stage(size)
  PROVE  Always'
<1> DEFINE a == activeBatchIndex
           batch == transactionBatches[a]
           id == IF phase = "committing" THEN 0 ELSE accepted + 1
           new == WithOp(batch, id, size)
<1>1. /\ a \in BatchIds /\ batch \in Batch /\ id \in Nat
      /\ Len(batch.ops) \in Nat /\ batch.dataSize \in Nat
  <2>1. a \in BatchIds /\ batch \in Batch
    BY BatchesTyped
  <2>2. Len(batch.ops) \in Nat /\ batch.dataSize \in Nat
    BY <2>1 DEF Batch
  <2>3. id \in Nat
    BY DEF Always, TypeOK
  <2> HIDE DEF a, batch, id
  <2> QED
    BY <2>1, <2>2, <2>3
<1> HIDE DEF id
<1>2. /\ new \in Batch /\ Len(new.ops) = Len(batch.ops) + 1
  <2> HIDE DEF batch
  <2> QED
    BY <1>1, WithOpType
<1>3. new.dataSize = batch.dataSize + size
  BY DEF WithOp
<1>4. /\ transactionBatches' = [transactionBatches EXCEPT ![a] = new]
      /\ Len(batch.ops) < MaxTransactions
      /\ batch.dataSize + size <= DataSize
      /\ accepted' \in Nat
  BY DEF Stage, HasRoom, id, Always, TypeOK
<1> HIDE DEF new
<1>5. /\ transactionBatches' \in [BatchIds -> Batch]
      /\ transactionBatches'[a] = new
      /\ \A c \in BatchIds : c # a =>
           transactionBatches'[c] = transactionBatches[c]
  BY <1>1, <1>2, <1>4 DEF Always, TypeOK
<1>6. \A c \in BatchIds :
        /\ Len(transactionBatches'[c].ops) <= MaxTransactions
        /\ transactionBatches'[c].dataSize <= DataSize
  <2>1. Len(new.ops) <= MaxTransactions /\ new.dataSize <= DataSize
    BY <1>1, <1>2, <1>3, <1>4 DEF TransactionsAssumption
  <2> QED
    BY <1>5, <2>1 DEF Always, TypeOK
<1>7. UNCHANGED <<activeBatchIndex, host, worker, applied, overrun>>
  BY DEF Stage
<1>8. TypeOK'
  BY <1>4, <1>5, <1>6, <1>7 DEF host, Always, TypeOK
<1>9. Places'
  <2>1. Len(Active') = Len(Active) + 1 /\ Len(Active) \in Nat
    BY <1>1, <1>2, <1>5, <1>7 DEF Active
  <2>2. phase = "committing" =>
          committing.count <= Len(Active) /\ committing.count \in Nat
    BY DEF Always, Places, TypeOK
  <2>3. phase = "committing" => committing.count <= Len(Active')
    BY <2>1, <2>2
  <2> QED
    BY <1>7, <2>3 DEF host, Always, Places
<1> QED
  BY <1>8, <1>9 DEF Always

\* Emptying the batch of the worker, or any batch when no commit is running.
LEMMA EmptiedAlways ==
  ASSUME TransactionsAssumption, Always, NEW b \in BatchIds,
         transactionBatches' = [transactionBatches EXCEPT ![b] = Emptied(@)],
         \/ phase' = "idle"
         \/ b = ReadyIndex /\ UNCHANGED <<phase, activeBatchIndex>>,
         activeBatchIndex' \in BatchIds,
         phase' \in {"idle", "composing", "committing"},
         \/ worker' = worker
         \/ worker' = [worker EXCEPT !.reading = FALSE],
         overrun' \in BOOLEAN,
         UNCHANGED <<hook, wanted, committing, accepted, applied>>
  PROVE  Always'
<1>1. /\ transactionBatches' \in [BatchIds -> Batch]
      /\ \A c \in BatchIds : c # b =>
           transactionBatches'[c] = transactionBatches[c]
      /\ \A c \in BatchIds :
           /\ Len(transactionBatches'[c].ops) <= MaxTransactions
           /\ transactionBatches'[c].dataSize <= DataSize
  BY EmptiedOps DEF Always
<1>2. /\ worker' \in [reading : BOOLEAN, batch : BatchIds, next : Nat,
                      held : {NoOp} \cup Op]
      /\ worker'.next = worker.next
  BY DEF Always, TypeOK
<1>3. TypeOK'
  BY <1>1, <1>2 DEF Always, TypeOK
<1>4. phase' = "committing" => Active' = Active /\ phase = "committing"
  BY <1>1, BatchesTyped DEF Active
<1> QED
  BY <1>2, <1>3, <1>4 DEF Always, Places

\* A step of the host or of the worker that leaves the batches alone.
LEMMA LoopAlways ==
  ASSUME Always,
         \/ BeginCommit \/ CommitOp
         \/ GetReadyBatch \/ FetchOp \/ WorkOp
  PROVE  Always'
<1>1. CASE BeginCommit
  <2>1. Active' = Active /\ committing'.next = 1
        /\ committing'.count = Len(Active)
        /\ committing' \in [next : Nat, count : Nat]
    BY <1>1, BatchesTyped DEF BeginCommit, batches, Active
  <2>2. TypeOK'
    BY <1>1, <2>1 DEF BeginCommit, batches, history, Always, TypeOK
  <2> QED
    BY <1>1, <2>1, <2>2, BatchesTyped DEF BeginCommit, Always, Places
<1>2. CASE CommitOp
  <2>1. /\ committing.next \in 1 .. Len(Active)
        /\ applied' = Append(applied, Active[committing.next].id)
    BY <1>2, BatchesTyped DEF CommitOp, Always, TypeOK, Places, Active
  <2>2. Active[committing.next].id \in Nat
    <3>1. Active[committing.next] \in Op
      BY <2>1, BatchesTyped
    <3> QED
      BY <3>1 DEF Op
  <2>3. applied' \in Seq(Nat)
    BY <2>1, <2>2 DEF Always, TypeOK
  <2>4. /\ committing' \in [next : Nat, count : Nat]
        /\ committing'.next = committing.next + 1
        /\ committing'.count = committing.count
    BY <1>2 DEF CommitOp, Always, TypeOK
  <2>5. TypeOK'
    BY <1>2, <2>3, <2>4 DEF CommitOp, batches, Always, TypeOK
  <2>6. Active' = Active /\ UNCHANGED <<phase, worker>>
    BY <1>2 DEF CommitOp, batches, Active
  <2> QED
    BY <2>1, <2>4, <2>5, <2>6, BatchesTyped DEF Always, Places
<1>3. CASE GetReadyBatch \/ FetchOp \/ WorkOp
  <2>1. /\ worker' \in [reading : BOOLEAN, batch : BatchIds, next : Nat,
                        held : {NoOp} \cup Op]
        /\ worker'.next >= 1
        /\ applied' \in Seq(Nat)
    <3>1. CASE GetReadyBatch
      BY <3>1, BatchesTyped DEF GetReadyBatch, history, Always, TypeOK
    <3>2. CASE FetchOp
      <4>1. worker.batch \in BatchIds /\ worker.next \in Nat \ {0}
        BY DEF Always, TypeOK, Places
      <4>2. transactionBatches[worker.batch].ops[worker.next] \in Op
        BY <3>2, <4>1, BatchesTyped DEF FetchOp
      <4> QED
        BY <3>2, <4>1, <4>2 DEF FetchOp, history, Always, TypeOK
    <3>3. CASE WorkOp
      <4>1. worker.held \in Op /\ worker.next \in Nat \ {0}
        BY <3>3 DEF WorkOp, Always, TypeOK, Places
      <4>2. worker.held.id \in Nat
        BY <4>1 DEF Op
      <4>3. applied' \in Seq(Nat)
        BY <3>3, <4>2 DEF WorkOp, Always, TypeOK
      <4>4. worker' = [worker EXCEPT !.next = @ + 1, !.held = NoOp]
        BY <3>3 DEF WorkOp
      <4>5. /\ worker' \in [reading : BOOLEAN, batch : BatchIds, next : Nat,
                            held : {NoOp} \cup Op]
            /\ worker'.next = worker.next + 1
        <5>1. worker \in [reading : BOOLEAN, batch : BatchIds, next : Nat,
                          held : {NoOp} \cup Op]
          BY DEF Always, TypeOK
        <5>2. worker.next + 1 \in Nat
          BY <4>1
        <5> QED
          BY <4>4, <5>1, <5>2
      <4> QED
        BY <4>1, <4>3, <4>5
    <3> QED
      BY <1>3, <3>1, <3>2, <3>3
  <2>2. UNCHANGED <<batches, host, accepted, overrun>>
    BY <1>3 DEF GetReadyBatch, FetchOp, WorkOp, history
  <2>3. TypeOK'
    BY <2>1, <2>2 DEF batches, host, Always, TypeOK
  <2> QED
    BY <2>1, <2>2, <2>3 DEF batches, host, Always, Places, Active
<1> QED
  BY <1>1, <1>2, <1>3

\* The steps that only decide what the host does next.
Decide ==
  \/ \E h \in {"commit", "swap"} : SetPostRecomposeHook(h)
  \/ Invalidate \/ BeginRecompose \/ AbandonRecompose \/ FinishRecompose

LEMMA Decided ==
  ASSUME Always, Decide
  PROVE  /\ phase # "committing" \/ phase' = phase
         /\ phase' \in {"idle", "composing", phase}
         /\ hook' = hook \/ hook = "none"
         /\ hook' \in {"none", "commit", "swap"}
         /\ wanted' \in BOOLEAN
         /\ UNCHANGED <<batches, committing, worker, history>>
BY DEF Decide, SetPostRecomposeHook, Invalidate, BeginRecompose,
       AbandonRecompose, FinishRecompose, Always, TypeOK

LEMMA AlwaysNext ==
  ASSUME TransactionsAssumption, Always, [Next]_vars
  PROVE  Always'
<1> USE DEF EndOfFrame, Work
<1>1. CASE \E size \in 0 .. DataSize : StageSet(size) \/ StageCustom(size)
  BY <1>1, StageAlways DEF StageSet, StageCustom, TransactionsAssumption
<1>2. CASE StageRemove \/ StageDelete
  BY <1>2, StageAlways DEF StageRemove, StageDelete
<1>3. CASE Decide
  <2>1. Active' = Active
    BY <1>3, Decided DEF batches, Active
  <2>2. TypeOK'
    BY <1>3, Decided DEF batches, history, Always, TypeOK
  <2> QED
    BY <1>3, <2>1, <2>2, Decided DEF Always, Places
<1>4. CASE BeginCommit \/ CommitOp \/ GetReadyBatch \/ FetchOp \/ WorkOp
  BY <1>4, LoopAlways
<1>5. CASE EndCommit
  BY <1>5, EmptiedAlways, BatchesTyped DEF EndCommit, history, Always, TypeOK
<1>6. CASE SwapTransactionBatches
  <2>1. overrun' \in BOOLEAN
    BY <1>6, Zenon DEF SwapTransactionBatches
  <2> QED
    BY <1>6, <2>1, EmptiedAlways, BatchesTyped DEF SwapTransactionBatches, Swapped
<1>7. CASE ClearReadyBatch
  BY <1>7, EmptiedAlways, BatchesTyped
     DEF ClearReadyBatch, host, history, Always, TypeOK
<1>8. CASE UNCHANGED vars
  BY <1>8 DEF vars, batches, host, history, Always, TypeOK, Places, Active
<1> QED
  BY <1>1, <1>2, <1>3, <1>4, <1>5, <1>6, <1>7, <1>8 DEF Next, Decide

\* Without an overrun, the step before had none either, and the order stays.
LEMMA InStepNext ==
  ASSUME TransactionsAssumption, Always, InStep, ~overrun', [Next]_vars
  PROVE  InStep'
<1> USE DEF EndOfFrame, Work
<1>1. CASE \E size \in 0 .. DataSize : StageSet(size) \/ StageCustom(size)
  BY <1>1, StageInStep DEF StageSet, StageCustom, TransactionsAssumption
<1>2. CASE StageRemove \/ StageDelete
  BY <1>2, StageInStep DEF StageRemove, StageDelete
<1>3. CASE Decide
  <2>1. CASE phase # "committing"
    BY <1>3, <2>1, Decided, QuietInStep DEF batches, history
  <2>2. CASE phase = "committing"
    <3>1. UNCHANGED <<batches, hook, phase, committing, worker, history>>
      BY <1>3, <2>2 DEF Decide, SetPostRecomposeHook, Invalidate,
         BeginRecompose, AbandonRecompose, FinishRecompose
    <3> QED
      BY <3>1 DEF batches, history, InStep, LoopsOK, Order, Ready, Active,
         ReadyIndex, ReadyFirst, ActiveFirst, ActiveLast
  <2> QED
    BY <2>1, <2>2
<1>5. CASE BeginCommit
  BY <1>5, BeginCommitInStep
<1>6. CASE CommitOp
  BY <1>6, CommitOpInStep
<1>7. CASE EndCommit
  BY <1>7, EndCommitInStep
<1>8. CASE SwapTransactionBatches
  <2>1. WorkerDone
    BY <1>8, Zenon DEF SwapTransactionBatches
  <2> QED
    BY <1>8, <2>1, SwapInStep
<1>9. CASE GetReadyBatch
  BY <1>9, GetReadyBatchInStep
<1>10. CASE FetchOp
  BY <1>10, FetchOpInStep
<1>11. CASE WorkOp
  BY <1>11, WorkOpInStep
<1>12. CASE ClearReadyBatch
  BY <1>12, ClearReadyBatchInStep
<1>13. CASE UNCHANGED vars
  BY <1>13 DEF vars, batches, host, history, InStep, LoopsOK, Order, Ready,
               Active, ReadyIndex, ReadyFirst, ActiveFirst, ActiveLast
<1> QED
  BY <1>1, <1>2, <1>3, <1>5, <1>6, <1>7, <1>8, <1>9, <1>10, <1>11, <1>12,
     <1>13 DEF Next, Decide

\* The history of overruns is never forgotten.
LEMMA OverrunStays == ASSUME overrun, [Next]_vars PROVE overrun'
BY DEF Next, StageSet, StageCustom, StageRemove, StageDelete, Stage,
       SetPostRecomposeHook, Invalidate, BeginRecompose, AbandonRecompose,
       EndOfFrame, FinishRecompose, BeginCommit, SwapTransactionBatches,
       CommitOp, EndCommit, Work, GetReadyBatch, FetchOp, WorkOp,
       ClearReadyBatch, history, vars

-----------------------------------------------------------------------------

\* Inv is inductive.  Whatever the threads do, the loops have places and the
\* batches their types; and until a batch is taken from a busy worker, the
\* order of the operations goes with the places of the two loops that take
\* them out.
THEOREM TransactionsInvariance == Spec => []Inv
<1>1. Init => Inv
  BY InitInv, TransactionsAssumption
<1>2. Inv /\ [Next]_vars => Inv'
  <2> SUFFICES ASSUME Inv, [Next]_vars PROVE Inv'
    OBVIOUS
  <2>1. Always'
    BY AlwaysNext, TransactionsAssumption DEF Inv
  <2>2. CASE overrun'
    BY <2>1, <2>2 DEF Inv
  <2>3. CASE ~overrun'
    <3>1. Always /\ InStep
      BY <2>3, OverrunStays DEF Inv
    <3>2. InStep'
      BY <2>3, <3>1, InStepNext, TransactionsAssumption
    <3> QED
      BY <2>1, <3>2 DEF Inv
  <2> QED
    BY <2>2, <2>3
<1> QED
  BY <1>1, <1>2, PTL DEF Spec

\* The batches stay within their capacity, CELS_MAX_TRANSACTIONS operations
\* and CELS_TRANSACTION_DATA_SIZE bytes, whatever the host and the worker do.
THEOREM BatchesBounded == Spec => []TypeOK
<1>1. Spec => []Inv
  BY TransactionsInvariance
<1>2. Inv => TypeOK
  BY DEF Inv, Always
<1> QED
  BY <1>1, <1>2, PTL

\* CelsSessionCommitTransactions, CelsSessionSwapTransactionBatches and
\* CelsSessionClearReadyBatch together hand over each operation that staging
\* accepted once and in order, whatever the size of the batches, until a swap
\* takes a batch from a busy worker.  A host that commits never comes to that.
THEOREM OperationsInOrder == Spec => []AppliedInOrder
<1>1. Spec => []Inv
  BY TransactionsInvariance
<1>2. Inv => AppliedInOrder
  BY InvImplies
<1> QED
  BY <1>1, <1>2, PTL

-----------------------------------------------------------------------------

\* The bytes of each operation of a batch lie below dataSize and are those
\* that were copied in with it.
Intact(batch) ==
  \A i \in 1 .. Len(batch.ops) :
    /\ batch.ops[i].dataOffset + batch.ops[i].size <= batch.dataSize
    /\ \A k \in batch.ops[i].dataOffset
                  .. batch.ops[i].dataOffset + batch.ops[i].size - 1 :
         batch.data[k] = batch.ops[i].id

BatchesIntact == \A b \in BatchIds : Intact(transactionBatches[b])

\* A payload is copied in behind all others.
LEMMA WithOpIntact ==
  ASSUME TransactionsAssumption, NEW batch \in Batch, Intact(batch),
         NEW id \in Nat, NEW size \in Nat, HasRoom(batch, size)
  PROVE  Intact(WithOp(batch, id, size))
<1> DEFINE new == WithOp(batch, id, size)
           op == [id |-> id, size |-> size, dataOffset |-> batch.dataSize]
           length == Len(batch.ops)
<1>1. /\ batch.ops \in Seq(Op) /\ batch.dataSize \in Nat /\ length \in Nat
      /\ batch.data \in [0 .. DataSize - 1 -> Nat]
      /\ DataSize \in Nat /\ batch.dataSize + size <= DataSize
  BY DEF Batch, HasRoom, TransactionsAssumption
<1>1a. length \in Nat /\ batch.dataSize \in Nat /\ DataSize \in Nat
      /\ batch.dataSize + size <= DataSize
  BY <1>1
<1>2. op \in Op
  BY <1>1 DEF Op
<1>3. /\ new.ops = Append(batch.ops, op)
      /\ new.dataSize = batch.dataSize + size
      /\ \A k \in 0 .. DataSize - 1 :
           new.data[k] = IF batch.dataSize <= k /\ k < batch.dataSize + size
                         THEN id ELSE batch.data[k]
  BY DEF WithOp
<1>4. op.id = id /\ op.size = size /\ op.dataOffset = batch.dataSize
  OBVIOUS
<1> HIDE DEF new, op
<1>5. /\ Len(new.ops) = length + 1
      /\ new.ops[length + 1] = op
      /\ \A i \in 1 .. length : new.ops[i] = batch.ops[i]
  BY <1>1, <1>2, <1>3
<1>6. ASSUME NEW i \in 1 .. length
      PROVE  /\ new.ops[i].dataOffset + new.ops[i].size <= new.dataSize
             /\ \A k \in new.ops[i].dataOffset
                           .. new.ops[i].dataOffset + new.ops[i].size - 1 :
                  new.data[k] = new.ops[i].id
  <2> DEFINE old == batch.ops[i]
  <2>1. old \in Op /\ new.ops[i] = old
    BY <1>1, <1>5
  <2>2. /\ old.dataOffset \in Nat /\ old.size \in Nat
        /\ old.dataOffset + old.size <= batch.dataSize
    BY <2>1 DEF Op, Intact
  <2>2a. \A k \in old.dataOffset .. old.dataOffset + old.size - 1 :
          batch.data[k] = old.id
    BY <2>1 DEF Op, Intact
  <2> HIDE DEF old
  <2>3. \A k \in old.dataOffset .. old.dataOffset + old.size - 1 :
          k \in 0 .. DataSize - 1 /\ k < batch.dataSize
    <3> DEFINE from == old.dataOffset
               count == old.size
               filled == batch.dataSize
    <3>1. /\ from \in Nat /\ count \in Nat /\ filled \in Nat
          /\ from + count <= filled /\ filled + size <= DataSize
      BY <1>1a, <2>2
    <3> HIDE DEF from, count, filled
    <3>2. \A k \in from .. from + count - 1 :
            k \in 0 .. DataSize - 1 /\ k < filled
      BY <1>1a, <3>1
    <3> QED
      BY <3>2 DEF from, count, filled
  <2>4. \A k \in old.dataOffset .. old.dataOffset + old.size - 1 :
          new.data[k] = old.id
    BY <1>1, <1>3, <2>3, <2>2a
  <2>5. old.dataOffset + old.size <= new.dataSize
    BY <1>1a, <1>3, <2>2
  <2> QED
    BY <2>1, <2>4, <2>5
<1>7. /\ op.dataOffset + op.size <= new.dataSize
      /\ \A k \in op.dataOffset .. op.dataOffset + op.size - 1 :
           new.data[k] = op.id
  <2>1. \A k \in op.dataOffset .. op.dataOffset + op.size - 1 :
          /\ k \in 0 .. DataSize - 1
          /\ batch.dataSize <= k /\ k < batch.dataSize + size
    BY <1>1a, <1>4
  <2>2. op.dataOffset + op.size <= new.dataSize
    BY <1>1a, <1>3, <1>4
  <2>3. ASSUME NEW k \in op.dataOffset .. op.dataOffset + op.size - 1
        PROVE  new.data[k] = op.id
    BY <1>3, <1>4, <2>1
  <2> QED
    BY <2>2, <2>3
<1>8. \A i \in 1 .. length + 1 : i \in 1 .. length \/ i = length + 1
  BY <1>1a
<1> QED
  BY <1>5, <1>6, <1>7, <1>8 DEF Intact, new

LEMMA IntactNext ==
  ASSUME TransactionsAssumption, Always, BatchesIntact, [Next]_vars
  PROVE  BatchesIntact'
<1>1. CASE \E size \in 0 .. DataSize : Stage(size)
  <2> DEFINE id == IF phase = "committing" THEN 0 ELSE accepted + 1
  <2>1. PICK size \in 0 .. DataSize : Stage(size)
    BY <1>1
  <2>2. size \in Nat /\ id \in Nat
    BY DEF Always, TypeOK, TransactionsAssumption
  <2>3. HasRoom(transactionBatches[activeBatchIndex], size)
    BY <2>1 DEF Stage
  <2>4. Intact(WithOp(transactionBatches[activeBatchIndex], id, size))
    <3> HIDE DEF id
    <3> QED
      BY <2>2, <2>3, BatchesTyped, WithOpIntact DEF BatchesIntact
  <2>5. /\ transactionBatches'[activeBatchIndex]
             = WithOp(transactionBatches[activeBatchIndex], id, size)
        /\ \A b \in BatchIds : b # activeBatchIndex =>
             transactionBatches'[b] = transactionBatches[b]
    BY <2>1, BatchesTyped DEF Stage, Always, TypeOK
  <2> HIDE DEF id
  <2> QED
    BY <2>4, <2>5 DEF BatchesIntact
<1>2. CASE EndCommit \/ SwapTransactionBatches \/ ClearReadyBatch
  <2>1. PICK b \in BatchIds :
          transactionBatches' = [transactionBatches EXCEPT ![b] = Emptied(@)]
    BY <1>2, BatchesTyped DEF EndCommit, SwapTransactionBatches, Swapped,
                       ClearReadyBatch
  <2>2. /\ transactionBatches'[b].ops = <<>>
        /\ \A c \in BatchIds : c # b =>
             transactionBatches'[c] = transactionBatches[c]
    BY <2>1, EmptiedOps DEF Always
  <2>3. Intact(transactionBatches'[b])
    BY <2>2 DEF Intact
  <2> QED
    BY <2>2, <2>3 DEF BatchesIntact
<1>3. CASE UNCHANGED transactionBatches
  BY <1>3 DEF BatchesIntact
<1> QED
  <2>1. CASE \E size \in 0 .. DataSize :
               StageSet(size) \/ StageCustom(size)
    BY <2>1, <1>1 DEF StageSet, StageCustom
  <2>2. CASE StageRemove \/ StageDelete
    BY <2>2, <1>1 DEF StageRemove, StageDelete, TransactionsAssumption
  <2>3. CASE \/ Decide \/ BeginCommit \/ CommitOp \/ GetReadyBatch
             \/ FetchOp \/ WorkOp \/ UNCHANGED vars
    BY <2>3, <1>3, Decided DEF BeginCommit, CommitOp, GetReadyBatch, FetchOp,
       WorkOp, batches, vars
  <2> QED
    BY <2>1, <2>2, <2>3, <1>2 DEF Next, EndOfFrame, Work, Decide

\* An operation of a batch that is still to be handed over has the payload it
\* was staged with, whatever was staged after it and whichever batch was
\* emptied, also when the worker is overrun.  The one the worker holds has it
\* until then.
THEOREM PayloadsSafe == Spec => []PayloadsIntact
<1>1. Spec => []Inv
  BY TransactionsInvariance
<1>2. Init => BatchesIntact
  BY DEF Init, BatchesIntact, Intact, BatchIds
<1>3. Inv /\ BatchesIntact /\ [Next]_vars => BatchesIntact'
  BY IntactNext, TransactionsAssumption DEF Inv
<1>4. ASSUME Always, BatchesIntact, NEW b \in BatchIds,
             NEW i \in 1 .. Len(transactionBatches[b].ops)
      PROVE  Carries(transactionBatches[b], transactionBatches[b].ops[i])
  <2> DEFINE batch == transactionBatches[b]
             op == batch.ops[i]
  <2>1. /\ batch \in Batch /\ Len(batch.ops) \in Nat /\ batch.dataSize \in Nat
        /\ batch.dataSize <= DataSize /\ DataSize \in Nat
    <3>1. batch \in Batch /\ batch.dataSize <= DataSize
      BY <1>4 DEF Always, TypeOK
    <3>2. Len(batch.ops) \in Nat /\ batch.dataSize \in Nat
      BY <3>1 DEF Batch
    <3> QED
      BY <3>1, <3>2, TransactionsAssumption DEF TransactionsAssumption
  <2>2. op \in Op
    BY <2>1 DEF Batch
  <2>3. /\ op.dataOffset \in Nat /\ op.size \in Nat
        /\ op.dataOffset + op.size <= batch.dataSize
        /\ \A k \in op.dataOffset .. op.dataOffset + op.size - 1 :
             batch.data[k] = op.id
    BY <1>4, <2>2 DEF Op, BatchesIntact, Intact
  <2> HIDE DEF batch, op
  <2>4. \A k \in op.dataOffset .. op.dataOffset + op.size - 1 : k < DataSize
    BY <2>1, <2>3
  <2>5. Carries(batch, op)
    BY <2>3, <2>4 DEF Carries
  <2> QED
    BY <2>5 DEF batch, op
<1>5. ASSUME Always, NEW b \in BatchIds, NEW i \in FirstOwed(b) .. LastOwed(b)
      PROVE  i \in 1 .. Len(transactionBatches[b].ops)
  <2>1. Len(transactionBatches[b].ops) \in Nat
    BY <1>5, BatchesTyped
  <2>2. CASE phase = "committing" /\ b = activeBatchIndex
    BY <1>5, <2>1, <2>2
       DEF FirstOwed, LastOwed, Always, Places, TypeOK, Active
  <2>3. CASE ~(phase = "committing" /\ b = activeBatchIndex)
    BY <1>5, <2>1, <2>3 DEF FirstOwed, LastOwed, Always, Places, TypeOK
  <2> QED
    BY <2>2, <2>3
<1>6. ASSUME Inv, BatchesIntact, ~overrun, worker.held # NoOp
      PROVE  Carries(transactionBatches[worker.batch], worker.held)
  <2>1. /\ Always /\ worker.batch = ReadyIndex
        /\ worker.next \in 1 .. Len(Ready) /\ worker.held = Ready[worker.next]
    BY <1>6 DEF Inv, InStep, LoopsOK
  <2> QED
    BY <1>4, <1>6, <2>1, BatchesTyped DEF Ready
<1>7. Inv /\ BatchesIntact => PayloadsIntact
  BY <1>4, <1>5, <1>6 DEF Inv, PayloadsIntact
<1> QED
  BY <1>1, <1>2, <1>3, <1>7, PTL DEF Spec

-----------------------------------------------------------------------------
(* GapTable: sums.                                                         *)

Sums(s, a, n) ==
  /\ s \in [0 .. n -> Int]
  /\ s[0] = 0 /\ \A k \in 0 .. n - 1 : s[k + 1] = s[k] + a[k]

\* A sum is the last of its partial sums.
LEMMA SumIs ==
  ASSUME NEW n \in Nat, NEW a, \A k \in 0 .. n - 1 : a[k] \in Int
  PROVE  \E s : Sums(s, a, n) /\ SumOf(a, n) = s[n]
<1> DEFINE Is(s) == s = [k \in 0 .. n |-> IF k = 0 THEN 0 ELSE s[k - 1] + a[k - 1]]
           step == [k \in 1 .. n |-> [x \in Int |-> x + a[k - 1]]]
<1>1. step \in [1 .. n -> [Int -> Int]]
  <2> SUFFICES ASSUME NEW k \in 1 .. n, NEW x \in Int PROVE x + a[k - 1] \in Int
    OBVIOUS
  <2>1. k - 1 \in 0 .. n - 1 OBVIOUS
  <2>2. a[k - 1] \in Int BY <2>1
  <2> QED BY <2>2
<1>a. \A k \in 1 .. n : \A x \in Int : step[k][x] = x + a[k - 1] OBVIOUS
<1> HIDE DEF step, Is
<1>2. PICK s : Solves(s, n, Int, 0, step)
  <2>1. 0 \in Int OBVIOUS
  <2> QED BY <1>1, <2>1, Recursion
<1> USE DEF Is
<1>3. s \in [0 .. n -> Int] /\ s[0] = 0 BY <1>2 DEF Solves
<1>4. ASSUME NEW k \in 1 .. n PROVE s[k] = s[k - 1] + a[k - 1]
  <2>1. s[k] = step[k][s[k - 1]] BY <1>2 DEF Solves
  <2>2. k - 1 \in 0 .. n OBVIOUS
  <2>3. s[k - 1] \in Int BY <1>3, <2>2
  <2> QED BY <1>a, <2>1, <2>3
<1>5. Is(s)
  <2> DEFINE t == [k \in 0 .. n |-> IF k = 0 THEN 0 ELSE s[k - 1] + a[k - 1]]
  <2>1. ASSUME NEW k \in 0 .. n PROVE s[k] = t[k]
    <3>1. CASE k = 0 BY <1>3, <3>1
    <3>2. CASE k \in 1 .. n BY <1>4, <3>2
    <3> QED BY <3>1, <3>2
  <2>2. DOMAIN s = 0 .. n BY <1>3
  <2> QED BY <1>3, <2>1, <2>2
<1>6. Is(CHOOSE r : Is(r))
  <2> HIDE DEF Is
  <2> QED BY <1>5
<1> DEFINE u == CHOOSE r : Is(r)
<1>7. SumOf(a, n) = u[n] BY DEF SumOf
<1> HIDE DEF u
<1>8. Is(u) BY <1>6 DEF u
<1>9. DOMAIN u = 0 .. n /\ u[0] = 0 /\ \A k \in 1 .. n : u[k] = u[k - 1] + a[k - 1]
  <2>1. u = [k \in 0 .. n |-> IF k = 0 THEN 0 ELSE u[k - 1] + a[k - 1]] BY <1>8
  <2> HIDE DEF Is
  <2>2. DOMAIN u = 0 .. n BY <2>1
  <2>3. \A k \in 0 .. n : u[k] = IF k = 0 THEN 0 ELSE u[k - 1] + a[k - 1] BY ONLY <2>1
  <2> QED BY <2>2, <2>3
<1> DEFINE P == {k \in 0 .. n : u[k] = s[k]}
<1>10. \A k \in 0 .. n : k \in P
  <2>1. 0 \in P /\ P \in SUBSET Nat BY <1>3, <1>9
  <2>2. ASSUME NEW k \in 0 .. n - 1, k \in P PROVE k + 1 \in P
    <3>1. k + 1 \in 1 .. n /\ (k + 1) - 1 = k OBVIOUS
    <3> QED BY <1>4, <1>9, <2>2, <3>1
  <2> HIDE DEF P
  <2> QED BY <2>1, <2>2, UpTo
<1>11. u[n] = s[n] BY <1>10
<1>12. ASSUME NEW k \in 0 .. n - 1 PROVE s[k + 1] = s[k] + a[k]
  <2>1. k + 1 \in 1 .. n /\ (k + 1) - 1 = k OBVIOUS
  <2> QED BY <1>4, <2>1
<1> QED BY <1>3, <1>7, <1>11, <1>12 DEF Sums

\* Two runs of partial sums that go alike from m on, x apart, end x apart.
LEMMA SumsFrom ==
  ASSUME NEW n \in Nat, NEW m \in 0 .. n, NEW x \in Int, NEW d \in Nat,
         NEW s \in [0 .. n -> Int], NEW t \in [0 .. n + d -> Int],
         t[m + d] = s[m] + x,
         \A k \in m .. n - 1 : t[k + d + 1] - t[k + d] = s[k + 1] - s[k]
  PROVE  t[n + d] = s[n] + x
<1> DEFINE P == {k \in 0 .. n : k >= m => t[k + d] = s[k] + x}
<1>1. P \in SUBSET Nat OBVIOUS
<1>2. 0 \in P
  <2>1. CASE m = 0
    <3>1. t[0 + d] = s[0] + x BY <2>1
    <3> QED BY <3>1
  <2>2. CASE m # 0
    <3>1. ~(0 >= m) /\ 0 \in 0 .. n BY <2>2
    <3> QED BY <3>1
  <2> QED BY <2>1, <2>2
<1>3. ASSUME NEW k \in 0 .. n - 1, k \in P PROVE k + 1 \in P
  <2>0. CASE k + 1 < m
    <3>1. k + 1 \in 0 .. n /\ ~(k + 1 >= m) BY <2>0
    <3> QED BY <3>1
  <2>1. CASE k + 1 = m
    <3>1. k + 1 \in 0 .. n OBVIOUS
    <3>2. t[k + 1 + d] = s[k + 1] + x BY <2>1
    <3> QED BY <3>1, <3>2
  <2>2. CASE k >= m
    <3>1. t[k + d] = s[k] + x BY <1>3, <2>2
    <3>2. k \in m .. n - 1 /\ k \in 0 .. n /\ k + 1 \in 0 .. n BY <2>2
    <3>3. k + d \in 0 .. n + d /\ k + d + 1 \in 0 .. n + d /\ k + 1 + d = k + d + 1
      BY <3>2
    <3>4. t[k + d + 1] - t[k + d] = s[k + 1] - s[k] BY <3>2
    <3>5. s[k] \in Int /\ s[k + 1] \in Int BY <3>2
    <3>6. t[k + d] \in Int /\ t[k + d + 1] \in Int BY <3>3
    <3>7. t[k + d + 1] = s[k + 1] + x
      <4>1. PICK a \in Int : a = t[k + d] BY <3>6
      <4>2. PICK b \in Int : b = t[k + d + 1] BY <3>6
      <4>3. PICK c \in Int : c = s[k] BY <3>5
      <4>4. PICK e \in Int : e = s[k + 1] BY <3>5
      <4>5. a = c + x /\ b - a = e - c BY <3>1, <3>4, <4>1, <4>2, <4>3, <4>4
      <4>6. b = e + x BY <4>5
      <4> QED BY <4>2, <4>4, <4>6
    <3>8. t[k + 1 + d] = s[k + 1] + x BY <3>3, <3>7
    <3> QED BY <3>2, <3>8
  <2> QED BY <2>0, <2>1, <2>2
<1> HIDE DEF P
<1>4. \A k \in 0 .. n : k \in P BY <1>1, <1>2, <1>3, UpTo
<1>5. n \in P BY <1>4
<1> QED BY <1>5 DEF P

-----------------------------------------------------------------------------
(* Trees as data: the parent of each group and the place behind its        *)
(* subtree.                                                                *)

Nested(n, up, end) ==
  /\ \A i \in 0 .. n - 1 :
       /\ up[i] \in Nat /\ end[i] \in i + 1 .. n
       /\ up[i] = None \/ (up[i] < i /\ i < end[up[i]])
  /\ \A i \in 0 .. n - 1 : \A j \in i + 1 .. end[i] - 1 :
       end[j] <= end[i] /\ i <= up[j] /\ up[j] < j

Sizes == 0 .. GroupCapacity

\* The groups above another are those whose subtree has it.
LEMMA AboveIs ==
  ASSUME NEW n \in Sizes, NEW up, NEW end, Nested(n, up, end), DOMAIN up = 0 .. n - 1
  PROVE  Above(up) = [j \in 0 .. n - 1 |-> {i \in 0 .. n - 1 : i < j /\ j < end[i]}]
<1> DEFINE D == 0 .. n - 1
           A == [j \in D |-> {i \in D : i < j /\ j < end[i]}]
           Is(f) == f = [i \in DOMAIN up |-> IF up[i] < i THEN f[up[i]] \union {up[i]} ELSE {}]
<1>0. n \in Nat /\ None \in Nat /\ None > n BY GapTableAssumption DEF Sizes, None
<1>1. ASSUME NEW j \in D
      PROVE  A[j] = IF up[j] < j THEN A[up[j]] \union {up[j]} ELSE {}
  <2>0. up[j] \in Nat /\ end[j] \in Nat BY <1>0 DEF Nested
  <2>1. CASE up[j] < j
    <3> DEFINE u == up[j]
    <3>1. u \in D /\ u < j /\ j < end[u] BY <2>0, <2>1, <1>0 DEF Nested
    <3>2. ASSUME NEW i \in D PROVE (i < j /\ j < end[i]) <=> ((i < u /\ u < end[i]) \/ i = u)
      <4>0. end[i] \in Nat /\ end[u] \in Nat
        <5>1. \A k \in 0 .. n - 1 : end[k] \in Nat BY <1>0 DEF Nested
        <5> QED BY <5>1, <3>1
      <4>1. ASSUME i < j, j < end[i] PROVE (i < u /\ u < end[i]) \/ i = u
        <5>1. j \in i + 1 .. end[i] - 1 BY <4>0, <4>1, <1>0
        <5>2. i <= u BY <5>1 DEF Nested
        <5> QED BY <5>2, <3>1, <4>0, <4>1, <2>0
      <4>2. ASSUME i < u, u < end[i] PROVE i < j /\ j < end[i]
        <5>1. u \in i + 1 .. end[i] - 1 BY <4>0, <4>2, <3>1, <2>0, <1>0
        <5>2. end[u] <= end[i] BY <5>1 DEF Nested
        <5> QED BY <5>2, <3>1, <4>0, <4>2, <2>0
      <4> QED BY <4>1, <4>2, <3>1
    <3> HIDE DEF u
    <3>3. A[j] = {i \in D : i < j /\ j < end[i]} /\ A[u] = {i \in D : i < u /\ u < end[i]} BY <3>1
    <3> HIDE DEF A, D
    <3>4. A[j] = A[u] \union {u} BY <3>1, <3>2, <3>3
    <3> QED BY <2>1, <3>4 DEF u
  <2>2. CASE ~(up[j] < j)
    <3>1. ASSUME NEW i \in D, i < j, j < end[i] PROVE FALSE
      <4>0. end[i] \in Nat BY <1>0 DEF Nested
      <4>1. j \in i + 1 .. end[i] - 1 BY <4>0, <3>1, <1>0
      <4>2. up[j] < j BY <4>1 DEF Nested
      <4> QED BY <4>2, <2>2
    <3> QED BY <3>1, <2>2
  <2> QED BY <2>1, <2>2
<1>2. Is(A) BY <1>1
<1>3. Is(CHOOSE f : Is(f))
  <2> HIDE DEF Is, A
  <2> QED BY <1>2
<1> DEFINE f == CHOOSE f : Is(f)
<1>4. Above(up) = f BY DEF Above
<1> HIDE DEF f
<1>5. Is(f) BY <1>3 DEF f
<1>6. DOMAIN f = D /\ \A i \in D : f[i] = IF up[i] < i THEN f[up[i]] \union {up[i]} ELSE {}
  <2>1. f = [i \in D |-> IF up[i] < i THEN f[up[i]] \union {up[i]} ELSE {}] BY <1>5
  <2> HIDE DEF D
  <2> QED BY ONLY <2>1
<1> HIDE DEF A
<1> DEFINE P == {k \in 0 .. n : \A i \in D : i < k => f[i] = A[i]}
<1>7. \A k \in 0 .. n : k \in P
  <2>1. 0 \in P /\ P \in SUBSET Nat BY <1>0
  <2>2. ASSUME NEW k \in 0 .. n - 1, k \in P PROVE k + 1 \in P
    <3>1. ASSUME NEW i \in D, i < k + 1 PROVE f[i] = A[i]
      <4>1. CASE i < k BY <2>2, <4>1
      <4>2. CASE i = k
        <5>1. CASE up[k] < k
          <6>1. up[k] \in Nat BY <4>2 DEF Nested
          <6>2. up[k] \in D BY <6>1, <5>1, <1>0
          <6>3. f[up[k]] = A[up[k]] BY <6>2, <5>1, <2>2
          <6> QED BY <6>3, <5>1, <1>1, <1>6, <4>2
        <5>2. CASE ~(up[k] < k) BY <5>2, <1>1, <1>6, <4>2
        <5> QED BY <5>1, <5>2
      <4> QED BY <4>1, <4>2, <3>1, <1>0
    <3>2. k + 1 \in 0 .. n BY <1>0
    <3> QED BY <3>1, <3>2
  <2> HIDE DEF P
  <2> QED BY <2>1, <2>2, <1>0, UpTo
<1>8. n \in P BY <1>7, <1>0
<1>9. \A i \in D : f[i] = A[i] BY <1>8, <1>0
<1>10. DOMAIN A = D /\ A = [j \in DOMAIN A |-> A[j]] BY DEF A
<1>11. f = [j \in D |-> f[j]] BY <1>5
<1> HIDE DEF D, P
<1>12. f = A BY <1>9, <1>10, <1>11, <1>6
<1> QED BY <1>4, <1>12 DEF A, D

\* What follows the subtree of a group is its next sibling, or the end of the
\* subtree of its parent.
LEMMA NextSibling ==
  ASSUME NEW n \in Sizes, NEW up, NEW end, Nested(n, up, end), NEW u \in 0 .. n - 1
  PROVE  /\ end[u] < n /\ up[u] = None => up[end[u]] = None
         /\ up[u] # None => end[u] <= end[up[u]] /\
              (end[u] < end[up[u]] => up[end[u]] = up[u])
<1>0. n \in Nat /\ None \in Nat /\ None > n BY GapTableAssumption DEF Sizes, None
<1>1. end[u] \in u + 1 .. n /\ up[u] \in Nat /\ (up[u] = None \/ (up[u] < u /\ u < end[up[u]])) BY <1>0 DEF Nested
<1>2. PICK w \in Nat : w = end[u] BY <1>1, <1>0
\* A group whose subtree has w has u too.
<1>3. ASSUME w < n, NEW v \in 0 .. n - 1, v < w, w < end[v] PROVE v < u /\ u < end[v]
  <2>1. v # u BY <1>2, <1>3
  <2>2. ASSUME v > u PROVE FALSE
    <3>1. v \in u + 1 .. end[u] - 1 BY <1>1, <1>2, <1>3, <2>2, <1>0
    <3>2. end[v] <= end[u] BY <3>1 DEF Nested
    <3>3. end[v] \in Nat BY <1>0 DEF Nested
    <3> QED BY <1>2, <1>3, <3>2, <3>3
  <2>3. end[v] \in Nat BY <1>0 DEF Nested
  <2> QED BY <2>1, <2>2, <2>3, <1>1, <1>2, <1>3, <1>0
<1>4. ASSUME w < n PROVE up[w] = None \/ (up[w] < u /\ u < end[up[w]])
  <2>1. w \in 0 .. n - 1 BY <1>2, <1>4, <1>0
  <2>2. up[w] \in Nat /\ (up[w] = None \/ (up[w] < w /\ w < end[up[w]])) BY <2>1 DEF Nested
  <2>3. up[w] # None => up[w] \in 0 .. n - 1 BY <2>1, <2>2, <1>0
  <2> QED BY <2>2, <2>3, <1>3, <1>4
<1>5. ASSUME w < n, up[u] = None PROVE up[w] = None
  <2>1. ASSUME up[w] # None PROVE FALSE
    <3>1. up[w] < u /\ u < end[up[w]] BY <1>4, <1>5, <2>1
    <3>2. w \in 0 .. n - 1 BY <1>2, <1>5, <1>0
    <3>3. up[w] \in Nat BY <3>2 DEF Nested
    <3>4. up[w] \in 0 .. n - 1 BY <3>1, <3>3, <1>1, <1>0
    <3>5. end[up[w]] \in Nat BY <3>4, <1>0 DEF Nested
    <3>6. u \in up[w] + 1 .. end[up[w]] - 1 BY <3>1, <3>3, <3>5, <1>0
    <3>7. up[u] < u BY <3>4, <3>6 DEF Nested
    <3> QED BY <3>7, <1>5, <1>0
  <2> QED BY <2>1
<1>6. ASSUME up[u] # None PROVE w <= end[up[u]] /\ (w < end[up[u]] => up[w] = up[u])
  <2>1. up[u] < u /\ u < end[up[u]] /\ up[u] \in 0 .. n - 1 BY <1>1, <1>6, <1>0
  <2>2. end[up[u]] \in 0 .. n BY <2>1, <1>0 DEF Nested
  <2>3. u \in up[u] + 1 .. end[up[u]] - 1 BY <2>1, <2>2, <1>0
  <2>4. end[u] <= end[up[u]] BY <2>1, <2>3 DEF Nested
  <2>5. ASSUME w < end[up[u]] PROVE up[w] = up[u]
    <3>1. w \in up[u] + 1 .. end[up[u]] - 1 /\ w < n BY <1>1, <1>2, <2>1, <2>2, <2>5, <1>0
    <3>2. up[u] <= up[w] /\ up[w] < w BY <2>1, <3>1 DEF Nested
    <3>3. w \in 0 .. n - 1 /\ up[w] \in Nat BY <3>1, <1>0, <1>2 DEF Nested
    <3>4. up[w] # None BY <3>2, <3>1, <1>0
    <3>5. up[w] < u /\ u < end[up[w]] BY <3>4, <3>1, <1>4
    <3>6. up[w] \in 0 .. n - 1 BY <3>5, <3>3, <1>0
    <3>7. end[up[w]] \in Nat BY <3>6, <1>0 DEF Nested
    <3>8. u \in up[w] + 1 .. end[up[w]] - 1 BY <3>5, <3>3, <3>7, <1>0
    <3>9. up[w] <= up[u] BY <3>6, <3>8 DEF Nested
    <3> QED BY <3>2, <3>9, <3>3, <1>1
  <2> QED BY <2>4, <2>5, <1>2
<1> QED BY <1>2, <1>5, <1>6

Inserts(n, up, end, at, Open, parent, up2, end2) ==
  /\ n \in Sizes /\ Nested(n, up, end) /\ n < GroupCapacity
  /\ at \in 0 .. n /\ (at < n => up[at] = None)
  /\ Open \subseteq 0 .. at - 1 /\ \A i \in Open : end[i] = at
  /\ \A j \in Open : \A i \in 0 .. j - 1 : j < end[i] => i \in Open
  /\ parent \in Nat
  /\ IF Open = {} THEN parent = None ELSE parent \in Open /\ \A i \in Open : i <= parent
  /\ \A i \in 0 .. n : up2[i] = IF i < at THEN up[i]
                                ELSE IF i = at THEN parent
                                ELSE IF up[i - 1] = None THEN None ELSE up[i - 1] + 1
  /\ \A i \in 0 .. n : end2[i] = IF i < at THEN IF i \in Open THEN at + 1 ELSE end[i]
                                 ELSE IF i = at THEN at + 1
                                 ELSE end[i - 1] + 1

\* A new leaf at a place that no closed subtree has.  The groups from there on
\* are numbered again, and so are links to them.
LEMMA InsertNested ==
  ASSUME NEW n, NEW up, NEW end, NEW at, NEW Open, NEW parent, NEW up2, NEW end2,
         Inserts(n, up, end, at, Open, parent, up2, end2)
  PROVE  /\ Nested(n + 1, up2, end2)
         /\ \A i \in at .. n - 1 : up[i] = None \/ up[i] >= at
         /\ \A i \in 0 .. at - 1 : up[i] = None \/ up[i] < at
<1> USE DEF Inserts
<1>0. n \in Nat /\ None \in Nat /\ None > n + 1 /\ at \in Nat BY GapTableAssumption DEF Sizes, None
<1>1. ASSUME NEW i \in 0 .. n - 1
      PROVE  /\ end[i] \in Nat /\ i < end[i] /\ end[i] <= n /\ up[i] \in Nat
             /\ up[i] = None \/ (up[i] \in 0 .. n - 1 /\ up[i] < i /\ i < end[up[i]])
  <2>1. up[i] \in Nat /\ end[i] \in i + 1 .. n /\ (up[i] = None \/ (up[i] < i /\ i < end[up[i]])) BY DEF Nested
  <2> QED BY <2>1, <1>0
<1>2. ASSUME NEW i \in 0 .. n - 1, NEW j \in 0 .. n - 1, i < j, j < end[i]
      PROVE  end[j] <= end[i] /\ i <= up[j] /\ up[j] < j
  <2>1. j \in i + 1 .. end[i] - 1 BY <1>0, <1>1, <1>2
  <2> QED BY <2>1 DEF Nested
<1>3. ASSUME NEW i \in 0 .. n - 1, i < at PROVE end[i] <= at
  <2>1. ASSUME end[i] > at PROVE FALSE
    <3>1. at \in 0 .. n - 1 BY <1>0, <1>1, <2>1
    <3>2. up[at] < at BY <1>2, <1>3, <2>1, <3>1
    <3> QED BY <3>1, <3>2, <1>0
  <2> QED BY <2>1, <1>0, <1>1
<1>4. ASSUME NEW i \in 0 .. n - 1 PROVE (i >= at /\ up[i] # None => up[i] >= at) /\ (i < at /\ up[i] # None => up[i] < at)
  <2>1. ASSUME i >= at, up[i] # None, up[i] < at PROVE FALSE
    <3>1. up[i] \in 0 .. n - 1 /\ i < end[up[i]] BY <1>1, <2>1
    <3>2. end[up[i]] <= at BY <1>3, <2>1, <3>1
    <3>3. end[up[i]] \in Nat BY <3>1, <1>1
    <3> QED BY <3>1, <3>2, <3>3, <2>1, <1>0
  <2>2. up[i] \in Nat /\ (up[i] # None => up[i] < i) BY <1>1
  <2> QED BY <2>1, <2>2, <1>0
<1>5. \A i \in Open : i \in 0 .. n - 1 /\ i < at /\ end[i] = at BY <1>0
<1>6. ASSUME NEW i \in 0 .. n
      PROVE  /\ up2[i] \in Nat /\ end2[i] \in i + 1 .. n + 1
             /\ up2[i] = None \/ (up2[i] < i /\ i < end2[up2[i]])
  <2>1. CASE i < at
    <3>1. i \in 0 .. n - 1 BY <2>1, <1>0
    <3>2. up2[i] = up[i] /\ end2[i] = IF i \in Open THEN at + 1 ELSE end[i] BY <2>1
    <3>3. end2[i] \in i + 1 .. n + 1 BY <3>1, <3>2, <1>1, <2>1, <1>0
    <3>4. ASSUME up[i] # None PROVE up2[i] < i /\ i < end2[up2[i]]
      <4>1. up[i] \in 0 .. n - 1 /\ up[i] < i /\ i < end[up[i]] BY <3>1, <3>4, <1>1
      <4>2. end2[up[i]] = IF up[i] \in Open THEN at + 1 ELSE end[up[i]] BY <4>1, <2>1, <1>0
      <4> QED BY <4>1, <4>2, <3>2, <2>1, <1>0
    <3> QED BY <3>1, <3>2, <3>3, <3>4, <1>1
  <2>2. CASE i = at
    <3>1. up2[i] = parent /\ end2[i] = at + 1 BY <2>2, <1>0
    <3>2. ASSUME parent # None PROVE parent < i /\ i < end2[parent]
      <4>1. parent \in Open BY <3>2
      <4>2. parent \in 0 .. n /\ parent < at BY <4>1, <1>5, <1>0
      <4>3. end2[parent] = at + 1 BY <4>1, <4>2
      <4> QED BY <4>2, <4>3, <2>2, <1>0
    <3> QED BY <3>1, <3>2, <2>2, <1>0
  <2>3. CASE i > at
    <3>1. i - 1 \in 0 .. n - 1 /\ i - 1 >= at BY <2>3, <1>0
    <3>2. up2[i] = (IF up[i - 1] = None THEN None ELSE up[i - 1] + 1) /\ end2[i] = end[i - 1] + 1 BY <2>3, <1>0
    <3>3. end2[i] \in i + 1 .. n + 1
      <4>1. end[i - 1] \in Nat /\ i - 1 < end[i - 1] /\ end[i - 1] <= n BY <3>1, <1>1
      <4> QED BY <4>1, <3>1, <3>2, <1>0
    <3>4. ASSUME up[i - 1] # None PROVE up2[i] < i /\ i < end2[up2[i]]
      <4>1. PICK v \in Nat : v = up[i - 1] BY <3>1, <1>1
      <4>2. v \in 0 .. n - 1 /\ v < i - 1 /\ i - 1 < end[v] BY <4>1, <3>1, <3>4, <1>1
      <4>3. v >= at BY <4>1, <3>1, <3>4, <1>4
      <4>4. up2[i] = v + 1 BY <4>1, <3>2, <3>4
      <4>5. v + 1 \in 0 .. n /\ v + 1 > at /\ (v + 1) - 1 = v BY <4>2, <4>3, <1>0
      <4>6. end2[v + 1] = end[v] + 1 BY <4>5, <1>0
      <4>7. end[v] \in Nat BY <4>2, <1>1
      <4> QED BY <4>2, <4>4, <4>6, <4>7, <1>0
    <3>5. up2[i] \in Nat BY <3>2, <3>1, <1>1, <1>0
    <3> QED BY <3>2, <3>3, <3>4, <3>5
  <2> QED BY <2>1, <2>2, <2>3, <1>0
<1>7. ASSUME NEW i \in 0 .. n, NEW j \in 0 .. n, i < j, j < end2[i]
      PROVE  end2[j] <= end2[i] /\ i <= up2[j] /\ up2[j] < j
  <2>1. CASE i < at /\ j < at
    <3>1. i \in 0 .. n - 1 /\ j \in 0 .. n - 1 BY <2>1, <1>0
    <3>2. j < end[i] BY <3>1, <2>1, <1>5, <1>7
    <3>3. end[j] <= end[i] /\ i <= up[j] /\ up[j] < j BY <3>1, <3>2, <1>2, <1>7
    <3>4. end2[i] = (IF i \in Open THEN at + 1 ELSE end[i]) /\ end2[j] = (IF j \in Open THEN at + 1 ELSE end[j]) /\ up2[j] = up[j] BY <2>1
    <3>5. end[i] <= at /\ end[j] <= at /\ end[i] \in Nat /\ end[j] \in Nat BY <3>1, <2>1, <1>3, <1>1
    <3>7. j \in Open => i \in Open
      <4>1. i \in 0 .. j - 1 BY <1>7, <1>0
      <4> QED BY <4>1, <3>2
    <3> QED BY <3>3, <3>4, <3>5, <3>7, <1>0
  <2>2. CASE i < at /\ j = at
    <3>1. i \in 0 .. n - 1 BY <2>2, <1>0
    <3>2. i \in Open
      <4>1. ASSUME i \notin Open PROVE FALSE
        <5>1. end2[i] = end[i] BY <2>2, <4>1
        <5> QED BY <5>1, <3>1, <2>2, <1>3, <1>7, <1>1, <1>0
      <4> QED BY <4>1
    <3>3. parent \in Open /\ i <= parent BY <3>2
    <3>4. parent < at BY <3>3, <1>5
    <3>5. end2[i] = at + 1 /\ end2[j] = at + 1 /\ up2[j] = parent BY <2>2, <3>2, <1>0
    <3> QED BY <3>3, <3>4, <3>5, <2>2, <1>0
  <2>3. CASE i < at /\ j > at
    <3>1. i \in 0 .. n - 1 BY <2>3, <1>0
    <3>2. end2[i] <= at + 1 BY <3>1, <2>3, <1>3, <1>1, <1>0
    <3>3. end2[i] \in Nat BY <3>1, <2>3, <1>1, <1>0
    <3> QED BY <3>2, <3>3, <2>3, <1>7, <1>0
  <2>4. CASE i = at
    <3>1. end2[i] = at + 1 BY <2>4, <1>0
    <3> QED BY <3>1, <2>4, <1>7, <1>0
  <2>5. CASE i > at
    <3>1. PICK k \in 0 .. n - 1 : k = i - 1 /\ k >= at BY <2>5, <1>0
    <3>2. PICK l \in 0 .. n - 1 : l = j - 1 /\ l > k BY <3>1, <1>7, <1>0
    <3>3. end2[i] = end[k] + 1 /\ end2[j] = end[l] + 1 BY <3>1, <3>2, <2>5, <1>7, <1>0
    <3>4. end[k] \in Nat /\ end[l] \in Nat /\ up[l] \in Nat BY <1>1
    <3>5. l < end[k] BY <3>2, <3>3, <3>4, <1>7, <1>0
    <3>6. end[l] <= end[k] /\ k <= up[l] /\ up[l] < l BY <3>2, <3>5, <1>2
    <3>7. up[l] # None BY <3>6, <1>0
    <3>8. up2[j] = up[l] + 1 BY <3>1, <3>2, <3>7, <2>5, <1>7, <1>0
    <3> QED BY <3>1, <3>2, <3>3, <3>4, <3>6, <3>8
  <2> QED BY <2>1, <2>2, <2>3, <2>4, <2>5, <1>0
<1>8. Nested(n + 1, up2, end2)
  <2>1. (n + 1) - 1 = n BY <1>0
  <2>2. ASSUME NEW i \in 0 .. n, NEW j \in i + 1 .. end2[i] - 1
        PROVE  end2[j] <= end2[i] /\ i <= up2[j] /\ up2[j] < j
    <3>1. end2[i] \in i + 1 .. n + 1 BY <1>6
    <3>2. j \in 0 .. n /\ i < j /\ j < end2[i] BY <3>1, <1>0
    <3> QED BY <3>2, <1>7
  <2> QED BY <2>1, <2>2, <1>6 DEF Nested
<1> QED BY <1>4, <1>8, <1>0

-----------------------------------------------------------------------------
(* Arrays with a gap.                                                      *)

\* What is at place i once the gap, of length gl, begins at gs.
Seen(a, gs, gl, i) == a[IF i < gs THEN i ELSE i + gl]

GoesLeft(N, S, a, gs, gl, tg, adj, zero) ==
  /\ N \in Nat /\ a \in [0 .. N - 1 -> S] /\ gs \in Nat /\ gl \in Nat /\ zero \in S
  /\ gs + gl <= N /\ tg \in 0 .. gs /\ gs - tg <= gl
  /\ \A i \in tg .. gs - 1 : adj[i] \in S

LEMMA GapLeft ==
  ASSUME NEW N, NEW S, NEW a, NEW gs, NEW gl, NEW tg, NEW adj, NEW zero,
         GoesLeft(N, S, a, gs, gl, tg, adj, zero),
         NEW b, b = Moved(a, adj, tg + gl, tg, gs - tg, zero)
  PROVE  /\ b \in [0 .. N - 1 -> S]
         /\ \A i \in 0 .. N - gl - 1 :
              Seen(b, tg, gl, i) = IF i \in tg .. gs - 1 THEN adj[i] ELSE Seen(a, gs, gl, i)
<1> USE DEF GoesLeft
<1> DEFINE At(p) == IF p \in Interval(tg, gs - tg) THEN zero
                    ELSE IF p \in Interval(tg + gl, gs - tg) THEN adj[p - (tg + gl) + tg]
                    ELSE a[p]
<1>1. b = [p \in 0 .. N - 1 |-> At(p)] BY DEF Moved
<1>2. Interval(tg, gs - tg) = tg .. gs - 1 /\ Interval(tg + gl, gs - tg) = tg + gl .. gs + gl - 1
  BY DEF Interval
<1>3. ASSUME NEW p \in 0 .. N - 1 PROVE At(p) \in S
  <2>1. CASE p \in tg .. gs - 1 BY <1>2, <2>1
  <2>2. CASE p \notin tg .. gs - 1 /\ p \in tg + gl .. gs + gl - 1
    <3>1. p - (tg + gl) + tg \in tg .. gs - 1 BY <2>2
    <3> QED BY <1>2, <2>2, <3>1
  <2>3. CASE p \notin tg .. gs - 1 /\ p \notin tg + gl .. gs + gl - 1 BY <1>2, <2>3
  <2> QED BY <2>1, <2>2, <2>3
<1>4. b \in [0 .. N - 1 -> S]
  <2> HIDE DEF At
  <2> QED BY <1>1, <1>3
<1>5. ASSUME NEW i \in 0 .. N - gl - 1
      PROVE  Seen(b, tg, gl, i) = IF i \in tg .. gs - 1 THEN adj[i] ELSE Seen(a, gs, gl, i)
  <2>1. CASE i < tg
    <3>1. i \in 0 .. N - 1 /\ i < gs /\ i \notin tg .. gs - 1 /\ i \notin tg + gl .. gs + gl - 1 BY <2>1
    <3>2. b[i] = a[i] BY <1>1, <1>2, <3>1
    <3> QED BY <2>1, <3>1, <3>2 DEF Seen
  <2>2. CASE i \in tg .. gs - 1
    <3>1. i + gl \in 0 .. N - 1 /\ i + gl \notin tg .. gs - 1 /\ i + gl \in tg + gl .. gs + gl - 1
          /\ (i + gl) - (tg + gl) + tg = i /\ ~(i < tg) BY <2>2
    <3>2. b[i + gl] = adj[i] BY <1>1, <1>2, <3>1
    <3> QED BY <2>2, <3>1, <3>2 DEF Seen
  <2>3. CASE i >= gs
    <3>1. i + gl \in 0 .. N - 1 /\ i + gl \notin tg .. gs - 1 /\ i + gl \notin tg + gl .. gs + gl - 1
          /\ ~(i < tg) /\ i \notin tg .. gs - 1 /\ ~(i < gs) BY <2>3
    <3>2. b[i + gl] = a[i + gl] BY <1>1, <1>2, <3>1
    <3> QED BY <3>1, <3>2 DEF Seen
  <2> QED BY <2>1, <2>2, <2>3
<1> QED BY <1>4, <1>5

GoesRight(N, S, a, gs, gl, tg, adj, zero) ==
  /\ N \in Nat /\ a \in [0 .. N - 1 -> S] /\ gs \in Nat /\ gl \in Nat /\ zero \in S
  /\ gl <= N /\ tg \in gs .. N - gl /\ tg - gs <= gl
  /\ \A i \in gs .. tg - 1 : adj[i + gl] \in S

LEMMA GapRight ==
  ASSUME NEW N, NEW S, NEW a, NEW gs, NEW gl, NEW tg, NEW adj, NEW zero,
         GoesRight(N, S, a, gs, gl, tg, adj, zero),
         NEW b, b = Moved(a, adj, gs, gs + gl, tg - gs, zero)
  PROVE  /\ b \in [0 .. N - 1 -> S]
         /\ \A i \in 0 .. N - gl - 1 :
              Seen(b, tg, gl, i) = IF i \in gs .. tg - 1 THEN adj[i + gl] ELSE Seen(a, gs, gl, i)
<1> USE DEF GoesRight
<1> DEFINE At(p) == IF p \in Interval(gs + gl, tg - gs) THEN zero
                    ELSE IF p \in Interval(gs, tg - gs) THEN adj[p - gs + (gs + gl)]
                    ELSE a[p]
<1>1. b = [p \in 0 .. N - 1 |-> At(p)] BY DEF Moved
<1>2. Interval(gs, tg - gs) = gs .. tg - 1 /\ Interval(gs + gl, tg - gs) = gs + gl .. tg + gl - 1
  BY DEF Interval
<1>3. ASSUME NEW p \in 0 .. N - 1 PROVE At(p) \in S
  <2>1. CASE p \in gs + gl .. tg + gl - 1 BY <1>2, <2>1
  <2>2. CASE p \notin gs + gl .. tg + gl - 1 /\ p \in gs .. tg - 1
    <3>1. p - gs + (gs + gl) = p + gl BY <2>2
    <3> QED BY <1>2, <2>2, <3>1
  <2>3. CASE p \notin gs + gl .. tg + gl - 1 /\ p \notin gs .. tg - 1 BY <1>2, <2>3
  <2> QED BY <2>1, <2>2, <2>3
<1>4. b \in [0 .. N - 1 -> S]
  <2> HIDE DEF At
  <2> QED BY <1>1, <1>3
<1>5. ASSUME NEW i \in 0 .. N - gl - 1
      PROVE  Seen(b, tg, gl, i) = IF i \in gs .. tg - 1 THEN adj[i + gl] ELSE Seen(a, gs, gl, i)
  <2>1. CASE i < gs
    <3>1. i \in 0 .. N - 1 /\ i < tg /\ i \notin gs .. tg - 1 /\ i \notin gs + gl .. tg + gl - 1 BY <2>1
    <3>2. b[i] = a[i] BY <1>1, <1>2, <3>1
    <3> QED BY <2>1, <3>1, <3>2 DEF Seen
  <2>2. CASE i \in gs .. tg - 1
    <3>1. i \in 0 .. N - 1 /\ i \notin gs + gl .. tg + gl - 1 /\ i < tg /\ i - gs + (gs + gl) = i + gl BY <2>2
    <3>2. b[i] = adj[i + gl] BY <1>1, <1>2, <2>2, <3>1
    <3> QED BY <2>2, <3>1, <3>2 DEF Seen
  <2>3. CASE i >= tg
    <3>1. i + gl \in 0 .. N - 1 /\ i + gl \notin gs .. tg - 1 /\ i + gl \notin gs + gl .. tg + gl - 1
          /\ ~(i < tg) /\ i \notin gs .. tg - 1 /\ ~(i < gs) BY <2>3
    <3>2. b[i + gl] = a[i + gl] BY <1>1, <1>2, <3>1
    <3> QED BY <3>1, <3>2 DEF Seen
  <2> QED BY <2>1, <2>2, <2>3
<1> QED BY <1>4, <1>5

-----------------------------------------------------------------------------
(* Tables as data.                                                         *)

Tables ==
  [groups : [0 .. GroupCapacity - 1 -> Group], slots : [0 .. SlotCapacity - 1 -> Values \union {0}],
   groupGapStart : 0 .. GroupCapacity, groupGapLen : 0 .. GroupCapacity,
   slotGapStart : 0 .. SlotCapacity, slotGapLen : 0 .. SlotCapacity,
   readerCount : 0 .. 1, writerActive : BOOLEAN]

Typed(t) ==
  t \in Tables /\ t.groupGapStart + t.groupGapLen <= GroupCapacity
  /\ t.slotGapStart + t.slotGapLen <= SlotCapacity

Count(t) == GroupCapacity - t.groupGapLen
Words(t) == SlotCapacity - t.slotGapLen
G(t, i) == Seen(t.groups, t.groupGapStart, t.groupGapLen, i)
W(t, k) == Seen(t.slots, t.slotGapStart, t.slotGapLen, k)

\* Where the words of group i begin, with the gap taken out.
Place(t, i) ==
  IF i = Count(t) THEN Words(t)
  ELSE IF i < t.groupGapStart THEN G(t, i).slotIndex ELSE G(t, i).slotIndex - t.slotGapLen

\* The words of the groups follow one another, and both gaps are at the same
\* group.
Laid(t) ==
  /\ Place(t, 0) = 0 /\ Place(t, t.groupGapStart) = t.slotGapStart
  /\ \A i \in 0 .. Count(t) - 1 :
       Place(t, i) \in Nat /\ Place(t, i + 1) = Place(t, i) + G(t, i).slotCount

\* The tables that differ in nothing but where the gaps are.
SameTable(t, u) ==
  /\ u.groupGapLen = t.groupGapLen /\ u.slotGapLen = t.slotGapLen
  /\ u.readerCount = t.readerCount /\ u.writerActive = t.writerActive
  /\ \A i \in 0 .. Count(t) - 1 : \E k \in Nat : G(u, i) = [G(t, i) EXCEPT !.slotIndex = k]
  /\ \A i \in 0 .. Count(t) : Place(u, i) = Place(t, i)
  /\ \A k \in 0 .. Words(t) - 1 : W(u, k) = W(t, k)

LEMMA TypedIs ==
  ASSUME NEW t, Typed(t)
  PROVE  /\ t.groups \in [0 .. GroupCapacity - 1 -> Group]
         /\ t.slots \in [0 .. SlotCapacity - 1 -> Values \union {0}]
         /\ t.groupGapStart \in 0 .. Count(t) /\ t.groupGapLen \in 0 .. GroupCapacity
         /\ t.slotGapStart \in 0 .. Words(t) /\ t.slotGapLen \in 0 .. SlotCapacity
         /\ t.readerCount \in 0 .. 1 /\ t.writerActive \in BOOLEAN
         /\ Count(t) \in 0 .. GroupCapacity /\ Words(t) \in 0 .. SlotCapacity
         /\ {t.groupGapStart, t.groupGapLen, t.slotGapStart, t.slotGapLen} \subseteq Nat
         /\ GroupCapacity \in Nat /\ SlotCapacity \in Nat /\ None \in Nat /\ None > GroupCapacity
         /\ \A i \in 0 .. Count(t) - 1 : G(t, i) \in Group
<1>0. GroupCapacity \in Nat /\ SlotCapacity \in Nat BY GapTableAssumption
<1>1. /\ t.groups \in [0 .. GroupCapacity - 1 -> Group]
      /\ t.slots \in [0 .. SlotCapacity - 1 -> Values \union {0}]
      /\ t.groupGapStart \in 0 .. GroupCapacity /\ t.groupGapLen \in 0 .. GroupCapacity
      /\ t.slotGapStart \in 0 .. SlotCapacity /\ t.slotGapLen \in 0 .. SlotCapacity
      /\ t.readerCount \in 0 .. 1 /\ t.writerActive \in BOOLEAN
      /\ t.groupGapStart + t.groupGapLen <= GroupCapacity /\ t.slotGapStart + t.slotGapLen <= SlotCapacity
  BY DEF Typed, Tables
<1>2. Count(t) \in 0 .. GroupCapacity /\ Words(t) \in 0 .. SlotCapacity
      /\ t.groupGapStart \in 0 .. Count(t) /\ t.slotGapStart \in 0 .. Words(t)
  BY <1>0, <1>1 DEF Count, Words
<1>3. ASSUME NEW i \in 0 .. Count(t) - 1 PROVE G(t, i) \in Group
  <2>1. (IF i < t.groupGapStart THEN i ELSE i + t.groupGapLen) \in 0 .. GroupCapacity - 1
    <3>1. CASE i < t.groupGapStart BY <1>0, <1>1, <1>2, <3>1
    <3>2. CASE ~(i < t.groupGapStart)
      <4>1. Count(t) = GroupCapacity - t.groupGapLen BY DEF Count
      <4>2. PICK c \in Nat, g \in Nat : c = Count(t) /\ g = t.groupGapLen /\ c = GroupCapacity - g BY <1>1, <1>2, <4>1
      <4>3. i \in Nat /\ i < c BY <4>2
      <4>4. i + g \in 0 .. GroupCapacity - 1 BY <4>2, <4>3, <1>0
      <4> QED BY <3>2, <4>2, <4>4
    <3> QED BY <3>1, <3>2
  <2> QED BY <1>1, <2>1 DEF G, Seen
<1> QED BY <1>0, <1>1, <1>2, <1>3 DEF None

LEMMA ZeroIs == ZeroGroup \in Group
<1>1. 0 \in 0 .. None BY GapTableAssumption DEF None
<1> QED BY <1>1 DEF ZeroGroup, Group

LEMMA GroupFields ==
  ASSUME NEW g \in Group
  PROVE  /\ g.key \in Keys \union {0} /\ g.parentIndex \in 0 .. None
         /\ g.slotIndex \in Nat /\ g.slotCount \in Nat /\ g.groupSize \in Nat
         /\ g.nodeCount \in Nat /\ g.flags \in SUBSET Flags
         /\ \A k \in Nat : /\ [g EXCEPT !.slotIndex = k] \in Group
                           /\ [g EXCEPT !.slotIndex = k].slotIndex = k
                           /\ [g EXCEPT !.slotIndex = k].slotCount = g.slotCount
BY DEF Group

LEMMA LaidUp ==
  ASSUME NEW t, Typed(t), Laid(t)
  PROVE  \A j \in 0 .. Count(t) : Place(t, j) \in Nat /\ \A i \in 0 .. j : Place(t, i) <= Place(t, j)
<1> DEFINE P == {j \in 0 .. Count(t) : Place(t, j) \in Nat /\ \A i \in 0 .. j : Place(t, i) <= Place(t, j)}
<1>0. Count(t) \in Nat BY TypedIs
<1>1. 0 \in P /\ P \in SUBSET Nat BY <1>0 DEF Laid
<1>2. ASSUME NEW j \in 0 .. Count(t) - 1, j \in P PROVE j + 1 \in P
  <2>1. Place(t, j) \in Nat /\ Place(t, j + 1) = Place(t, j) + G(t, j).slotCount BY DEF Laid
  <2>2. G(t, j).slotCount \in Nat BY TypedIs, GroupFields
  <2>3. \A i \in 0 .. j : Place(t, i) \in Nat BY <1>0 DEF Laid
  <2>4. PICK c \in Nat, d \in Nat : c = Place(t, j) /\ d = Place(t, j + 1) /\ c <= d BY <2>1, <2>2
  <2>5. ASSUME NEW i \in 0 .. j + 1 PROVE Place(t, i) <= d
    <3>1. CASE i = j + 1 BY <3>1, <2>4
    <3>2. CASE i \in 0 .. j
      <4>1. Place(t, i) <= c /\ Place(t, i) \in Nat BY <1>2, <2>3, <2>4, <3>2
      <4> QED BY <4>1, <2>4
    <3> QED BY <3>1, <3>2
  <2>6. j + 1 \in 0 .. Count(t) BY <1>0
  <2> QED BY <2>4, <2>5, <2>6
<1> HIDE DEF P
<1>3. \A j \in 0 .. Count(t) : j \in P BY <1>0, <1>1, <1>2, UpTo
<1> QED BY <1>3 DEF P

-----------------------------------------------------------------------------
(* Moving the gaps.                                                        *)

LEMMA SlotsAheadIs ==
  ASSUME Typed(table), Laid(table), NEW target \in table.groupGapStart .. Count(table)
  PROVE  SlotsAhead(target) = Place(table, target) - table.slotGapStart
<1> DEFINE first == table.groupGapStart + table.groupGapLen
           ahead == target - table.groupGapStart
           a == [k \in 0 .. ahead - 1 |-> table.groups[first + k].slotCount]
           t == [k \in 0 .. ahead |-> Place(table, table.groupGapStart + k)]
<1>0. table.groupGapStart \in 0 .. Count(table) /\ Count(table) \in Nat /\ ahead \in Nat
      /\ table.groupGapLen \in Nat /\ table.groupGapStart + ahead = target /\ target \in Nat
  BY TypedIs
<1>1. SlotsAhead(target) = SumOf(a, ahead) BY DEF SlotsAhead
<1>2. ASSUME NEW k \in 0 .. ahead - 1
      PROVE  table.groupGapStart + k \in 0 .. Count(table) - 1
             /\ a[k] = G(table, table.groupGapStart + k).slotCount
  <2>1. table.groupGapStart + k \in 0 .. Count(table) - 1 /\ ~(table.groupGapStart + k < table.groupGapStart)
        /\ first + k = table.groupGapStart + k + table.groupGapLen BY <1>0
  <2> QED BY <2>1 DEF G, Seen
<1>3. \A k \in 0 .. ahead - 1 : a[k] \in Int
  <2> HIDE DEF a
  <2>1. \A i \in 0 .. Count(table) - 1 : G(table, i).slotCount \in Nat BY TypedIs, GroupFields
  <2> QED BY <1>2, <2>1
<1> HIDE DEF a
<1>4. PICK s : Sums(s, a, ahead) /\ SumOf(a, ahead) = s[ahead]
  <2> HIDE DEF ahead
  <2> QED BY <1>0, <1>3, SumIs
<1>5. \A k \in 0 .. ahead : Place(table, table.groupGapStart + k) \in Int
  <2>1. \A k \in 0 .. ahead : table.groupGapStart + k \in 0 .. Count(table) BY <1>0
  <2> QED BY <2>1, LaidUp
<1>6. t \in [0 .. ahead -> Int] BY <1>5
<1>7. t[0 + 0] = s[0] + table.slotGapStart
  <2>1. table.groupGapStart + 0 = table.groupGapStart /\ 0 \in 0 .. ahead /\ 0 + 0 = 0 BY <1>0
  <2>2. t[0] = Place(table, table.groupGapStart) BY <2>1
  <2>3. table.slotGapStart \in Nat BY TypedIs
  <2> QED BY <1>4, <2>1, <2>2, <2>3 DEF Sums, Laid
<1>8. ASSUME NEW k \in 0 .. ahead - 1 PROVE t[k + 0 + 1] - t[k + 0] = s[k + 1] - s[k]
  <2>1. k + 0 + 1 = k + 1 /\ k + 0 = k /\ k \in 0 .. ahead /\ k + 1 \in 0 .. ahead
        /\ table.groupGapStart + (k + 1) = table.groupGapStart + k + 1 BY <1>0
  <2>2. t[k] = Place(table, table.groupGapStart + k) /\ t[k + 1] = Place(table, table.groupGapStart + k + 1) BY <2>1
  <2> HIDE DEF t
  <2>3. Place(table, table.groupGapStart + k + 1) = Place(table, table.groupGapStart + k) + a[k] BY <1>2 DEF Laid
  <2>4. s[k + 1] = s[k] + a[k] BY <1>4 DEF Sums
  <2>5. s[k] \in Int /\ a[k] \in Int /\ Place(table, table.groupGapStart + k) \in Int BY <1>3, <1>4, <1>5, <2>1 DEF Sums
  <2>6. PICK x \in Int, y \in Int, z \in Int : x = s[k] /\ y = a[k] /\ z = Place(table, table.groupGapStart + k) BY <2>5
  <2>7. s[k + 1] = x + y /\ t[k] = z /\ t[k + 1] = z + y BY <2>2, <2>3, <2>4, <2>6
  <2> QED BY <2>1, <2>6, <2>7
<1>9. t[ahead + 0] = s[ahead] + table.slotGapStart
  <2>1. s \in [0 .. ahead -> Int] BY <1>4 DEF Sums
  <2>2. 0 \in 0 .. ahead /\ ahead + 0 = ahead /\ table.slotGapStart \in Int BY <1>0, TypedIs
  <2>3. t \in [0 .. ahead + 0 -> Int] BY <1>6, <2>2
  <2>4. \A k \in 0 .. ahead - 1 : t[k + 0 + 1] - t[k + 0] = s[k + 1] - s[k] BY <1>8
  <2> HIDE DEF t, ahead
  <2>5. ahead \in Nat /\ 0 \in Nat BY <1>0
  <2> QED BY ONLY <1>7, <2>1, <2>2, <2>3, <2>4, <2>5, SumsFrom
<1>10. t[ahead + 0] = Place(table, target) BY <1>0
<1>11. s[ahead] \in Int /\ table.slotGapStart \in Int BY <1>0, <1>4, TypedIs DEF Sums
<1> QED BY <1>1, <1>4, <1>9, <1>10, <1>11

\* Moving the gaps to the left.
LEMMA MovedLeftIs ==
  ASSUME Typed(table), Laid(table), NEW target \in 0 .. table.groupGapStart - 1, Fits(target),
         NEW t2, t2 = MovedLeft(target)
  PROVE  SameTable(table, t2) /\ Typed(t2) /\ Laid(t2) /\ t2.groupGapStart = target
<1>1. PICK t : t = table OBVIOUS
<1>2. Typed(t) /\ Laid(t) BY <1>1
<1>3. PICK gs \in Nat, gl \in Nat, sgs \in Nat, sgl \in Nat :
        gs = t.groupGapStart /\ gl = t.groupGapLen /\ sgs = t.slotGapStart /\ sgl = t.slotGapLen
  <2>1. {t.groupGapStart, t.groupGapLen, t.slotGapStart, t.slotGapLen} \subseteq Nat BY <1>2, TypedIs
  <2> QED BY <2>1
<1>4. /\ gs + gl <= GroupCapacity /\ sgs + sgl <= SlotCapacity /\ target \in 0 .. gs - 1
      /\ GroupCapacity \in Nat /\ SlotCapacity \in Nat
      /\ Count(t) = GroupCapacity - gl /\ Words(t) = SlotCapacity - sgl
  BY <1>1, <1>2, <1>3, TypedIs DEF Typed, Count, Words
<1>5. /\ t.groups \in [0 .. GroupCapacity - 1 -> Group]
      /\ t.slots \in [0 .. SlotCapacity - 1 -> Values \union {0}]
  BY <1>2, TypedIs
<1>6. \A i \in 0 .. gs - 1 :
        i \in 0 .. Count(t) - 1 /\ G(t, i) = t.groups[i] /\ Place(t, i) = t.groups[i].slotIndex /\ t.groups[i] \in Group
  <2> TAKE i \in 0 .. gs - 1
  <2>1. i \in 0 .. Count(t) - 1 /\ i # Count(t) /\ i < gs /\ i \in 0 .. GroupCapacity - 1 BY <1>4
  <2>2. G(t, i) = t.groups[i] BY <1>3, <2>1 DEF G, Seen
  <2> QED BY <1>3, <1>5, <2>1, <2>2 DEF Place
<1>7. PICK sl \in Nat : sl = t.groups[target].slotIndex /\ sl = Place(t, target)
  BY <1>4, <1>6, GroupFields
<1>8. sl <= sgs
  <2>1. Place(t, gs) = sgs BY <1>2, <1>3 DEF Laid
  <2>2. gs \in 0 .. Count(t) /\ target \in 0 .. gs BY <1>4
  <2>3. Place(t, target) <= Place(t, gs) BY <1>2, <2>2, LaidUp
  <2> QED BY <1>7, <2>1, <2>3
<1>9. gs - target <= gl /\ sgs - sl <= sgl
  <2>1. target < table.groupGapStart BY <1>1, <1>3, <1>4
  <2> QED BY <1>1, <1>3, <1>7, <2>1 DEF Fits
<1>10. PICK adj : adj = ShiftedGroups(sgl) OBVIOUS
<1>11. \A i \in 0 .. GroupCapacity - 1 : adj[i] = [t.groups[i] EXCEPT !.slotIndex = t.groups[i].slotIndex + sgl]
  BY <1>1, <1>5, <1>10 DEF ShiftedGroups, ShiftedSlots
<1>12. ASSUME NEW i \in target .. gs - 1 PROVE adj[i] \in Group
  <2>1. i \in 0 .. GroupCapacity - 1 BY <1>4
  <2>2. t.groups[i] \in Group BY <1>5, <2>1
  <2>3. t.groups[i].slotIndex + sgl \in Nat BY <2>2, GroupFields
  <2>4. adj[i] = [t.groups[i] EXCEPT !.slotIndex = t.groups[i].slotIndex + sgl] BY <2>1, <1>11
  <2> QED BY <2>2, <2>3, <2>4, GroupFields
<1>13. PICK b : b = Moved(t.groups, adj, target + gl, target, gs - target, ZeroGroup) OBVIOUS
<1>14. PICK w : w = Moved(t.slots, t.slots, sl + sgl, sl, sgs - sl, 0) OBVIOUS
<1>15. t2 = [t EXCEPT !.groups = b, !.slots = w, !.groupGapStart = target, !.slotGapStart = sl]
  BY <1>1, <1>3, <1>7, <1>10, <1>13, <1>14 DEF MovedLeft
<1>16. ZeroGroup \in Group BY ZeroIs
<1>17. /\ b \in [0 .. GroupCapacity - 1 -> Group]
       /\ \A i \in 0 .. GroupCapacity - gl - 1 :
            Seen(b, target, gl, i) = IF i \in target .. gs - 1 THEN adj[i] ELSE Seen(t.groups, gs, gl, i)
  <2>1. target \in 0 .. gs BY <1>4
  <2>2. GoesLeft(GroupCapacity, Group, t.groups, gs, gl, target, adj, ZeroGroup)
    BY <1>4, <1>5, <1>9, <1>12, <1>16, <2>1 DEF GoesLeft
  <2> QED BY <2>2, <1>13, GapLeft
<1>18. /\ w \in [0 .. SlotCapacity - 1 -> Values \union {0}]
       /\ \A k \in 0 .. SlotCapacity - sgl - 1 : Seen(w, sl, sgl, k) = Seen(t.slots, sgs, sgl, k)
  <2>1. sl \in 0 .. sgs BY <1>7, <1>8
  <2>2. \A k \in sl .. sgs - 1 : t.slots[k] \in Values \union {0} BY <1>4, <1>5
  <2>3. 0 \in Values \union {0} OBVIOUS
  <2>4. /\ w \in [0 .. SlotCapacity - 1 -> Values \union {0}]
        /\ \A k \in 0 .. SlotCapacity - sgl - 1 :
             Seen(w, sl, sgl, k) = IF k \in sl .. sgs - 1 THEN t.slots[k] ELSE Seen(t.slots, sgs, sgl, k)
    <3>1. GoesLeft(SlotCapacity, Values \union {0}, t.slots, sgs, sgl, sl, t.slots, 0)
      BY <1>4, <1>5, <1>9, <2>1, <2>2, <2>3 DEF GoesLeft
    <3> QED BY <3>1, <1>14, GapLeft
  <2>5. \A k \in sl .. sgs - 1 : Seen(t.slots, sgs, sgl, k) = t.slots[k] BY <1>7 DEF Seen
  <2> QED BY <2>4, <2>5
<1>19. /\ t2.groups = b /\ t2.slots = w /\ t2.groupGapStart = target /\ t2.slotGapStart = sl
       /\ t2.groupGapLen = gl /\ t2.slotGapLen = sgl
       /\ t2.readerCount = t.readerCount /\ t2.writerActive = t.writerActive
       /\ Count(t2) = Count(t) /\ Words(t2) = Words(t)
  BY <1>2, <1>3, <1>15 DEF Typed, Tables, Count, Words
<1>20. Typed(t2)
  <2>2. t \in Tables BY <1>2 DEF Typed
  <2>3. target \in 0 .. GroupCapacity /\ sl \in 0 .. SlotCapacity BY <1>4, <1>7, <1>8
  <2>1. t2 \in Tables BY <2>2, <2>3, <1>15, <1>17, <1>18 DEF Tables
  <2> QED BY <2>1, <1>4, <1>7, <1>8, <1>19 DEF Typed
<1>21. ASSUME NEW i \in 0 .. Count(t) - 1
       PROVE  /\ Place(t2, i) = Place(t, i)
              /\ \E k \in Nat : G(t2, i) = [G(t, i) EXCEPT !.slotIndex = k]
  <2>1. G(t2, i) = IF i \in target .. gs - 1 THEN adj[i] ELSE G(t, i)
    BY <1>3, <1>4, <1>17, <1>19 DEF G
  <2>2. i # Count(t) /\ G(t, i) \in Group BY <1>2, TypedIs
  <2>3. G(t, i) = [G(t, i) EXCEPT !.slotIndex = G(t, i).slotIndex] /\ G(t, i).slotIndex \in Nat
    BY <2>2 DEF Group
  <2>4. CASE i \in target .. gs - 1
    <3>1. i \in 0 .. GroupCapacity - 1 /\ i \in 0 .. gs - 1 /\ ~(i < target) BY <1>4, <2>4
    <3>2. G(t, i) = t.groups[i] BY <1>6, <3>1
    <3>3. PICK k \in Nat : k = G(t, i).slotIndex BY <2>3
    <3>4. adj[i] = [G(t, i) EXCEPT !.slotIndex = k + sgl] BY <1>11, <3>1, <3>2, <3>3
    <3>5. G(t2, i).slotIndex = k + sgl BY <2>1, <2>2, <2>4, <3>4, GroupFields
    <3>6. Place(t2, i) = (k + sgl) - sgl BY <2>2, <3>1, <3>5, <1>19 DEF Place
    <3>7. Place(t, i) = k BY <1>6, <3>1, <3>2, <3>3
    <3> QED BY <2>1, <2>4, <3>4, <3>6, <3>7
  <2>5. CASE i \notin target .. gs - 1
    <3>1. i < target <=> i < gs BY <1>4, <2>5
    <3>2. Place(t2, i) = Place(t, i) BY <1>3, <1>19, <2>1, <2>5, <3>1 DEF Place
    <3> QED BY <2>1, <2>3, <2>5, <3>2
  <2> QED BY <2>4, <2>5
<1>22. \A i \in 0 .. Count(t) : Place(t2, i) = Place(t, i)
  <2>1. Place(t2, Count(t)) = Place(t, Count(t)) BY <1>19 DEF Place
  <2>2. \A i \in 0 .. Count(t) : i = Count(t) \/ i \in 0 .. Count(t) - 1 BY <1>2, TypedIs
  <2> QED BY <1>21, <2>1, <2>2
<1>23. \A k \in 0 .. Words(t) - 1 : W(t2, k) = W(t, k) BY <1>3, <1>4, <1>18, <1>19 DEF W
<1>24. SameTable(t, t2) BY <1>3, <1>19, <1>21, <1>22, <1>23 DEF SameTable
<1>25. Laid(t2)
  <2>1. target \in 0 .. Count(t) /\ 0 \in 0 .. Count(t) BY <1>4
  <2>2. Place(t2, target) = sl /\ Place(t2, 0) = 0 BY <1>2, <1>7, <1>22, <2>1 DEF Laid
  <2>3. ASSUME NEW i \in 0 .. Count(t) - 1
        PROVE  Place(t2, i) \in Nat /\ Place(t2, i + 1) = Place(t2, i) + G(t2, i).slotCount
    <3>1. i \in 0 .. Count(t) /\ i + 1 \in 0 .. Count(t) BY <1>2, TypedIs
    <3>2. G(t, i) \in Group BY <1>2, TypedIs
    <3>3. PICK k \in Nat : G(t2, i) = [G(t, i) EXCEPT !.slotIndex = k] BY <1>21
    <3>4. G(t2, i).slotCount = G(t, i).slotCount BY <3>2, <3>3, GroupFields
    <3>5. Place(t, i) \in Nat /\ Place(t, i + 1) = Place(t, i) + G(t, i).slotCount BY <1>2 DEF Laid
    <3> QED BY <1>22, <3>1, <3>4, <3>5
  <2> QED BY <1>19, <2>2, <2>3 DEF Laid
<1> QED BY <1>1, <1>19, <1>20, <1>24, <1>25

\* And to the right.
LEMMA MovedRightIs ==
  ASSUME Typed(table), Laid(table), NEW target \in table.groupGapStart + 1 .. Count(table),
         Fits(target), NEW t2, t2 = MovedRight(target)
  PROVE  SameTable(table, t2) /\ Typed(t2) /\ Laid(t2) /\ t2.groupGapStart = target
<1>1. PICK t : t = table OBVIOUS
<1>2. Typed(t) /\ Laid(t) BY <1>1
<1>3. PICK gs \in Nat, gl \in Nat, sgs \in Nat, sgl \in Nat :
        gs = t.groupGapStart /\ gl = t.groupGapLen /\ sgs = t.slotGapStart /\ sgl = t.slotGapLen
  <2>1. {t.groupGapStart, t.groupGapLen, t.slotGapStart, t.slotGapLen} \subseteq Nat BY <1>2, TypedIs
  <2> QED BY <2>1
<1>4. /\ gs + gl <= GroupCapacity /\ sgs + sgl <= SlotCapacity /\ target \in gs + 1 .. GroupCapacity - gl
      /\ GroupCapacity \in Nat /\ SlotCapacity \in Nat
      /\ Count(t) = GroupCapacity - gl /\ Words(t) = SlotCapacity - sgl
  BY <1>1, <1>2, <1>3, TypedIs DEF Typed, Count, Words
<1>5. /\ t.groups \in [0 .. GroupCapacity - 1 -> Group]
      /\ t.slots \in [0 .. SlotCapacity - 1 -> Values \union {0}]
  BY <1>2, TypedIs
<1>6. \A i \in gs .. Count(t) - 1 :
        /\ i \in 0 .. Count(t) - 1 /\ G(t, i) = t.groups[i + gl] /\ i + gl \in 0 .. GroupCapacity - 1
        /\ Place(t, i) = t.groups[i + gl].slotIndex - sgl /\ t.groups[i + gl] \in Group
  <2> TAKE i \in gs .. Count(t) - 1
  <2>1. i \in 0 .. Count(t) - 1 /\ i # Count(t) /\ ~(i < gs) /\ i + gl \in 0 .. GroupCapacity - 1 BY <1>4
  <2>2. G(t, i) = t.groups[i + gl] BY <1>3, <2>1 DEF G, Seen
  <2> QED BY <1>3, <1>5, <2>1, <2>2 DEF Place
<1>7. PICK sl \in Nat : sl = Place(t, target)
  <2>1. target \in 0 .. Count(t) BY <1>4
  <2> QED BY <2>1, <1>2, LaidUp
<1>8. sgs <= sl /\ sl <= SlotCapacity - sgl
  <2>1. Place(t, gs) = sgs BY <1>2, <1>3 DEF Laid
  <2>2. gs \in 0 .. target /\ target \in 0 .. Count(t) /\ Count(t) \in 0 .. Count(t) BY <1>4
  <2>3. Place(t, gs) <= Place(t, target) /\ Place(t, target) <= Place(t, Count(t)) BY <1>2, <2>2, LaidUp
  <2>4. Place(t, Count(t)) = SlotCapacity - sgl BY <1>4 DEF Place
  <2> QED BY <1>7, <2>1, <2>3, <2>4
<1>9. SlotsAhead(target) = sl - sgs
  <2>1. target \in table.groupGapStart .. Count(table) BY <1>1, <1>3, <1>4
  <2> QED BY <1>1, <1>2, <1>3, <1>7, <2>1, SlotsAheadIs
<1>10. target - gs <= gl /\ sl - sgs <= sgl
  <2>1. ~(target < table.groupGapStart) BY <1>1, <1>3, <1>4
  <2> QED BY <1>1, <1>3, <1>9, <2>1 DEF Fits
<1>11. PICK adj : adj = ShiftedGroups(-sgl) OBVIOUS
<1>12. \A i \in 0 .. GroupCapacity - 1 : adj[i] = [t.groups[i] EXCEPT !.slotIndex = t.groups[i].slotIndex + (-sgl)]
  BY <1>1, <1>5, <1>11 DEF ShiftedGroups, ShiftedSlots
<1>13. ASSUME NEW i \in gs .. target - 1
       PROVE  /\ adj[i + gl] \in Group /\ Place(t, i) \in Nat
              /\ adj[i + gl] = [G(t, i) EXCEPT !.slotIndex = Place(t, i)]
  <2>1. i \in gs .. Count(t) - 1 BY <1>4
  <2>2. Place(t, i) \in Nat
    <3>1. i \in 0 .. Count(t) BY <2>1, <1>6, <1>4
    <3> QED BY <3>1, <1>2, LaidUp
  <2>3. G(t, i) = t.groups[i + gl] /\ G(t, i) \in Group BY <2>1, <1>6
  <2>4. PICK k \in Nat : k = G(t, i).slotIndex BY <2>3, GroupFields
  <2>5. k + (-sgl) = Place(t, i) BY <2>1, <2>3, <2>4, <1>6
  <2>6. adj[i + gl] = [G(t, i) EXCEPT !.slotIndex = Place(t, i)] BY <2>1, <2>3, <2>4, <2>5, <1>6, <1>12
  <2> QED BY <2>2, <2>3, <2>6, GroupFields
<1>14. PICK b : b = Moved(t.groups, adj, gs, gs + gl, target - gs, ZeroGroup) OBVIOUS
<1>15. PICK w : w = Moved(t.slots, t.slots, sgs, sgs + sgl, sl - sgs, 0) OBVIOUS
<1>16. t2 = [t EXCEPT !.groups = b, !.slots = w, !.groupGapStart = target, !.slotGapStart = sl]
  <2>1. sgs + (sl - sgs) = sl BY <1>7
  <2> QED BY <1>1, <1>3, <1>9, <1>11, <1>14, <1>15, <2>1 DEF MovedRight
<1>17. ZeroGroup \in Group BY ZeroIs
<1>18. /\ b \in [0 .. GroupCapacity - 1 -> Group]
       /\ \A i \in 0 .. GroupCapacity - gl - 1 :
            Seen(b, target, gl, i) = IF i \in gs .. target - 1 THEN adj[i + gl] ELSE Seen(t.groups, gs, gl, i)
  <2>1. target \in gs .. GroupCapacity - gl /\ gl <= GroupCapacity BY <1>4
  <2>2. GoesRight(GroupCapacity, Group, t.groups, gs, gl, target, adj, ZeroGroup)
    BY <1>4, <1>5, <1>10, <1>13, <1>17, <2>1 DEF GoesRight
  <2> QED BY <2>2, <1>14, GapRight
<1>19. /\ w \in [0 .. SlotCapacity - 1 -> Values \union {0}]
       /\ \A k \in 0 .. SlotCapacity - sgl - 1 : Seen(w, sl, sgl, k) = Seen(t.slots, sgs, sgl, k)
  <2>1. sl \in sgs .. SlotCapacity - sgl /\ sgl <= SlotCapacity BY <1>4, <1>7, <1>8
  <2>2. \A k \in sgs .. sl - 1 : t.slots[k + sgl] \in Values \union {0}
    <3>1. \A k \in sgs .. sl - 1 : k + sgl \in 0 .. SlotCapacity - 1 BY <1>4, <1>7, <1>8
    <3> QED BY <1>5, <3>1
  <2>3. 0 \in Values \union {0} OBVIOUS
  <2>4. /\ w \in [0 .. SlotCapacity - 1 -> Values \union {0}]
        /\ \A k \in 0 .. SlotCapacity - sgl - 1 :
             Seen(w, sl, sgl, k) = IF k \in sgs .. sl - 1 THEN t.slots[k + sgl] ELSE Seen(t.slots, sgs, sgl, k)
    <3>1. GoesRight(SlotCapacity, Values \union {0}, t.slots, sgs, sgl, sl, t.slots, 0)
      BY <1>4, <1>5, <1>10, <2>1, <2>2, <2>3 DEF GoesRight
    <3> QED BY <3>1, <1>15, GapRight
  <2>5. \A k \in sgs .. sl - 1 : Seen(t.slots, sgs, sgl, k) = t.slots[k + sgl] BY <1>7 DEF Seen
  <2> QED BY <2>4, <2>5
<1>20. /\ t2.groups = b /\ t2.slots = w /\ t2.groupGapStart = target /\ t2.slotGapStart = sl
       /\ t2.groupGapLen = gl /\ t2.slotGapLen = sgl
       /\ t2.readerCount = t.readerCount /\ t2.writerActive = t.writerActive
       /\ Count(t2) = Count(t) /\ Words(t2) = Words(t)
  BY <1>2, <1>3, <1>16 DEF Typed, Tables, Count, Words
<1>21. Typed(t2)
  <2>2. t \in Tables BY <1>2 DEF Typed
  <2>3. target \in 0 .. GroupCapacity /\ sl \in 0 .. SlotCapacity BY <1>4, <1>7, <1>8
  <2>1. t2 \in Tables BY <2>2, <2>3, <1>16, <1>18, <1>19 DEF Tables
  <2> QED BY <2>1, <1>4, <1>7, <1>8, <1>20 DEF Typed
<1>22. ASSUME NEW i \in 0 .. Count(t) - 1
       PROVE  /\ Place(t2, i) = Place(t, i)
              /\ \E k \in Nat : G(t2, i) = [G(t, i) EXCEPT !.slotIndex = k]
  <2>1. G(t2, i) = IF i \in gs .. target - 1 THEN adj[i + gl] ELSE G(t, i)
    BY <1>3, <1>4, <1>18, <1>20 DEF G
  <2>2. i # Count(t) /\ G(t, i) \in Group BY <1>2, TypedIs
  <2>3. G(t, i) = [G(t, i) EXCEPT !.slotIndex = G(t, i).slotIndex] /\ G(t, i).slotIndex \in Nat
    BY <2>2 DEF Group
  <2>4. CASE i \in gs .. target - 1
    <3>1. i < target BY <1>4, <2>4
    <3>2. PICK k \in Nat : k = Place(t, i) /\ adj[i + gl] = [G(t, i) EXCEPT !.slotIndex = k] BY <1>13, <2>4
    <3>3. G(t2, i).slotIndex = k BY <2>1, <2>2, <2>4, <3>2, GroupFields
    <3>4. Place(t2, i) = k BY <2>2, <3>1, <3>3, <1>20 DEF Place
    <3> QED BY <2>1, <2>4, <3>2, <3>4
  <2>5. CASE i \notin gs .. target - 1
    <3>1. i < target <=> i < gs BY <1>4, <2>5
    <3>2. Place(t2, i) = Place(t, i) BY <1>3, <1>20, <2>1, <2>5, <3>1 DEF Place
    <3> QED BY <2>1, <2>3, <2>5, <3>2
  <2> QED BY <2>4, <2>5
<1>23. \A i \in 0 .. Count(t) : Place(t2, i) = Place(t, i)
  <2>1. Place(t2, Count(t)) = Place(t, Count(t)) BY <1>20 DEF Place
  <2>2. \A i \in 0 .. Count(t) : i = Count(t) \/ i \in 0 .. Count(t) - 1 BY <1>2, TypedIs
  <2> QED BY <1>22, <2>1, <2>2
<1>24. \A k \in 0 .. Words(t) - 1 : W(t2, k) = W(t, k) BY <1>3, <1>4, <1>19, <1>20 DEF W
<1>25. SameTable(t, t2) BY <1>3, <1>20, <1>22, <1>23, <1>24 DEF SameTable
<1>26. Laid(t2)
  <2>1. target \in 0 .. Count(t) /\ 0 \in 0 .. Count(t) BY <1>4
  <2>2. Place(t2, target) = sl /\ Place(t2, 0) = 0 BY <1>2, <1>7, <1>23, <2>1 DEF Laid
  <2>3. ASSUME NEW i \in 0 .. Count(t) - 1
        PROVE  Place(t2, i) \in Nat /\ Place(t2, i + 1) = Place(t2, i) + G(t2, i).slotCount
    <3>1. i \in 0 .. Count(t) /\ i + 1 \in 0 .. Count(t) BY <1>2, TypedIs
    <3>2. G(t, i) \in Group BY <1>2, TypedIs
    <3>3. PICK k \in Nat : G(t2, i) = [G(t, i) EXCEPT !.slotIndex = k] BY <1>22
    <3>4. G(t2, i).slotCount = G(t, i).slotCount BY <3>2, <3>3, GroupFields
    <3>5. Place(t, i) \in Nat /\ Place(t, i + 1) = Place(t, i) + G(t, i).slotCount BY <1>2 DEF Laid
    <3> QED BY <1>23, <3>1, <3>4, <3>5
  <2> QED BY <1>20, <2>2, <2>3 DEF Laid
<1> QED BY <1>1, <1>20, <1>21, <1>25, <1>26

LEMMA GapMoved ==
  ASSUME Typed(table), Laid(table), NEW target \in 0 .. Count(table), target # table.groupGapStart,
         Fits(target), NEW t2, t2 = MoveGapTo(target)
  PROVE  SameTable(table, t2) /\ Typed(t2) /\ Laid(t2) /\ t2.groupGapStart = target
<1>1. table.groupGapStart \in 0 .. Count(table) /\ Count(table) \in Nat BY TypedIs
<1>2. CASE target < table.groupGapStart
  <2>1. target \in 0 .. table.groupGapStart - 1 BY <1>1, <1>2
  <2>2. t2 = MovedLeft(target) BY <1>2 DEF MoveGapTo
  <2> QED BY <2>1, <2>2, MovedLeftIs
<1>3. CASE ~(target < table.groupGapStart)
  <2>1. target \in table.groupGapStart + 1 .. Count(table) BY <1>1, <1>3
  <2>2. t2 = MovedRight(target) BY <1>3 DEF MoveGapTo
  <2> QED BY <2>1, <2>2, MovedRightIs
<1> QED BY <1>2, <1>3

-----------------------------------------------------------------------------
(* The invariant.                                                          *)

UpOf(t) == [i \in 0 .. Count(t) - 1 |-> G(t, i).parentIndex]
FlagsOf(t) == [i \in 0 .. Count(t) - 1 |-> G(t, i).flags]

OpenIn(w) == {w[d] : d \in DOMAIN w}

\* The place behind the subtree of each group; that of an open group ends at
\* the gap, whatever its size says.
EndsOf(t, w) ==
  [i \in 0 .. Count(t) - 1 |->
     IF i \in OpenIn(w) THEN t.groupGapStart ELSE i + 1 + G(t, i).groupSize]

\* The open groups are a path from a root, and all that is above one of them.
Path(up, end, w, gs) ==
  \A d \in DOMAIN w :
    /\ w[d] \in 0 .. gs - 1
    /\ up[w[d]] = IF d = 1 THEN None ELSE w[d - 1]
    /\ d > 1 => w[d - 1] < w[d]
    /\ \A i \in 0 .. w[d] - 1 : w[d] < end[i] => i \in OpenIn(w)

\* A reader is between two children of its parent, or at their end.
Reads(n, up, end, r) ==
  /\ r.currentGroup <= r.groupEnd
  /\ IF r.currentParent = None
     THEN r.groupEnd = n /\ (r.currentGroup < n => up[r.currentGroup] = None)
     ELSE /\ r.currentParent \in 0 .. n - 1 /\ r.currentParent < r.currentGroup
          /\ r.groupEnd = end[r.currentParent]
          /\ r.currentGroup < r.groupEnd => up[r.currentGroup] = r.currentParent

\* Above a group that is marked in any way all are marked, but for those that
\* a walk is inside of; what a walk has left behind is clean.
Marked(n, end, flags, wk) ==
  \A i \in 0 .. n - 1 : flags[i] # {} =>
    /\ wk # None => wk <= i
    /\ \A j \in 0 .. i - 1 : i < end[j] =>
         "contains" \in flags[j] \/ (wk # None /\ j < wk)

Readers == [open : BOOLEAN, currentGroup : 0 .. GroupCapacity, currentSlot : Nat,
            currentParent : 0 .. None, groupEnd : 0 .. GroupCapacity]

TreeOK(t, w) ==
  /\ Nested(Count(t), UpOf(t), EndsOf(t, w))
  /\ t.groupGapStart < Count(t) => UpOf(t)[t.groupGapStart] = None

WriterOK(t, w) ==
  /\ w \in Seq(0 .. GroupCapacity - 1) /\ Len(w) <= MaxDepth
  /\ w # <<>> => t.writerActive
  /\ Path(UpOf(t), EndsOf(t, w), w, t.groupGapStart)

ReaderOK(t, w, r) ==
  /\ r \in Readers
  /\ t.readerCount = IF r.open THEN 1 ELSE 0
  /\ r.open => ~t.writerActive /\ Reads(Count(t), UpOf(t), EndsOf(t, w), r)

WalkOK(t, w, wk) ==
  /\ wk = None \/ (wk \in 0 .. Count(t) /\ ~t.writerActive)
  /\ Marked(Count(t), EndsOf(t, w), FlagsOf(t), wk)

Consistent(t, w, r, wk) ==
  Typed(t) /\ Laid(t) /\ TreeOK(t, w) /\ WriterOK(t, w) /\ ReaderOK(t, w, r) /\ WalkOK(t, w, wk)

TableInv == Consistent(table, writer, reader, walk)

-----------------------------------------------------------------------------
(* What the steps have in common.                                          *)

\* The places of the groups are those before.
SamePlaces(t, u) ==
  /\ u.groupGapStart = t.groupGapStart /\ u.groupGapLen = t.groupGapLen
  /\ u.slotGapStart = t.slotGapStart /\ u.slotGapLen = t.slotGapLen
  /\ \A i \in 0 .. Count(t) - 1 :
       G(u, i).slotIndex = G(t, i).slotIndex /\ G(u, i).slotCount = G(t, i).slotCount

LEMMA LaidKept ==
  ASSUME NEW t, NEW u, Typed(t), Laid(t), SamePlaces(t, u)
  PROVE  Laid(u) /\ \A i \in 0 .. Count(t) : Place(u, i) = Place(t, i)
<1>1. Count(u) = Count(t) /\ Words(u) = Words(t) BY DEF SamePlaces, Count, Words
<1>2. ASSUME NEW i \in 0 .. Count(t) PROVE Place(u, i) = Place(t, i)
  <2>1. CASE i = Count(t) BY <2>1, <1>1 DEF Place
  <2>2. CASE i # Count(t)
    <3>1. i \in 0 .. Count(t) - 1 BY <2>2, TypedIs
    <3>2. G(u, i).slotIndex = G(t, i).slotIndex BY <3>1 DEF SamePlaces
    <3>3. u.groupGapStart = t.groupGapStart /\ u.slotGapLen = t.slotGapLen BY DEF SamePlaces
    <3> QED BY <2>2, <3>2, <3>3, <1>1 DEF Place
  <2> QED BY <2>1, <2>2
<1>3. Place(u, 0) = 0 /\ Place(u, u.groupGapStart) = u.slotGapStart
  <2>1. 0 \in 0 .. Count(t) /\ t.groupGapStart \in 0 .. Count(t) BY TypedIs
  <2> QED BY <1>2, <2>1 DEF Laid, SamePlaces
<1>4. ASSUME NEW i \in 0 .. Count(t) - 1
      PROVE  Place(u, i) \in Nat /\ Place(u, i + 1) = Place(u, i) + G(u, i).slotCount
  <2>1. i \in 0 .. Count(t) /\ i + 1 \in 0 .. Count(t) BY TypedIs
  <2>2. Place(u, i) = Place(t, i) /\ Place(u, i + 1) = Place(t, i + 1) BY <1>2, <2>1
  <2>3. G(u, i).slotCount = G(t, i).slotCount BY DEF SamePlaces
  <2> QED BY <2>2, <2>3 DEF Laid
<1> QED BY <1>1, <1>2, <1>3, <1>4 DEF Laid

\* What a forest shows of a table, but for the nodes.
SameButNodes(t, u) ==
  /\ Count(u) = Count(t)
  /\ \A i \in 0 .. Count(t) - 1 :
       /\ G(u, i).key = G(t, i).key /\ G(u, i).parentIndex = G(t, i).parentIndex
       /\ G(u, i).slotCount = G(t, i).slotCount /\ Place(u, i) = Place(t, i)
  /\ \A k \in 0 .. Words(t) - 1 : W(u, k) = W(t, k)

SameShow(t, u) ==
  SameButNodes(t, u) /\ \A i \in 0 .. Count(t) - 1 : G(u, i).nodeCount = G(t, i).nodeCount

\* The step changes nothing that the forest shows.
Unseen ==
  SameShow(table, table') /\ table'.groupGapStart = table.groupGapStart /\ writer' = writer

LEMMA ShowKept ==
  ASSUME NEW t, NEW u, Typed(t), Laid(t), SamePlaces(t, u), u.slots = t.slots,
         \A i \in 0 .. Count(t) - 1 : G(u, i).key = G(t, i).key /\ G(u, i).parentIndex = G(t, i).parentIndex
  PROVE  SameButNodes(t, u)
<1>1. \A i \in 0 .. Count(t) - 1 : i \in 0 .. Count(t) BY TypedIs
<1>2. \A i \in 0 .. Count(t) - 1 : Place(u, i) = Place(t, i) BY <1>1, LaidKept
<1>3. Count(u) = Count(t) /\ \A k : W(u, k) = W(t, k) BY DEF SamePlaces, Count, W
<1> QED BY <1>2, <1>3 DEF SameButNodes, SamePlaces

\* The head of the table is all that differs.
LEMMA HeadChanged ==
  ASSUME NEW t, NEW u, u.groups = t.groups, u.slots = t.slots,
         u.groupGapStart = t.groupGapStart, u.groupGapLen = t.groupGapLen,
         u.slotGapStart = t.slotGapStart, u.slotGapLen = t.slotGapLen
  PROVE  SameShow(t, u)
<1>1. Count(u) = Count(t) /\ Words(u) = Words(t) BY DEF Count, Words
<1>2. \A i : G(u, i) = G(t, i) /\ W(u, i) = W(t, i) BY DEF G, W
<1>3. \A i : Place(u, i) = Place(t, i) BY <1>1, <1>2 DEF Place
<1> QED BY <1>1, <1>2, <1>3 DEF SameShow, SameButNodes

\* The links and the sizes are those before.
SameLinks(t, u) ==
  /\ Count(u) = Count(t)
  /\ \A i \in 0 .. Count(t) - 1 :
       G(u, i).parentIndex = G(t, i).parentIndex /\ G(u, i).groupSize = G(t, i).groupSize

LEMMA LinksKept ==
  ASSUME NEW t, NEW u, NEW w, SameLinks(t, u), w = <<>> \/ u.groupGapStart = t.groupGapStart
  PROVE  UpOf(u) = UpOf(t) /\ EndsOf(u, w) = EndsOf(t, w)
<1>1. UpOf(u) = UpOf(t) BY DEF UpOf, SameLinks
<1>2. CASE w = <<>>
  <2>1. OpenIn(w) = {} BY <1>2 DEF OpenIn
  <2> QED BY <1>1, <2>1 DEF EndsOf, SameLinks
<1>3. CASE u.groupGapStart = t.groupGapStart BY <1>1, <1>3 DEF EndsOf, SameLinks
<1> QED BY <1>2, <1>3

\* One group is changed.
LEMMA SetGroup ==
  ASSUME NEW t, Typed(t), NEW i \in 0 .. Count(t) - 1, NEW g \in Group,
         NEW p, p = (IF i < t.groupGapStart THEN i ELSE i + t.groupGapLen),
         NEW u, u = [t EXCEPT !.groups = [t.groups EXCEPT ![p] = g]]
  PROVE  /\ Typed(u) /\ p \in 0 .. GroupCapacity - 1 /\ t.groups[p] = G(t, i)
         /\ \A j \in 0 .. Count(t) - 1 : G(u, j) = IF j = i THEN g ELSE G(t, j)
         /\ u.groupGapStart = t.groupGapStart /\ u.groupGapLen = t.groupGapLen
         /\ u.slotGapStart = t.slotGapStart /\ u.slotGapLen = t.slotGapLen
         /\ u.slots = t.slots /\ u.readerCount = t.readerCount /\ u.writerActive = t.writerActive
<1>1. PICK gs \in Nat, gl \in Nat : gs = t.groupGapStart /\ gl = t.groupGapLen
  <2>1. t.groupGapStart \in Nat /\ t.groupGapLen \in Nat BY TypedIs
  <2> QED BY <2>1
<1>2. gs + gl <= GroupCapacity /\ GroupCapacity \in Nat /\ Count(t) = GroupCapacity - gl
  BY <1>1, TypedIs DEF Typed, Count
<1>3. p \in 0 .. GroupCapacity - 1 BY <1>1, <1>2
<1>4. t \in Tables /\ t.groups \in [0 .. GroupCapacity - 1 -> Group] BY TypedIs DEF Typed
<1>5. /\ u.groupGapStart = t.groupGapStart /\ u.groupGapLen = t.groupGapLen
      /\ u.slotGapStart = t.slotGapStart /\ u.slotGapLen = t.slotGapLen
      /\ u.slots = t.slots /\ u.readerCount = t.readerCount /\ u.writerActive = t.writerActive
      /\ u.groups = [t.groups EXCEPT ![p] = g]
  BY <1>4 DEF Tables
<1>6. [t.groups EXCEPT ![p] = g] \in [0 .. GroupCapacity - 1 -> Group] BY <1>4
<1>7. u \in Tables BY <1>4, <1>6 DEF Tables
<1>8. Typed(u) BY <1>5, <1>7 DEF Typed
<1>9. ASSUME NEW j \in 0 .. Count(t) - 1 PROVE G(u, j) = IF j = i THEN g ELSE G(t, j)
  <2> DEFINE q == IF j < gs THEN j ELSE j + gl
  <2>1. q \in 0 .. GroupCapacity - 1 /\ (q = p <=> j = i) BY <1>1, <1>2
  <2>2. G(u, j) = u.groups[q] /\ G(t, j) = t.groups[q] BY <1>1, <1>5 DEF G, Seen
  <2> HIDE DEF q
  <2> QED BY <1>4, <1>5, <2>1, <2>2
<1>10. t.groups[p] = G(t, i) BY <1>1 DEF G, Seen
<1> QED BY <1>3, <1>5, <1>8, <1>9, <1>10

LEMMA ShapeKept ==
  ASSUME NEW t, NEW u, NEW w, NEW r, TreeOK(t, w), WriterOK(t, w), ReaderOK(t, w, r),
         SameLinks(t, u), u.groupGapStart = t.groupGapStart,
         u.readerCount = t.readerCount, u.writerActive = t.writerActive
  PROVE  /\ TreeOK(u, w) /\ WriterOK(u, w) /\ ReaderOK(u, w, r)
         /\ UpOf(u) = UpOf(t) /\ EndsOf(u, w) = EndsOf(t, w) /\ Count(u) = Count(t)
<1>1. UpOf(u) = UpOf(t) /\ EndsOf(u, w) = EndsOf(t, w) BY LinksKept
<1>2. Count(u) = Count(t) BY DEF SameLinks
<1>3. TreeOK(u, w) BY <1>1, <1>2 DEF TreeOK
<1>4. WriterOK(u, w) BY <1>1 DEF WriterOK
<1>5. ReaderOK(u, w, r) BY <1>1, <1>2 DEF ReaderOK
<1> QED BY <1>1, <1>2, <1>3, <1>4, <1>5

LEMMA FlagsKept ==
  ASSUME NEW t, NEW u, NEW w, NEW wk, WalkOK(t, w, wk), Count(u) = Count(t),
         \A i \in 0 .. Count(t) - 1 : G(u, i).flags = G(t, i).flags,
         EndsOf(u, w) = EndsOf(t, w), u.writerActive => t.writerActive
  PROVE  WalkOK(u, w, wk)
<1>1. FlagsOf(u) = FlagsOf(t) BY DEF FlagsOf
<1> QED BY <1>1 DEF WalkOK

\* Nothing that the tree is about has changed.
LEMMA Unmoved ==
  ASSUME NEW t, NEW u, NEW w, NEW r, NEW wk, Consistent(t, w, r, wk), Typed(u), SamePlaces(t, u),
         SameLinks(t, u), u.readerCount = t.readerCount, u.writerActive = t.writerActive,
         \A i \in 0 .. Count(t) - 1 : G(u, i).flags = G(t, i).flags
  PROVE  Consistent(u, w, r, wk)
<1>1. Laid(u) BY LaidKept DEF Consistent
<1>2. u.groupGapStart = t.groupGapStart BY DEF SamePlaces
<1>3. /\ TreeOK(u, w) /\ WriterOK(u, w) /\ ReaderOK(u, w, r)
      /\ EndsOf(u, w) = EndsOf(t, w) /\ Count(u) = Count(t)
  BY <1>2, ShapeKept DEF Consistent
<1>4. WalkOK(u, w, wk) BY <1>3, FlagsKept DEF Consistent
<1> QED BY <1>1, <1>3, <1>4 DEF Consistent

LEMMA EmptyIs ==
  ASSUME NEW r \in Readers, ~r.open
  PROVE  Consistent(EmptyTable, <<>>, r, None)
<1> DEFINE t == EmptyTable
<1>0. GroupCapacity \in Nat \ {0} /\ SlotCapacity \in Nat \ {0} /\ MaxDepth \in Nat BY GapTableAssumption
<1>1. /\ t.groupGapStart = 0 /\ t.groupGapLen = GroupCapacity /\ t.slotGapStart = 0
      /\ t.slotGapLen = SlotCapacity /\ t.readerCount = 0 /\ t.writerActive = FALSE
  BY DEF EmptyTable
<1>2. t \in Tables
  <2>1. [p \in 0 .. GroupCapacity - 1 |-> ZeroGroup] \in [0 .. GroupCapacity - 1 -> Group] BY ZeroIs
  <2>2. [p \in 0 .. SlotCapacity - 1 |-> 0] \in [0 .. SlotCapacity - 1 -> Values \union {0}] OBVIOUS
  <2>3. 0 \in 0 .. GroupCapacity /\ GroupCapacity \in 0 .. GroupCapacity
        /\ 0 \in 0 .. SlotCapacity /\ SlotCapacity \in 0 .. SlotCapacity /\ 0 \in 0 .. 1 BY <1>0
  <2> QED BY <2>1, <2>2, <2>3 DEF EmptyTable, Tables
<1>3. Typed(t) BY <1>0, <1>1, <1>2 DEF Typed
<1> HIDE DEF t
<1>4. Count(t) = 0 /\ Words(t) = 0 BY <1>0, <1>1 DEF Count, Words
<1>5. Laid(t) BY <1>1, <1>4 DEF Laid, Place
<1>6. TreeOK(t, <<>>)
  <2>1. 0 .. 0 - 1 = {} OBVIOUS
  <2> QED BY <1>1, <1>4, <2>1 DEF TreeOK, Nested
<1>7. WriterOK(t, <<>>)
  <2>1. DOMAIN <<>> = {} OBVIOUS
  <2>2. <<>> \in Seq(0 .. GroupCapacity - 1) /\ Len(<<>>) <= MaxDepth BY <1>0
  <2> QED BY <2>1, <2>2 DEF WriterOK, Path
<1>8. ReaderOK(t, <<>>, r) BY <1>1 DEF ReaderOK
<1>9. WalkOK(t, <<>>, None)
  <2>1. 0 .. 0 - 1 = {} OBVIOUS
  <2> QED BY <1>4, <2>1 DEF WalkOK, Marked
<1> QED BY <1>3, <1>5, <1>6, <1>7, <1>8, <1>9 DEF Consistent, t

LEMMA InitOK == ASSUME TableInit PROVE TableInv
<1>1. ClosedReader \in Readers /\ ~ClosedReader.open
  <2>1. GroupCapacity \in Nat BY GapTableAssumption
  <2> QED BY <2>1 DEF ClosedReader, Readers, None
<1> QED BY <1>1, EmptyIs DEF TableInit, TableInv

\* While no writer is active, none has groups open.
LEMMA NoWriter == ASSUME TableInv, ~table.writerActive PROVE writer = <<>>
BY DEF TableInv, Consistent, WriterOK

LEMMA DepthIs ==
  ASSUME TableInv
  PROVE  /\ Depth \in Nat /\ (Depth = 0 <=> writer = <<>>) /\ DOMAIN writer = 1 .. Depth
         /\ \A d \in 1 .. Depth : writer[d] \in 0 .. table.groupGapStart - 1 /\ writer[d] \in 0 .. Count(table) - 1
<1>1. writer \in Seq(0 .. GroupCapacity - 1) BY DEF TableInv, Consistent, WriterOK
<1>2. Depth \in Nat /\ (Depth = 0 <=> writer = <<>>) /\ DOMAIN writer = 1 .. Depth BY <1>1 DEF Depth
<1>3. ASSUME NEW d \in 1 .. Depth
      PROVE  writer[d] \in 0 .. table.groupGapStart - 1 /\ writer[d] \in 0 .. Count(table) - 1
  <2>1. writer[d] \in 0 .. table.groupGapStart - 1 BY <1>2 DEF TableInv, Consistent, WriterOK, Path
  <2>2. table.groupGapStart \in 0 .. Count(table) /\ Count(table) \in Nat BY TypedIs DEF TableInv, Consistent
  <2> QED BY <2>1, <2>2
<1> QED BY <1>2, <1>3

LEMMA ResetStep == ASSUME TableInv, Reset PROVE TableInv'
<1>1. writer = <<>> BY NoWriter DEF Reset
<1>2. reader \in Readers /\ ~reader.open BY DEF Reset, TableInv, Consistent, ReaderOK
<1>3. Consistent(EmptyTable, <<>>, reader, None) BY <1>2, EmptyIs
<1>4. table' = EmptyTable /\ writer' = <<>> /\ reader' = reader /\ walk' = None BY <1>1 DEF Reset
<1> QED BY <1>3, <1>4 DEF TableInv

LEMMA WriterOpenStep == ASSUME TableInv, WriterOpen PROVE TableInv' /\ Unseen
<1>1. writer = <<>> BY NoWriter DEF WriterOpen
<1>2. PICK t, u : t = table /\ u = [t EXCEPT !.writerActive = TRUE] OBVIOUS
<1>3. table' = u /\ writer' = <<>> /\ reader' = reader /\ walk' = None BY <1>2 DEF WriterOpen
<1>4. Consistent(t, <<>>, reader, None) /\ t.readerCount = 0 BY <1>1, <1>2 DEF WriterOpen, TableInv
<1>5. t \in Tables BY <1>4 DEF Consistent, Typed
<1>6. /\ u \in Tables /\ u.groups = t.groups /\ u.slots = t.slots /\ u.groupGapStart = t.groupGapStart
      /\ u.groupGapLen = t.groupGapLen /\ u.slotGapStart = t.slotGapStart
      /\ u.slotGapLen = t.slotGapLen /\ u.readerCount = t.readerCount /\ u.writerActive = TRUE
  BY <1>2, <1>5 DEF Tables
<1>7. Typed(u) BY <1>4, <1>6 DEF Consistent, Typed
<1>8. Count(u) = Count(t) /\ \A i : G(u, i) = G(t, i) BY <1>6 DEF Count, G
<1>9. Laid(u) BY <1>4, <1>6, <1>8, LaidKept DEF Consistent, SamePlaces
<1>10. UpOf(u) = UpOf(t) /\ EndsOf(u, <<>>) = EndsOf(t, <<>>) /\ FlagsOf(u) = FlagsOf(t)
  BY <1>6, <1>8 DEF UpOf, EndsOf, FlagsOf
<1>11. TreeOK(u, <<>>) BY <1>4, <1>6, <1>8, <1>10 DEF Consistent, TreeOK
<1>12. WriterOK(u, <<>>) BY <1>4, <1>6, <1>10 DEF Consistent, WriterOK
<1>13. ReaderOK(u, <<>>, reader) BY <1>4, <1>6 DEF Consistent, ReaderOK
<1>14. WalkOK(u, <<>>, None) BY <1>4, <1>8, <1>10 DEF Consistent, WalkOK
<1>15. Unseen BY <1>1, <1>2, <1>3, <1>6, HeadChanged DEF Unseen
<1> QED BY <1>3, <1>7, <1>9, <1>11, <1>12, <1>13, <1>14, <1>15 DEF TableInv, Consistent

LEMMA WriterCloseStep == ASSUME TableInv, WriterClose PROVE TableInv' /\ Unseen
<1>1. writer = <<>> BY DepthIs DEF WriterClose
<1>2. PICK t, u : t = table /\ u = [t EXCEPT !.writerActive = FALSE] OBVIOUS
<1>3. table' = u /\ writer' = <<>> /\ reader' = reader /\ walk' = walk BY <1>1, <1>2 DEF WriterClose
<1>4. Consistent(t, <<>>, reader, walk) /\ t.writerActive BY <1>1, <1>2 DEF WriterClose, TableInv
<1>5. t \in Tables BY <1>4 DEF Consistent, Typed
<1>6. /\ u \in Tables /\ u.groups = t.groups /\ u.slots = t.slots /\ u.groupGapStart = t.groupGapStart
      /\ u.groupGapLen = t.groupGapLen /\ u.slotGapStart = t.slotGapStart
      /\ u.slotGapLen = t.slotGapLen /\ u.readerCount = t.readerCount /\ u.writerActive = FALSE
  BY <1>2, <1>5 DEF Tables
<1>7. Typed(u) BY <1>4, <1>6 DEF Consistent, Typed
<1>8. Count(u) = Count(t) /\ \A i : G(u, i) = G(t, i) BY <1>6 DEF Count, G
<1>9. Laid(u) BY <1>4, <1>6, <1>8, LaidKept DEF Consistent, SamePlaces
<1>10. UpOf(u) = UpOf(t) /\ EndsOf(u, <<>>) = EndsOf(t, <<>>) /\ FlagsOf(u) = FlagsOf(t)
  BY <1>6, <1>8 DEF UpOf, EndsOf, FlagsOf
<1>11. TreeOK(u, <<>>) BY <1>4, <1>6, <1>8, <1>10 DEF Consistent, TreeOK
<1>12. WriterOK(u, <<>>) BY <1>4, <1>6, <1>10 DEF Consistent, WriterOK
<1>13. ReaderOK(u, <<>>, reader)
  <2>1. ~reader.open BY <1>4 DEF Consistent, ReaderOK
  <2> QED BY <1>4, <1>6, <2>1 DEF Consistent, ReaderOK
<1>14. WalkOK(u, <<>>, walk) BY <1>4, <1>6, <1>8, <1>10 DEF Consistent, WalkOK
<1>15. Unseen BY <1>1, <1>2, <1>3, <1>6, HeadChanged DEF Unseen
<1> QED BY <1>3, <1>7, <1>9, <1>11, <1>12, <1>13, <1>14, <1>15 DEF TableInv, Consistent

\* The gaps move to the beginning of a tree, while no group is open.
LEMMA GapMoveKeeps ==
  ASSUME TableInv, table.writerActive, Depth = 0, NEW target \in 0 .. Count(table),
         target # table.groupGapStart, Fits(target), table' = MoveGapTo(target),
         UNCHANGED <<writer, reader, walk>>,
         target < Count(table) => G(table, target).parentIndex = None
  PROVE  TableInv' /\ SameTable(table, table') /\ table'.groupGapStart = target
<1>1. PICK t, u : t = table /\ u = MoveGapTo(target) OBVIOUS
<1>2. Consistent(t, <<>>, reader, walk) /\ t.writerActive /\ writer = <<>> BY <1>1, DepthIs DEF TableInv
<1>3. SameTable(t, u) /\ Typed(u) /\ Laid(u) /\ u.groupGapStart = target
  BY <1>1, <1>2, GapMoved DEF Consistent
<1>4. Count(u) = Count(t) /\ u.readerCount = t.readerCount /\ u.writerActive = t.writerActive
  BY <1>3 DEF SameTable, Count
<1>5. ASSUME NEW i \in 0 .. Count(t) - 1
      PROVE  /\ G(u, i).parentIndex = G(t, i).parentIndex /\ G(u, i).groupSize = G(t, i).groupSize
             /\ G(u, i).flags = G(t, i).flags
  <2>1. PICK k \in Nat : G(u, i) = [G(t, i) EXCEPT !.slotIndex = k] BY <1>3 DEF SameTable
  <2>2. G(t, i) \in Group BY <1>2, TypedIs DEF Consistent
  <2> QED BY <2>1, <2>2 DEF Group
<1>6. SameLinks(t, u) BY <1>4, <1>5 DEF SameLinks
<1>7. UpOf(u) = UpOf(t) /\ EndsOf(u, <<>>) = EndsOf(t, <<>>) BY <1>6, LinksKept
<1>8. TreeOK(u, <<>>)
  <2>0. target \in 0 .. Count(t) /\ Count(t) \in Nat BY <1>1, <1>2, TypedIs DEF Consistent
  <2>1. ASSUME target < Count(t) PROVE UpOf(t)[target] = None
    <3>1. target \in 0 .. Count(t) - 1 BY <2>0, <2>1
    <3>2. UpOf(t)[target] = G(t, target).parentIndex BY <3>1 DEF UpOf
    <3> QED BY <3>2, <2>1, <1>1
  <2> QED BY <1>2, <1>3, <1>4, <1>7, <2>1 DEF Consistent, TreeOK
<1>9. WriterOK(u, <<>>)
  <2>1. DOMAIN <<>> = {} OBVIOUS
  <2> QED BY <1>2, <1>4, <2>1 DEF Consistent, WriterOK, Path
<1>10. ReaderOK(u, <<>>, reader) BY <1>2, <1>4, <1>7 DEF Consistent, ReaderOK
<1>11. WalkOK(u, <<>>, walk) BY <1>2, <1>4, <1>5, <1>7, FlagsKept DEF Consistent
<1> QED BY <1>1, <1>2, <1>3, <1>8, <1>9, <1>10, <1>11 DEF TableInv, Consistent

LEMMA Names ==
  /\ GroupCount = Count(table) /\ SlotCount = Words(table)
  /\ \A i : GroupAt(i) = G(table, i)
BY DEF GroupCount, SlotCount, Count, Words, GroupAt, G, Seen, GroupToPhysicalIdx

LEMMA GapMoveToStep ==
  ASSUME TableInv, NEW target \in 0 .. GroupCapacity, GapMoveTo(target),
         Root(target), Fits(target)
  PROVE  TableInv' /\ SameTable(table, table') /\ writer' = writer /\ writer = <<>>
<1>1. target \in 0 .. Count(table) BY Names, TypedIs DEF GapMoveTo, TableInv, Consistent
<1>2. target < Count(table) => G(table, target).parentIndex = None BY Names DEF GapMoveTo, Root
<1>3. writer' = writer /\ writer = <<>> BY DepthIs DEF GapMoveTo
<1> QED BY <1>1, <1>2, <1>3, GapMoveKeeps DEF GapMoveTo

-----------------------------------------------------------------------------
(* The writer.                                                             *)

\* The tree of a consistent table.
LEMMA TreeIs ==
  ASSUME NEW t, NEW w, NEW r, NEW wk, Consistent(t, w, r, wk)
  PROVE  /\ Count(t) \in Sizes /\ Nested(Count(t), UpOf(t), EndsOf(t, w)) /\ DOMAIN UpOf(t) = 0 .. Count(t) - 1
         /\ t.groupGapStart \in 0 .. Count(t) /\ Count(t) \in Nat /\ None \in Nat /\ None > Count(t)
         /\ \A i \in 0 .. Count(t) - 1 :
              /\ UpOf(t)[i] = G(t, i).parentIndex /\ FlagsOf(t)[i] = G(t, i).flags /\ G(t, i) \in Group
              /\ EndsOf(t, w)[i] \in i + 1 .. Count(t)
              /\ EndsOf(t, w)[i] = IF i \in OpenIn(w) THEN t.groupGapStart ELSE i + 1 + G(t, i).groupSize
              /\ UpOf(t)[i] \in Nat
              /\ UpOf(t)[i] = None \/ (UpOf(t)[i] < i /\ i < EndsOf(t, w)[UpOf(t)[i]])
<1>1. Count(t) \in 0 .. GroupCapacity /\ t.groupGapStart \in 0 .. Count(t) /\ GroupCapacity \in Nat
      /\ None \in Nat /\ None > GroupCapacity /\ \A i \in 0 .. Count(t) - 1 : G(t, i) \in Group
  BY TypedIs DEF Consistent
<1>2. Nested(Count(t), UpOf(t), EndsOf(t, w)) BY DEF Consistent, TreeOK
<1>3. ASSUME NEW i \in 0 .. Count(t) - 1
      PROVE  /\ UpOf(t)[i] = G(t, i).parentIndex /\ FlagsOf(t)[i] = G(t, i).flags
             /\ EndsOf(t, w)[i] = IF i \in OpenIn(w) THEN t.groupGapStart ELSE i + 1 + G(t, i).groupSize
  BY DEF UpOf, FlagsOf, EndsOf
<1>4. ASSUME NEW i \in 0 .. Count(t) - 1
      PROVE  /\ EndsOf(t, w)[i] \in i + 1 .. Count(t) /\ UpOf(t)[i] \in Nat
             /\ UpOf(t)[i] = None \/ (UpOf(t)[i] < i /\ i < EndsOf(t, w)[UpOf(t)[i]])
  BY <1>2 DEF Nested
<1>5. DOMAIN UpOf(t) = 0 .. Count(t) - 1 BY DEF UpOf
<1>6. Count(t) \in Nat /\ None > Count(t) BY <1>1
<1> QED BY <1>1, <1>2, <1>3, <1>4, <1>5, <1>6 DEF Sizes

LEMMA NoneOpen == OpenIn(<<>>) = {}
BY DEF OpenIn

LEMMA WriterGroupSkipStep ==
  ASSUME TableInv, WriterGroupSkip, Fits(SkipTarget)
  PROVE  TableInv' /\ SameTable(table, table') /\ writer' = writer /\ writer = <<>>
<1>1. PICK target : /\ target = table.groupGapStart + 1 + table.groups[table.groupGapStart + table.groupGapLen].groupSize
                    /\ Fits(target) /\ table' = MoveGapTo(target)
  BY DEF WriterGroupSkip, SkipTarget
<1>2. table.writerActive /\ Depth = 0 /\ writer = <<>> /\ Consistent(table, <<>>, reader, walk)
  BY DepthIs DEF WriterGroupSkip, TableInv
<1> DEFINE gs == table.groupGapStart
           n == Count(table)
           up == UpOf(table)
           end == EndsOf(table, <<>>)
<1>3. gs \in 0 .. n - 1
  <2>1. gs < n /\ gs \in 0 .. n /\ n \in Nat BY <1>2, Names, TreeIs DEF WriterGroupSkip
  <2> QED BY <2>1
<1>4. target = end[gs]
  <2>1. G(table, gs) = table.groups[gs + table.groupGapLen] BY <1>3 DEF G, Seen
  <2>2. end[gs] = gs + 1 + G(table, gs).groupSize BY <1>2, <1>3, TreeIs, NoneOpen
  <2> QED BY <1>1, <2>1, <2>2
<1>5. target \in gs + 1 .. n /\ n \in Sizes /\ Nested(n, up, end) /\ n \in Nat BY <1>2, <1>3, <1>4, TreeIs
<1>6. up[gs] = None
  <2>1. gs < n BY <1>3, <1>5
  <2> QED BY <1>2, <2>1 DEF Consistent, TreeOK
<1>7. ASSUME target < n PROVE G(table, target).parentIndex = None
  <2>1. up[target] = None BY <1>3, <1>4, <1>5, <1>6, <1>7, NextSibling
  <2>2. target \in 0 .. n - 1 BY <1>3, <1>5, <1>7
  <2> QED BY <1>2, <2>1, <2>2, TreeIs
<1>8. target \in 0 .. n /\ target # gs BY <1>3, <1>5
<1>9. UNCHANGED <<writer, reader, walk>> BY DEF WriterGroupSkip
<1> HIDE DEF gs, n
<1> QED BY <1>1, <1>2, <1>7, <1>8, <1>9, GapMoveKeeps DEF gs, n

LEMMA CarefulGapMoveStep ==
  ASSUME TableInv, CarefulGapMove
  PROVE  TableInv' /\ SameTable(table, table') /\ writer' = writer /\ writer = <<>>
<1>1. CASE WriterGroupSkip /\ Fits(SkipTarget) BY <1>1, WriterGroupSkipStep
<1>2. CASE \E target \in 0 .. GroupCapacity : GapMoveTo(target) /\ Root(target) /\ Fits(target)
  BY <1>2, GapMoveToStep
<1> QED BY <1>1, <1>2 DEF CarefulGapMove

\* An operation on one group.
LEMMA WithGroupIs ==
  ASSUME Typed(table), NEW i \in 0 .. Count(table) - 1, NEW g \in Group, NEW u, u = WithGroup(i, g)
  PROVE  /\ Typed(u) /\ Count(u) = Count(table)
         /\ \A j \in 0 .. Count(table) - 1 : G(u, j) = IF j = i THEN g ELSE G(table, j)
         /\ u.groupGapStart = table.groupGapStart /\ u.groupGapLen = table.groupGapLen
         /\ u.slotGapStart = table.slotGapStart /\ u.slotGapLen = table.slotGapLen
         /\ u.slots = table.slots /\ u.readerCount = table.readerCount /\ u.writerActive = table.writerActive
<1>1. PICK p : p = (IF i < table.groupGapStart THEN i ELSE i + table.groupGapLen) OBVIOUS
<1>2. u = [table EXCEPT !.groups = [table.groups EXCEPT ![p] = g]] BY <1>1 DEF WithGroup, GroupToPhysicalIdx
<1> HIDE DEF WithGroup
<1>3. PICK t : t = table OBVIOUS
<1>4. /\ Typed(u)
      /\ \A j \in 0 .. Count(t) - 1 : G(u, j) = IF j = i THEN g ELSE G(t, j)
      /\ u.groupGapStart = t.groupGapStart /\ u.groupGapLen = t.groupGapLen
      /\ u.slotGapStart = t.slotGapStart /\ u.slotGapLen = t.slotGapLen
      /\ u.slots = t.slots /\ u.readerCount = t.readerCount /\ u.writerActive = t.writerActive
  BY <1>1, <1>2, <1>3, SetGroup
<1> QED BY <1>3, <1>4 DEF Count

LEMMA NodeEmitStep ==
  ASSUME TableInv, NodeEmit
  PROVE  /\ TableInv' /\ writer' = writer /\ Depth \in 1 .. Depth
         /\ SameButNodes(table, table') /\ table'.groupGapStart = table.groupGapStart
         /\ \A j \in 0 .. Count(table) - 1 :
              G(table', j).nodeCount = G(table, j).nodeCount + (IF j = writer[Depth] THEN 1 ELSE 0)
<1>1. PICK i : i = writer[Depth] OBVIOUS
<1>2. i \in 0 .. Count(table) - 1
  <2>1. Depth \in 1 .. Depth BY DepthIs DEF NodeEmit
  <2> QED BY <1>1, <2>1, DepthIs
<1>3. PICK t, u, g : t = table /\ u = WithGroup(i, g) /\ g = [G(t, i) EXCEPT !.nodeCount = G(t, i).nodeCount + 1] OBVIOUS
<1>4. table' = u /\ writer' = writer /\ reader' = reader /\ walk' = walk BY <1>1, <1>3, Names DEF NodeEmit
<1>5. Consistent(t, writer, reader, walk) BY <1>3 DEF TableInv
<1>6. G(t, i) \in Group BY <1>2, <1>3, <1>5, TreeIs
<1>7. /\ g \in Group /\ g.parentIndex = G(t, i).parentIndex /\ g.groupSize = G(t, i).groupSize
      /\ g.flags = G(t, i).flags /\ g.slotIndex = G(t, i).slotIndex /\ g.slotCount = G(t, i).slotCount
      /\ g.key = G(t, i).key /\ g.nodeCount = G(t, i).nodeCount + 1
  BY <1>3, <1>6 DEF Group
<1>8. /\ Typed(u) /\ Count(u) = Count(t)
      /\ \A j \in 0 .. Count(t) - 1 : G(u, j) = IF j = i THEN g ELSE G(t, j)
      /\ u.groupGapStart = t.groupGapStart /\ u.groupGapLen = t.groupGapLen
      /\ u.slotGapStart = t.slotGapStart /\ u.slotGapLen = t.slotGapLen
      /\ u.slots = t.slots /\ u.readerCount = t.readerCount /\ u.writerActive = t.writerActive
  BY <1>2, <1>3, <1>5, <1>7, WithGroupIs DEF Consistent
<1>9. SamePlaces(t, u) /\ SameLinks(t, u) /\ \A j \in 0 .. Count(t) - 1 : G(u, j).flags = G(t, j).flags
  BY <1>7, <1>8 DEF SamePlaces, SameLinks
<1>10. Consistent(u, writer, reader, walk) BY <1>5, <1>8, <1>9, Unmoved
<1>11. SameButNodes(t, u)
  <2>1. \A j \in 0 .. Count(t) - 1 : G(u, j).key = G(t, j).key /\ G(u, j).parentIndex = G(t, j).parentIndex
    BY <1>7, <1>8
  <2> QED BY <1>5, <1>8, <1>9, <2>1, ShowKept DEF Consistent
<1>12. ASSUME NEW j \in 0 .. Count(t) - 1
       PROVE  G(u, j).nodeCount = G(t, j).nodeCount + (IF j = i THEN 1 ELSE 0)
  <2>1. CASE j = i BY <2>1, <1>7, <1>8
  <2>2. CASE j # i
    <3>1. G(t, j).nodeCount \in Nat BY <1>5, TreeIs, GroupFields
    <3> QED BY <2>2, <3>1, <1>8
  <2> QED BY <2>1, <2>2
<1>13. Depth \in 1 .. Depth BY DepthIs DEF NodeEmit
<1>14. TableInv' BY <1>4, <1>10 DEF TableInv
<1> QED BY <1>1, <1>3, <1>4, <1>8, <1>11, <1>12, <1>13, <1>14

LEMMA SlotSetStep ==
  ASSUME TableInv, NEW i \in 0 .. SlotCapacity - 1, NEW value \in Values, SlotSet(i, value)
  PROVE  /\ TableInv' /\ writer' = writer
         /\ table'.groupGapStart = table.groupGapStart /\ Count(table') = Count(table)
         /\ \A j \in 0 .. Count(table) - 1 : G(table', j) = G(table, j) /\ Place(table', j) = Place(table, j)
         /\ i \in 0 .. Words(table) - 1
         /\ \A k \in 0 .. Words(table) - 1 : W(table', k) = IF k = i THEN value ELSE W(table, k)
<1>1. PICK t, u, p : /\ t = table /\ p = (IF i < t.slotGapStart THEN i ELSE i + t.slotGapLen)
                     /\ u = [t EXCEPT !.slots = [t.slots EXCEPT ![p] = value]] OBVIOUS
<1>2. table' = u /\ writer' = writer /\ reader' = reader /\ walk' = walk BY <1>1 DEF SlotSet
<1>3. Consistent(t, writer, reader, walk) BY <1>1 DEF TableInv
<1>4. t \in Tables /\ t.slots \in [0 .. SlotCapacity - 1 -> Values \union {0}] BY <1>3, TypedIs DEF Consistent, Typed
<1>5. [t.slots EXCEPT ![p] = value] \in [0 .. SlotCapacity - 1 -> Values \union {0}] BY <1>4
<1>6. /\ u \in Tables /\ u.groups = t.groups /\ u.groupGapStart = t.groupGapStart
      /\ u.groupGapLen = t.groupGapLen /\ u.slotGapStart = t.slotGapStart
      /\ u.slotGapLen = t.slotGapLen /\ u.readerCount = t.readerCount /\ u.writerActive = t.writerActive
  BY <1>1, <1>4, <1>5 DEF Tables
<1>7. Typed(u) BY <1>3, <1>6 DEF Consistent, Typed
<1>8. Count(u) = Count(t) /\ \A j : G(u, j) = G(t, j) BY <1>6 DEF Count, G
<1>9. SamePlaces(t, u) /\ SameLinks(t, u) BY <1>6, <1>8 DEF SamePlaces, SameLinks
<1>10. Consistent(u, writer, reader, walk) BY <1>3, <1>6, <1>7, <1>8, <1>9, Unmoved
<1>11. \A j \in 0 .. Count(t) - 1 : Place(u, j) = Place(t, j)
  <2>1. \A j \in 0 .. Count(t) - 1 : j \in 0 .. Count(t) BY <1>3, TypedIs DEF Consistent
  <2> QED BY <1>3, <1>9, <2>1, LaidKept DEF Consistent
<1>12. PICK sgs \in Nat, sgl \in Nat : /\ sgs = t.slotGapStart /\ sgl = t.slotGapLen /\ SlotCapacity \in Nat
                                       /\ sgs + sgl <= SlotCapacity /\ Words(t) = SlotCapacity - sgl
  <2>1. t.slotGapStart \in Nat /\ t.slotGapLen \in Nat BY <1>3, TypedIs DEF Consistent
  <2> QED BY <1>3, <2>1, TypedIs DEF Consistent, Typed, Words
<1>13. i \in 0 .. Words(t) - 1
  <2>1. i < Words(t) BY <1>1, Names DEF SlotSet
  <2> QED BY <2>1, <1>12
<1>14. ASSUME NEW k \in 0 .. Words(t) - 1 PROVE W(u, k) = IF k = i THEN value ELSE W(t, k)
  <2>1. PICK q : q = (IF k < sgs THEN k ELSE k + sgl) OBVIOUS
  <2>2. q \in 0 .. SlotCapacity - 1 /\ (q = p <=> k = i) BY <1>1, <1>12, <1>13, <2>1
  <2>3. W(u, k) = u.slots[q] /\ W(t, k) = t.slots[q] BY <1>6, <1>12, <2>1 DEF W, Seen
  <2>4. u.slots = [t.slots EXCEPT ![p] = value] BY <1>1, <1>4 DEF Tables
  <2> QED BY <1>4, <2>2, <2>3, <2>4
<1>15. TableInv' BY <1>2, <1>10 DEF TableInv
<1> QED BY <1>1, <1>2, <1>6, <1>8, <1>11, <1>13, <1>14, <1>15

\* The open groups go to the right.
LEMMA Increasing ==
  ASSUME NEW up, NEW end, NEW w, NEW gs \in Nat, w \in Seq(0 .. GroupCapacity - 1), Path(up, end, w, gs)
  PROVE  \A e \in 1 .. Len(w) : \A d \in 1 .. e : w[d] <= w[e] /\ (d # e => w[d] < w[e])
<1>0. Len(w) \in Nat /\ DOMAIN w = 1 .. Len(w) OBVIOUS
<1> DEFINE P == {e \in 0 .. Len(w) : \A d \in 1 .. e : w[d] <= w[e] /\ (d # e => w[d] < w[e])}
<1>1. 0 \in P /\ P \in SUBSET Nat BY <1>0
<1>2. ASSUME NEW e \in 0 .. Len(w) - 1, e \in P PROVE e + 1 \in P
  <2>1. e + 1 \in DOMAIN w BY <1>0
  <2>2. \A d \in 1 .. Len(w) : w[d] \in 0 .. gs - 1 BY <1>0 DEF Path
  <2>3. w[e + 1] \in Nat BY <2>1, <2>2, <1>0
  <2>4. ASSUME NEW d \in 1 .. e + 1 PROVE w[d] <= w[e + 1] /\ (d # e + 1 => w[d] < w[e + 1])
    <3>1. CASE d = e + 1 BY <3>1, <2>3
    <3>2. CASE d # e + 1
      <4>1. d \in 1 .. e /\ e \in 1 .. Len(w) /\ d \in 1 .. Len(w) BY <1>0, <3>2
      <4>2. w[d] <= w[e] BY <1>2, <4>1
      <4>3. e + 1 > 1 /\ (e + 1) - 1 = e BY <4>1
      <4>4. w[e] < w[e + 1] BY <2>1, <4>3 DEF Path
      <4>5. w[d] \in Nat /\ w[e] \in Nat BY <2>2, <4>1
      <4> QED BY <2>3, <4>2, <4>4, <4>5
    <3> QED BY <3>1, <3>2
  <2>5. e + 1 \in 0 .. Len(w) BY <1>0
  <2> HIDE DEF Path
  <2> QED BY <2>4, <2>5
<1> HIDE DEF P
<1>3. \A e \in 0 .. Len(w) : e \in P BY <1>0, <1>1, <1>2, UpTo
<1> QED BY <1>3, <1>0 DEF P

\* The innermost group gets its size and leaves the stack.
LEMMA GroupEndStep ==
  ASSUME TableInv, GroupEnd
  PROVE  /\ TableInv' /\ writer' = Front(writer) /\ Depth \in 1 .. Depth /\ Len(Front(writer)) = Depth - 1
         /\ SameButNodes(table, table') /\ table'.groupGapStart = table.groupGapStart
         /\ OpenIn(writer) = OpenIn(Front(writer)) \union {writer[Depth]}
         /\ writer[Depth] \notin OpenIn(Front(writer))
         /\ \A j \in 0 .. Count(table) - 1 :
              G(table', j).nodeCount =
                IF Depth > 1 /\ j = writer[Depth - 1]
                THEN G(table, j).nodeCount + G(table, writer[Depth]).nodeCount ELSE G(table, j).nodeCount
<1> DEFINE n == Count(table)
           gs == table.groupGapStart
<1>1. Depth \in 1 .. Depth /\ Depth \in Nat /\ DOMAIN writer = 1 .. Depth BY DepthIs DEF GroupEnd
<1>2. PICK t, w, w2, i : t = table /\ w = writer /\ w2 = Front(w) /\ i = w[Depth] OBVIOUS
<1>3. Consistent(t, w, reader, walk) /\ Depth = Len(w) /\ t.writerActive
  BY <1>2 DEF TableInv, Depth, GroupEnd
<1>4. /\ n \in Nat /\ gs \in 0 .. n /\ \A j \in 0 .. n - 1 : G(t, j) \in Group
      /\ \A d \in 1 .. Depth : w[d] \in 0 .. gs - 1 /\ w[d] \in 0 .. n - 1
  BY <1>2, <1>3, TreeIs, DepthIs
<1>5. i \in 0 .. gs - 1 /\ i \in 0 .. n - 1 BY <1>1, <1>2, <1>4
<1>6. PICK g1, u1 : g1 = [G(t, i) EXCEPT !.groupSize = gs - i - 1] /\ u1 = WithGroup(i, g1) OBVIOUS
<1>7. gs - i - 1 \in Nat BY <1>4, <1>5
<1>8. /\ g1 \in Group /\ g1.parentIndex = G(t, i).parentIndex /\ g1.groupSize = gs - i - 1
      /\ g1.flags = G(t, i).flags /\ g1.slotIndex = G(t, i).slotIndex /\ g1.slotCount = G(t, i).slotCount
      /\ g1.key = G(t, i).key /\ g1.nodeCount = G(t, i).nodeCount
  BY <1>4, <1>5, <1>6, <1>7 DEF Group
<1>9. /\ Typed(u1) /\ Count(u1) = n
      /\ \A j \in 0 .. n - 1 : G(u1, j) = IF j = i THEN g1 ELSE G(t, j)
      /\ u1.groupGapStart = gs /\ u1.groupGapLen = t.groupGapLen
      /\ u1.slotGapStart = t.slotGapStart /\ u1.slotGapLen = t.slotGapLen
      /\ u1.slots = t.slots /\ u1.readerCount = t.readerCount /\ u1.writerActive = t.writerActive
  <2>1. Typed(table) /\ g1 \in Group /\ i \in 0 .. Count(table) - 1 /\ u1 = WithGroup(i, g1)
    BY <1>2, <1>3, <1>5, <1>6, <1>8 DEF Consistent
  <2>2. /\ Typed(u1) /\ Count(u1) = Count(table)
        /\ \A j \in 0 .. Count(table) - 1 : G(u1, j) = IF j = i THEN g1 ELSE G(table, j)
        /\ u1.groupGapStart = table.groupGapStart /\ u1.groupGapLen = table.groupGapLen
        /\ u1.slotGapStart = table.slotGapStart /\ u1.slotGapLen = table.slotGapLen
        /\ u1.slots = table.slots /\ u1.readerCount = table.readerCount /\ u1.writerActive = table.writerActive
    BY <2>1, WithGroupIs
  <2> QED BY <1>2, <2>2
\* The table as it is at the end.
<1>10. PICK u : /\ u = table' /\ Typed(u) /\ Count(u) = n
                /\ u.groupGapStart = gs /\ u.groupGapLen = t.groupGapLen
                /\ u.slotGapStart = t.slotGapStart /\ u.slotGapLen = t.slotGapLen
                /\ u.slots = t.slots /\ u.readerCount = t.readerCount /\ u.writerActive = t.writerActive
                /\ \A j \in 0 .. n - 1 :
                     /\ G(u, j).key = G(t, j).key
                     /\ G(u, j).nodeCount = IF Depth > 1 /\ j = w[Depth - 1]
                                            THEN G(t, j).nodeCount + G(t, i).nodeCount ELSE G(t, j).nodeCount
                     /\ G(u, j).parentIndex = G(t, j).parentIndex /\ G(u, j).flags = G(t, j).flags
                     /\ G(u, j).slotIndex = G(t, j).slotIndex /\ G(u, j).slotCount = G(t, j).slotCount
                     /\ G(u, j).groupSize = IF j = i THEN gs - i - 1 ELSE G(t, j).groupSize
  <2>1. CASE Depth = 1
    <3>1. table' = u1 BY <1>2, <1>6, <2>1, Names DEF GroupEnd
    <3>2. ~(Depth > 1) BY <2>1
    <3>3. \A j \in 0 .. n - 1 : G(u1, j).nodeCount = G(t, j).nodeCount /\ G(u1, j).key = G(t, j).key
      BY <1>8, <1>9
    <3> QED BY <1>8, <1>9, <3>1, <3>2, <3>3
  <2>2. CASE Depth # 1
    <3>1. PICK j : j = w[Depth - 1] OBVIOUS
    <3>2. Depth - 1 \in 1 .. Depth BY <1>1, <2>2
    <3>3. j \in 0 .. gs - 1 /\ j \in 0 .. n - 1 BY <1>4, <3>1, <3>2
    <3>4. PICK p : p = (IF j < u1.groupGapStart THEN j ELSE j + u1.groupGapLen) OBVIOUS
    <3>5. p = GroupToPhysicalIdx(j) BY <1>2, <1>9, <3>4 DEF GroupToPhysicalIdx
    <3>6. PICK k : k = u1.groups[p].nodeCount + G(t, i).nodeCount OBVIOUS
    <3>7. PICK g2 : g2 = [u1.groups[p] EXCEPT !.nodeCount = k] OBVIOUS
    <3>8. table' = [u1 EXCEPT !.groups = [u1.groups EXCEPT ![p] = g2]]
      <4>1. table' = [u1 EXCEPT !.groups[p].nodeCount = @ + G(t, i).nodeCount]
        BY <1>2, <1>6, <2>2, <3>1, <3>5, Names DEF GroupEnd
      <4> QED BY <4>1, <3>6, <3>7
    <3>9. u1.groups[p] = G(u1, j) BY <3>4 DEF G, Seen
    <3>10. G(u1, j) \in Group BY <1>4, <1>8, <1>9, <3>3
    <3>11. k \in Nat
      <4>1. u1.groups[p].nodeCount \in Nat /\ G(t, i).nodeCount \in Nat BY <1>4, <1>5, <3>9, <3>10, GroupFields
      <4> QED BY <4>1, <3>6
    <3>12. /\ g2 \in Group /\ g2.parentIndex = G(u1, j).parentIndex /\ g2.groupSize = G(u1, j).groupSize
           /\ g2.flags = G(u1, j).flags /\ g2.slotIndex = G(u1, j).slotIndex /\ g2.slotCount = G(u1, j).slotCount
           /\ g2.key = G(u1, j).key /\ g2.nodeCount = k
      BY <3>7, <3>9, <3>10, <3>11 DEF Group
    <3>13. PICK u : u = [u1 EXCEPT !.groups = [u1.groups EXCEPT ![p] = g2]] OBVIOUS
    <3>14. /\ Typed(u)
           /\ \A l \in 0 .. Count(u1) - 1 : G(u, l) = IF l = j THEN g2 ELSE G(u1, l)
           /\ u.groupGapStart = u1.groupGapStart /\ u.groupGapLen = u1.groupGapLen
           /\ u.slotGapStart = u1.slotGapStart /\ u.slotGapLen = u1.slotGapLen
           /\ u.slots = u1.slots /\ u.readerCount = u1.readerCount /\ u.writerActive = u1.writerActive
      BY <1>9, <3>3, <3>4, <3>12, <3>13, SetGroup
    <3>15. Count(u) = n BY <1>9, <3>14 DEF Count
    <3>16. ASSUME NEW l \in 0 .. n - 1
           PROVE  /\ G(u, l).parentIndex = G(t, l).parentIndex /\ G(u, l).flags = G(t, l).flags
                  /\ G(u, l).slotIndex = G(t, l).slotIndex /\ G(u, l).slotCount = G(t, l).slotCount
                  /\ G(u, l).groupSize = IF l = i THEN gs - i - 1 ELSE G(t, l).groupSize
                  /\ G(u, l).key = G(t, l).key
                  /\ G(u, l).nodeCount = IF Depth > 1 /\ l = w[Depth - 1]
                                         THEN G(t, l).nodeCount + G(t, i).nodeCount ELSE G(t, l).nodeCount
      <4>1. G(u, l) = IF l = j THEN g2 ELSE G(u1, l) BY <1>9, <3>14
      <4>2. G(u1, l) = IF l = i THEN g1 ELSE G(t, l) BY <1>9
      <4>3. Depth > 1 BY <1>1, <2>2
      <4>4. G(u1, l).nodeCount = G(t, l).nodeCount /\ k = G(u1, j).nodeCount + G(t, i).nodeCount
        BY <1>8, <3>6, <3>9, <4>2
      <4>5. G(u, l).nodeCount = IF l = w[Depth - 1]
                                THEN G(t, l).nodeCount + G(t, i).nodeCount ELSE G(t, l).nodeCount
        BY <3>1, <3>12, <4>1, <4>4
      <4> QED BY <1>8, <3>12, <4>1, <4>2, <4>3, <4>5
    <3>17. /\ Typed(u) /\ Count(u) = n
           /\ u.groupGapStart = gs /\ u.groupGapLen = t.groupGapLen
           /\ u.slotGapStart = t.slotGapStart /\ u.slotGapLen = t.slotGapLen
           /\ u.slots = t.slots /\ u.readerCount = t.readerCount /\ u.writerActive = t.writerActive
      BY <1>9, <3>14, <3>15
    <3>18. u = table' BY <3>8, <3>13
    <3> HIDE DEF n, gs
    <3> QED BY ONLY <3>16, <3>17, <3>18
  <2> QED BY <2>1, <2>2
<1>11. w2 \in Seq(0 .. GroupCapacity - 1) /\ Len(w2) = Depth - 1 /\ DOMAIN w2 = 1 .. Depth - 1
       /\ \A d \in 1 .. Depth - 1 : w2[d] = w[d]
  <2>1. w \in Seq(0 .. GroupCapacity - 1) /\ w # <<>> BY <1>1, <1>2, <1>3 DEF Consistent, WriterOK, Depth
  <2>2. PICK m \in Nat : m = Depth - 1 BY <1>1
  <2>3. w2 = SubSeq(w, 1, m) /\ m <= Len(w) BY <1>1, <1>2, <1>3, <2>2 DEF Front
  <2>4. \A d \in 1 .. m : w[d] \in 0 .. GroupCapacity - 1
    <3> TAKE d \in 1 .. m
    <3>1. d \in 1 .. Len(w) BY <2>2, <2>3, <1>1, <1>3
    <3> QED BY <2>1, <3>1, ElementOfSeq
  <2>5. w2 \in Seq(0 .. GroupCapacity - 1) /\ Len(w2) = (IF 1 <= m THEN m - 1 + 1 ELSE 0)
        /\ \A d \in 1 .. m - 1 + 1 : w2[d] = w[1 + d - 1]
    BY <2>2, <2>3, <2>4, SubSeqProperties
  <2>6. Len(w2) = m BY <2>2, <2>5
  <2>7. \A d \in 1 .. m : w2[d] = w[d]
    <3> TAKE d \in 1 .. m
    <3>1. d \in 1 .. m - 1 + 1 /\ 1 + d - 1 = d BY <2>2
    <3> QED BY <2>5, <3>1
  <2>8. DOMAIN w2 = 1 .. m BY <2>5, <2>6
  <2> QED BY <2>2, <2>5, <2>6, <2>7, <2>8
<1>12. \A e \in 1 .. Depth : \A d \in 1 .. e : w[d] <= w[e] /\ (d # e => w[d] < w[e])
  <2>1. gs \in Nat /\ w \in Seq(0 .. GroupCapacity - 1) /\ Path(UpOf(t), EndsOf(t, w), w, gs)
    BY <1>2, <1>3, <1>4 DEF Consistent, WriterOK
  <2> QED BY <1>3, <2>1, Increasing
<1>13. OpenIn(w) = OpenIn(w2) \union {i} /\ i \notin OpenIn(w2)
  <2>1. OpenIn(w) = {w[d] : d \in 1 .. Depth} BY <1>1, <1>2 DEF OpenIn
  <2>2. OpenIn(w2) = {w[d] : d \in 1 .. Depth - 1} BY <1>11 DEF OpenIn
  <2>3. \A d \in 1 .. Depth : d \in 1 .. Depth - 1 \/ d = Depth BY <1>1
  <2>4. 1 .. Depth - 1 \subseteq 1 .. Depth BY <1>1
  <2>5. OpenIn(w) = OpenIn(w2) \union {i} BY <1>1, <1>2, <2>1, <2>2, <2>3, <2>4
  <2>6. ASSUME NEW d \in 1 .. Depth - 1, w[d] = i PROVE FALSE
    <3>1. d \in 1 .. Depth /\ d # Depth BY <1>1
    <3>2. w[d] < w[Depth] BY <1>1, <1>12, <3>1
    <3>3. i \in Nat BY <1>5, <1>4
    <3> QED BY <3>2, <3>3, <2>6, <1>2
  <2> QED BY <2>2, <2>5, <2>6
<1>14. UpOf(u) = UpOf(t) /\ FlagsOf(u) = FlagsOf(t) /\ n = Count(t) BY <1>2, <1>10 DEF UpOf, FlagsOf
<1>15. EndsOf(u, w2) = EndsOf(t, w)
  <2>1. ASSUME NEW j \in 0 .. n - 1
        PROVE  (IF j \in OpenIn(w2) THEN gs ELSE j + 1 + G(u, j).groupSize)
                 = (IF j \in OpenIn(w) THEN gs ELSE j + 1 + G(t, j).groupSize)
    <3>1. CASE j = i
      <4>1. G(u, j).groupSize = gs - i - 1 BY <1>10, <3>1
      <4>2. j + 1 + (gs - i - 1) = gs BY <1>4, <1>5, <3>1
      <4> QED BY <4>1, <4>2, <3>1, <1>13
    <3>2. CASE j # i
      <4>1. G(u, j).groupSize = G(t, j).groupSize BY <1>10, <3>2
      <4> QED BY <4>1, <3>2, <1>13
    <3> QED BY <3>1, <3>2
  <2>2. Count(u) = n /\ Count(t) = n /\ u.groupGapStart = gs /\ t.groupGapStart = gs BY <1>2, <1>10
  <2> HIDE DEF gs, n
  <2> QED BY <2>1, <2>2 DEF EndsOf
<1>16. Laid(u) /\ SameButNodes(t, u)
  <2>1. SamePlaces(t, u) BY <1>2, <1>10, <1>14 DEF SamePlaces
  <2> QED BY <1>3, <1>10, <1>14, <2>1, LaidKept, ShowKept DEF Consistent
<1>17. TreeOK(u, w2) BY <1>2, <1>3, <1>10, <1>14, <1>15 DEF Consistent, TreeOK
<1>18. WriterOK(u, w2)
  <2>1. Path(UpOf(t), EndsOf(t, w), w, gs) /\ Len(w) <= MaxDepth BY <1>2, <1>3 DEF Consistent, WriterOK
  <2>2. ASSUME NEW d \in DOMAIN w2
        PROVE  /\ w2[d] \in 0 .. gs - 1
               /\ UpOf(t)[w2[d]] = IF d = 1 THEN None ELSE w2[d - 1]
               /\ d > 1 => w2[d - 1] < w2[d]
               /\ \A j \in 0 .. w2[d] - 1 : w2[d] < EndsOf(t, w)[j] => j \in OpenIn(w2)
    <3>1. d \in 1 .. Depth - 1 /\ d \in 1 .. Depth /\ d \in DOMAIN w /\ w2[d] = w[d] /\ d # Depth BY <1>1, <1>2, <1>11
    <3>2. /\ w[d] \in 0 .. gs - 1
          /\ UpOf(t)[w[d]] = IF d = 1 THEN None ELSE w[d - 1]
          /\ d > 1 => w[d - 1] < w[d]
          /\ \A j \in 0 .. w[d] - 1 : w[d] < EndsOf(t, w)[j] => j \in OpenIn(w)
      BY <2>1, <3>1 DEF Path
    <3>3. d # 1 => w2[d - 1] = w[d - 1]
      <4>1. d # 1 => d - 1 \in 1 .. Depth - 1 BY <3>1, <1>1
      <4> QED BY <4>1, <1>11
    <3>4. w[d] < i BY <1>1, <1>2, <1>12, <3>1
    <3>5. ASSUME NEW j \in 0 .. w2[d] - 1, w2[d] < EndsOf(t, w)[j] PROVE j \in OpenIn(w2)
      <4>1. j \in OpenIn(w) BY <3>1, <3>2, <3>5
      <4>2. j # i
        <5>1. PICK x \in Nat : x = w[d] /\ j < x /\ x < i BY <3>1, <3>2, <3>4, <1>4
        <5> QED BY <5>1, <1>5, <1>4
      <4> QED BY <4>1, <4>2, <1>13
    <3> QED BY <3>1, <3>2, <3>3, <3>5
  <2>3. Path(UpOf(u), EndsOf(u, w2), w2, u.groupGapStart) BY <2>2, <1>10, <1>14, <1>15 DEF Path
  <2>4. Len(w2) <= MaxDepth
    <3>1. MaxDepth \in Nat BY GapTableAssumption
    <3> QED BY <3>1, <2>1, <1>1, <1>3, <1>11
  <2> QED BY <2>3, <2>4, <1>3, <1>10, <1>11 DEF WriterOK
<1>19. ReaderOK(u, w2, reader)
  <2>1. ~reader.open BY <1>3 DEF Consistent, ReaderOK
  <2> QED BY <1>3, <1>10, <2>1 DEF Consistent, ReaderOK
<1>20. WalkOK(u, w2, walk) BY <1>3, <1>10, <1>14, <1>15 DEF Consistent, WalkOK
<1>21. writer' = w2 /\ reader' = reader /\ walk' = walk BY <1>2 DEF GroupEnd
<1>22. TableInv' BY <1>10, <1>16, <1>17, <1>18, <1>19, <1>20, <1>21 DEF TableInv, Consistent
<1> QED BY <1>1, <1>2, <1>10, <1>11, <1>13, <1>16, <1>21, <1>22

\* Table u is t with a word more, at the end of those of the group before the
\* gap.
Extended(t, u, value) ==
  /\ u.groupGapStart = t.groupGapStart /\ Count(u) = Count(t)
  /\ Words(u) = Words(t) + 1 /\ Words(t) < SlotCapacity
  /\ \A i \in 0 .. Count(t) - 1 :
       /\ G(u, i).key = G(t, i).key /\ G(u, i).parentIndex = G(t, i).parentIndex
       /\ G(u, i).nodeCount = G(t, i).nodeCount
       /\ G(u, i).slotCount = IF i = t.groupGapStart - 1 THEN G(t, i).slotCount + 1 ELSE G(t, i).slotCount
       /\ Place(u, i) = IF i >= t.groupGapStart THEN Place(t, i) + 1 ELSE Place(t, i)
  /\ \A k \in 0 .. Words(t) : W(u, k) = IF k < t.slotGapStart THEN W(t, k)
                                      ELSE IF k = t.slotGapStart THEN value ELSE W(t, k - 1)

\* A word is added at the end of the words of the group before the gap.
LEMMA SlotWriteStep ==
  ASSUME TableInv, NEW value \in Values, SlotWrite(value)
  PROVE  /\ TableInv' /\ writer' = writer /\ Depth \in 1 .. Depth /\ writer[Depth] = table.groupGapStart - 1
         /\ Extended(table, table', value)
<1>1. PICK t, i, gs, gl, sgs, sgl :
        /\ t = table /\ i = writer[Depth] /\ gs = t.groupGapStart /\ gl = t.groupGapLen
        /\ sgs = t.slotGapStart /\ sgl = t.slotGapLen OBVIOUS
<1>2. Consistent(t, writer, reader, walk) BY <1>1 DEF TableInv
<1>3. /\ {gs, gl, sgs, sgl, GroupCapacity, SlotCapacity} \subseteq Nat
      /\ gs + gl <= GroupCapacity /\ sgs + sgl <= SlotCapacity /\ sgl > 0
      /\ Count(t) = GroupCapacity - gl /\ Words(t) = SlotCapacity - sgl
  BY <1>1, <1>2, TypedIs DEF Consistent, Typed, Count, Words, SlotWrite
<1>4. i \in 0 .. gs - 1 /\ i \in 0 .. Count(t) - 1 /\ i = gs - 1
  <2>1. Depth \in 1 .. Depth BY DepthIs DEF SlotWrite
  <2> QED BY <1>1, <2>1, DepthIs DEF SlotWrite
<1>5. GroupToPhysicalIdx(writer[Depth]) = i BY <1>1, <1>3, <1>4 DEF GroupToPhysicalIdx
<1>6. t.groups[i] = G(t, i) /\ G(t, i) \in Group BY <1>1, <1>2, <1>3, <1>4, TreeIs DEF G, Seen
<1>7. PICK c \in Nat : c = G(t, i).slotCount BY <1>6, GroupFields
<1>8. PICK g, b, s : /\ g = [G(t, i) EXCEPT !.slotCount = c + 1] /\ b = [t.groups EXCEPT ![i] = g]
                     /\ s = [t.slots EXCEPT ![sgs] = value] OBVIOUS
<1>9. PICK u : u = [t EXCEPT !.slots = s, !.slotGapStart = sgs + 1, !.slotGapLen = sgl - 1, !.groups = b] OBVIOUS
<1>10. table' = u
  <2>1. table' = [t EXCEPT !.slots[sgs] = value, !.slotGapStart = @ + 1, !.slotGapLen = @ - 1,
                           !.groups[i].slotCount = @ + 1]
    BY <1>1, <1>5 DEF SlotWrite
  <2>2. t \in Tables BY <1>2 DEF Consistent, Typed
  <2>3. b = [t.groups EXCEPT ![i].slotCount = @ + 1] BY <1>6, <1>7, <1>8
  <2> QED BY <1>1, <1>8, <1>9, <2>1, <2>2, <2>3 DEF Tables
<1>11. /\ g \in Group /\ g.parentIndex = G(t, i).parentIndex /\ g.groupSize = G(t, i).groupSize
       /\ g.flags = G(t, i).flags /\ g.slotIndex = G(t, i).slotIndex /\ g.slotCount = c + 1
       /\ g.key = G(t, i).key /\ g.nodeCount = G(t, i).nodeCount
  BY <1>6, <1>8 DEF Group
<1>12. /\ t \in Tables /\ t.groups \in [0 .. GroupCapacity - 1 -> Group]
       /\ t.slots \in [0 .. SlotCapacity - 1 -> Values \union {0}]
  BY <1>2, TypedIs DEF Consistent, Typed
<1>13. b \in [0 .. GroupCapacity - 1 -> Group] /\ s \in [0 .. SlotCapacity - 1 -> Values \union {0}]
  BY <1>8, <1>11, <1>12
<1>14. sgs + 1 \in 0 .. SlotCapacity /\ sgl - 1 \in 0 .. SlotCapacity BY <1>3
<1>15. /\ u \in Tables /\ u.groups = b /\ u.slots = s /\ u.groupGapStart = gs /\ u.groupGapLen = gl
       /\ u.slotGapStart = sgs + 1 /\ u.slotGapLen = sgl - 1 /\ u.readerCount = t.readerCount
       /\ u.writerActive = t.writerActive
  BY <1>1, <1>9, <1>12, <1>13, <1>14 DEF Tables
<1>16. Typed(u) BY <1>3, <1>15 DEF Typed
<1>17. Count(u) = Count(t) /\ Words(u) = Words(t) + 1 BY <1>1, <1>3, <1>15 DEF Count, Words
<1>18. \A j \in 0 .. Count(t) - 1 : G(u, j) = IF j = i THEN g ELSE G(t, j)
  <2> TAKE j \in 0 .. Count(t) - 1
  <2> DEFINE q == IF j < gs THEN j ELSE j + gl
  <2>1. q \in 0 .. GroupCapacity - 1 /\ (q = i <=> j = i) BY <1>3, <1>4
  <2>2. G(u, j) = b[q] /\ G(t, j) = t.groups[q] BY <1>1, <1>15 DEF G, Seen
  <2> HIDE DEF q
  <2>3. b[q] = IF q = i THEN g ELSE t.groups[q] BY <1>8, <1>12, <2>1
  <2> QED BY <2>1, <2>2, <2>3
<1>19. ASSUME NEW j \in 0 .. Count(t)
       PROVE  Place(u, j) = Place(t, j) + (IF j >= gs THEN 1 ELSE 0)
  <2>1. CASE j = Count(t)
    <3>1. Place(t, j) = Words(t) /\ Place(u, j) = Words(t) + 1 BY <2>1, <1>17 DEF Place
    <3> QED BY <3>1, <2>1, <1>3
  <2>2. CASE j # Count(t)
    <3>1. j \in 0 .. Count(t) - 1 BY <2>2, <1>3
    <3>2. G(u, j).slotIndex = G(t, j).slotIndex /\ G(t, j).slotIndex \in Nat
      BY <3>1, <1>2, <1>11, <1>18, TreeIs, GroupFields
    <3>3. PICK x \in Nat : x = G(t, j).slotIndex BY <3>2
    <3>4. Place(t, j) = IF j < gs THEN x ELSE x - sgl BY <1>1, <2>2, <3>3 DEF Place
    <3>5. Place(u, j) = IF j < gs THEN x ELSE x - (sgl - 1) BY <1>15, <1>17, <2>2, <3>2, <3>3 DEF Place
    <3> QED BY <3>1, <3>4, <3>5, <1>3
  <2> QED BY <2>1, <2>2
<1>20. Laid(u)
  <2>1. Laid(t) BY <1>2 DEF Consistent
  <2>2. 0 \in 0 .. Count(t) /\ gs \in 0 .. Count(t) /\ ~(0 >= gs) BY <1>3, <1>4
  <2>3. Place(u, 0) = 0 /\ Place(u, gs) = sgs + 1 BY <1>1, <1>19, <2>1, <2>2, <1>3 DEF Laid
  <2>4. ASSUME NEW j \in 0 .. Count(t) - 1
        PROVE  Place(u, j) \in Nat /\ Place(u, j + 1) = Place(u, j) + G(u, j).slotCount
    <3>1. j \in 0 .. Count(t) /\ j + 1 \in 0 .. Count(t) BY <1>3
    <3>2. Place(t, j) \in Nat /\ Place(t, j + 1) = Place(t, j) + G(t, j).slotCount BY <2>1 DEF Laid
    <3>3. G(t, j).slotCount \in Nat BY <1>2, TreeIs, GroupFields
    <3>4. PICK x \in Nat, y \in Nat : x = Place(t, j) /\ y = G(t, j).slotCount BY <3>2, <3>3
    <3>5. G(u, j).slotCount = IF j = i THEN y + 1 ELSE y BY <1>7, <1>11, <1>18, <3>4
    <3>6. Place(u, j) = x + (IF j >= gs THEN 1 ELSE 0) /\ Place(u, j + 1) = x + y + (IF j + 1 >= gs THEN 1 ELSE 0)
      BY <1>19, <3>1, <3>2, <3>4
    <3> QED BY <3>5, <3>6, <1>3, <1>4
  <2> QED BY <2>3, <2>4, <1>15, <1>17 DEF Laid
<1>21. SameLinks(t, u) /\ \A j \in 0 .. Count(t) - 1 : G(u, j).flags = G(t, j).flags
  BY <1>11, <1>17, <1>18 DEF SameLinks
<1>22. /\ TreeOK(u, writer) /\ WriterOK(u, writer) /\ ReaderOK(u, writer, reader)
       /\ EndsOf(u, writer) = EndsOf(t, writer)
  BY <1>1, <1>2, <1>15, <1>21, ShapeKept DEF Consistent
<1>23. WalkOK(u, writer, walk) BY <1>2, <1>15, <1>17, <1>21, <1>22, FlagsKept DEF Consistent
<1>24. writer' = writer /\ reader' = reader /\ walk' = walk BY DEF SlotWrite
<1>25. TableInv' BY <1>10, <1>16, <1>20, <1>22, <1>23, <1>24 DEF TableInv, Consistent
<1>26. ASSUME NEW k \in 0 .. Words(t)
       PROVE  W(u, k) = IF k < sgs THEN W(t, k) ELSE IF k = sgs THEN value ELSE W(t, k - 1)
  <2>1. W(u, k) = s[IF k < sgs + 1 THEN k ELSE k + (sgl - 1)] BY <1>15 DEF W, Seen
  <2>2. CASE k < sgs
    <3>1. k < sgs + 1 /\ k \in 0 .. SlotCapacity - 1 /\ k # sgs BY <2>2, <1>3
    <3>2. W(t, k) = t.slots[k] BY <2>2, <1>1 DEF W, Seen
    <3> QED BY <2>1, <2>2, <3>1, <3>2, <1>8, <1>12
  <2>3. CASE k = sgs
    <3>1. k < sgs + 1 /\ k \in 0 .. SlotCapacity - 1 /\ ~(k < sgs) BY <2>3, <1>3
    <3> QED BY <2>1, <2>3, <3>1, <1>8, <1>12
  <2>4. CASE k > sgs
    <3>1. /\ ~(k < sgs + 1) /\ ~(k < sgs) /\ k # sgs /\ ~(k - 1 < sgs)
          /\ k + (sgl - 1) \in 0 .. SlotCapacity - 1 /\ k + (sgl - 1) # sgs /\ k - 1 + sgl = k + (sgl - 1)
      BY <2>4, <1>3
    <3>2. W(t, k - 1) = t.slots[k + (sgl - 1)] BY <3>1, <1>1 DEF W, Seen
    <3> QED BY <2>1, <3>1, <3>2, <1>8, <1>12
  <2>5. k < sgs \/ k = sgs \/ k > sgs BY <1>3
  <2> QED BY <2>2, <2>3, <2>4, <2>5
<1>27. ASSUME NEW j \in 0 .. Count(t) - 1
       PROVE  /\ G(u, j).key = G(t, j).key /\ G(u, j).parentIndex = G(t, j).parentIndex
              /\ G(u, j).nodeCount = G(t, j).nodeCount
              /\ G(u, j).slotCount = IF j = gs - 1 THEN G(t, j).slotCount + 1 ELSE G(t, j).slotCount
              /\ Place(u, j) = IF j >= gs THEN Place(t, j) + 1 ELSE Place(t, j)
  <2>1. j \in 0 .. Count(t) BY <1>3
  <2>2. Place(t, j) \in Nat BY <1>2 DEF Consistent, Laid
  <2>3. Place(u, j) = Place(t, j) + (IF j >= gs THEN 1 ELSE 0) BY <2>1, <1>19
  <2>4. Place(u, j) = IF j >= gs THEN Place(t, j) + 1 ELSE Place(t, j) BY <2>2, <2>3
  <2>5. j = i <=> j = gs - 1 BY <1>4
  <2> QED BY <2>4, <2>5, <1>7, <1>11, <1>18
<1>28. Words(t) < SlotCapacity BY <1>3
<1>29. Extended(t, u, value) BY <1>1, <1>15, <1>17, <1>26, <1>27, <1>28 DEF Extended
<1>30. Depth \in 1 .. Depth BY DepthIs DEF SlotWrite
<1> QED BY <1>1, <1>4, <1>10, <1>24, <1>25, <1>29, <1>30

\* Table u, with w2 open, is t, with w open, with a group more at the gap.
Inserted(t, w, u, w2, key) ==
  /\ Inserts(Count(t), UpOf(t), EndsOf(t, w), t.groupGapStart, OpenIn(w),
             IF Len(w) = 0 THEN None ELSE w[Len(w)], UpOf(u), EndsOf(u, w2))
  /\ u.groupGapStart = t.groupGapStart + 1 /\ Count(u) = Count(t) + 1 /\ Words(u) = Words(t)
  /\ Len(w2) = Len(w) + 1 /\ OpenIn(w2) = OpenIn(w) \union {t.groupGapStart}
  /\ \A i \in 0 .. Count(t) : i < t.groupGapStart =>
       /\ G(u, i).key = G(t, i).key /\ G(u, i).nodeCount = G(t, i).nodeCount
       /\ G(u, i).slotCount = G(t, i).slotCount /\ Place(u, i) = Place(t, i)
  /\ \A i \in 0 .. Count(t) : i = t.groupGapStart =>
       G(u, i).key = key /\ G(u, i).nodeCount = 0 /\ G(u, i).slotCount = 0
  /\ \A i \in 0 .. Count(t) : i > t.groupGapStart =>
       /\ G(u, i).key = G(t, i - 1).key /\ G(u, i).nodeCount = G(t, i - 1).nodeCount
       /\ G(u, i).slotCount = G(t, i - 1).slotCount /\ Place(u, i) = Place(t, i - 1)
  /\ \A k : W(u, k) = W(t, k)

\* A group is inserted at the gap, and links to the groups behind it are
\* renumbered.
LEMMA GroupStartStep ==
  ASSUME TableInv, NEW key \in Keys, GroupStart(key)
  PROVE  /\ TableInv' /\ Count(table) < GroupCapacity /\ Depth < MaxDepth
         /\ Inserted(table, writer, table', writer', key)
<1>1. PICK t, w, gs, gl, sgs, sgl :
        /\ t = table /\ w = writer /\ gs = t.groupGapStart /\ gl = t.groupGapLen
        /\ sgs = t.slotGapStart /\ sgl = t.slotGapLen OBVIOUS
<1>2. Consistent(t, w, reader, walk) /\ t.writerActive /\ Depth = Len(w) /\ Depth < MaxDepth
  BY <1>1 DEF TableInv, GroupStart, Depth
<1> DEFINE n == Count(t)
           up == UpOf(t)
           end == EndsOf(t, w)
           flags == FlagsOf(t)
           Open == OpenIn(w)
<1>3. /\ {gs, gl, sgs, sgl, GroupCapacity, SlotCapacity} \subseteq Nat
      /\ gs + gl <= GroupCapacity /\ sgs + sgl <= SlotCapacity /\ gl > 0
      /\ n = GroupCapacity - gl /\ Words(t) = SlotCapacity - sgl
      /\ None \in Nat /\ None = GroupCapacity + 1
  BY <1>1, <1>2, TypedIs DEF Consistent, Typed, Count, Words, GroupStart, Room, None
<1>4. /\ n \in Nat /\ gs \in 0 .. n /\ n \in Sizes /\ Nested(n, up, end) /\ n < GroupCapacity
      /\ \A i \in 0 .. n - 1 :
           /\ up[i] = G(t, i).parentIndex /\ flags[i] = G(t, i).flags /\ G(t, i) \in Group
           /\ end[i] \in i + 1 .. n
           /\ end[i] = IF i \in Open THEN gs ELSE i + 1 + G(t, i).groupSize
           /\ up[i] \in Nat
  <2>1. n < GroupCapacity BY <1>3
  <2>2. n \in Nat /\ t.groupGapStart \in 0 .. n /\ n \in Sizes /\ Nested(n, up, end) BY <1>2, TreeIs
  <2>3. ASSUME NEW i \in 0 .. n - 1
        PROVE  /\ up[i] = G(t, i).parentIndex /\ flags[i] = G(t, i).flags /\ G(t, i) \in Group
               /\ end[i] \in i + 1 .. n
               /\ end[i] = IF i \in Open THEN t.groupGapStart ELSE i + 1 + G(t, i).groupSize
               /\ up[i] \in Nat
    BY <1>2, TreeIs
  <2> HIDE DEF n, up, end, flags, Open
  <2> QED BY <1>1, <2>1, <2>2, <2>3
<1>5. gs < n => up[gs] = None BY <1>1, <1>2 DEF Consistent, TreeOK
<1>6. /\ w \in Seq(0 .. GroupCapacity - 1) /\ Path(up, end, w, gs) /\ Depth \in Nat /\ DOMAIN w = 1 .. Depth
      /\ \A d \in 1 .. Depth : w[d] \in 0 .. gs - 1 /\ w[d] \in 0 .. n - 1
  BY <1>1, <1>2, DepthIs DEF Consistent, WriterOK
<1>7. Open \subseteq 0 .. gs - 1 /\ Open \subseteq 0 .. n - 1 /\ (Open = {} <=> Depth = 0)
  <2>1. Open = {w[d] : d \in 1 .. Depth} BY <1>6 DEF OpenIn
  <2>2. Open \subseteq 0 .. gs - 1 /\ Open \subseteq 0 .. n - 1 BY <1>6, <2>1
  <2>3. Depth # 0 => 1 \in 1 .. Depth BY <1>6
  <2>4. Depth = 0 => 1 .. Depth = {} BY <1>6
  <2> HIDE DEF Open
  <2> QED BY <2>1, <2>2, <2>3, <2>4
<1> DEFINE parent == IF Depth = 0 THEN None ELSE w[Depth]
<1>8. parent \in Nat /\ (IF Open = {} THEN parent = None ELSE parent \in Open /\ \A i \in Open : i <= parent)
  <2>1. CASE Depth = 0 BY <2>1, <1>3, <1>7
  <2>2. CASE Depth # 0
    <3>1. Depth \in 1 .. Depth /\ Open # {} BY <2>2, <1>6, <1>7
    <3>2. w[Depth] \in Open /\ w[Depth] \in Nat
      <4>1. w[Depth] \in 0 .. gs - 1 BY <3>1, <1>6
      <4>2. w[Depth] \in {w[d] : d \in 1 .. Depth} BY <3>1
      <4> QED BY <4>1, <4>2, <1>6 DEF OpenIn
    <3>3. \A d \in 1 .. Depth : w[d] <= w[Depth] BY <1>2, <1>3, <1>6, <3>1, Increasing
    <3>4. \A i \in Open : i <= w[Depth] BY <3>3, <1>6 DEF OpenIn
    <3> QED BY <2>2, <3>1, <3>2, <3>4
  <2> QED BY <2>1, <2>2
<1>9. \A j \in Open : \A i \in 0 .. j - 1 : j < end[i] => i \in Open
  <2>1. \A d \in DOMAIN w : \A i \in 0 .. w[d] - 1 : w[d] < end[i] => i \in Open BY <1>6 DEF Path
  <2> QED BY <2>1 DEF OpenIn
<1>10. \A i \in Open : end[i] = gs BY <1>4, <1>7
\* A link, renumbered.
<1> DEFINE Link(v) == IF v = None THEN None ELSE v + 1
           up2 == [i \in 0 .. n |-> IF i < gs THEN up[i] ELSE IF i = gs THEN parent ELSE Link(up[i - 1])]
           end2 == [i \in 0 .. n |-> IF i < gs THEN IF i \in Open THEN gs + 1 ELSE end[i]
                                     ELSE IF i = gs THEN gs + 1
                                     ELSE end[i - 1] + 1]
<1>11. /\ Nested(n + 1, up2, end2)
       /\ Inserts(n, up, end, gs, Open, parent, up2, end2)
       /\ \A i \in gs .. n - 1 : up[i] = None \/ up[i] >= gs
       /\ \A i \in 0 .. gs - 1 : up[i] = None \/ up[i] < gs
  <2>1. \A i \in 0 .. n : up2[i] = IF i < gs THEN up[i]
                                   ELSE IF i = gs THEN parent
                                   ELSE IF up[i - 1] = None THEN None ELSE up[i - 1] + 1
    OBVIOUS
  <2>2. \A i \in 0 .. n : end2[i] = IF i < gs THEN IF i \in Open THEN gs + 1 ELSE end[i]
                                     ELSE IF i = gs THEN gs + 1
                                     ELSE end[i - 1] + 1
    OBVIOUS
  <2> HIDE DEF up2, end2, parent, Open, up, end, n
  <2>3. Inserts(n, up, end, gs, Open, parent, up2, end2)
    BY <1>4, <1>5, <1>7, <1>8, <1>9, <1>10, <2>1, <2>2 DEF Inserts
  <2> QED BY <2>3, InsertNested
\* The new group, and the others as they become.
<1>12. PICK new : new = [ZeroGroup EXCEPT !.key = key, !.parentIndex = parent, !.slotIndex = sgs] OBVIOUS
<1>13. /\ new \in Group /\ new.parentIndex = parent /\ new.slotIndex = sgs /\ new.slotCount = 0
       /\ new.groupSize = 0 /\ new.flags = {} /\ new.key = key /\ new.nodeCount = 0
  <2>1. parent \in 0 .. None
    <3>1. CASE Depth = 0 BY <3>1, <1>3
    <3>2. CASE Depth # 0
      <4>1. Depth \in 1 .. Depth BY <3>2, <1>6
      <4>2. w[Depth] \in 0 .. gs - 1 BY <4>1, <1>6
      <4> QED BY <3>2, <4>2, <1>3
    <3> QED BY <3>1, <3>2
  <2> HIDE DEF parent
  <2> QED BY <2>1, <1>3, <1>12 DEF ZeroGroup, Group
<1> DEFINE Shifted(g) == IF g.parentIndex = None \/ g.parentIndex < gs THEN g
                         ELSE [g EXCEPT !.parentIndex = g.parentIndex + 1]
           InGap(p) == p \in gs .. gs + gl - 1
<1>14. PICK b : b = [p \in 0 .. GroupCapacity - 1 |->
                       IF p = gs THEN new ELSE IF InGap(p) THEN t.groups[p] ELSE Shifted(t.groups[p])] OBVIOUS
<1>15. PICK u : u = [t EXCEPT !.groups = b, !.groupGapStart = gs + 1, !.groupGapLen = gl - 1] OBVIOUS
<1>16. t \in Tables /\ t.groups \in [0 .. GroupCapacity - 1 -> Group] BY <1>2, TypedIs DEF Consistent, Typed
<1>17. gs \in 0 .. GroupCapacity - 1 /\ gs \in gs .. gs + gl - 1 BY <1>3
<1>18. table' = u /\ writer' = Append(w, gs) /\ reader' = reader /\ walk' = walk
  <2>0. PICK a : a = [p \in DOMAIN table.groups |->
                        IF p \in Interval(table.groupGapStart, table.groupGapLen) THEN table.groups[p]
                        ELSE Renumbered(table.groups[p], gs, 1)] OBVIOUS
  <2>1. a = [p \in DOMAIN t.groups |-> IF p \in Interval(gs, gl) THEN t.groups[p] ELSE Shifted(t.groups[p])]
    BY <2>0, <1>1 DEF Renumbered
  <2>2. PICK v : v = [t EXCEPT !.groups = a] OBVIOUS
  <2>a. ShiftParents(gs, 1) = [table EXCEPT !.groups = a] BY <2>0 DEF ShiftParents
  <2>b. ShiftParents(gs, 1) = v BY <2>a, <2>2, <1>1
  <2>3. table' = [ShiftParents(gs, 1) EXCEPT !.groups[gs] = new, !.groupGapStart = @ + 1, !.groupGapLen = @ - 1]
    BY <1>1, <1>12 DEF GroupStart
  <2>4. b = [a EXCEPT ![gs] = new]
    <3>1. Interval(gs, gl) = gs .. gs + gl - 1 BY DEF Interval
    <3>2. DOMAIN a = 0 .. GroupCapacity - 1 BY <2>1, <1>16
    <3>3. ASSUME NEW p \in 0 .. GroupCapacity - 1, p # gs
          PROVE  a[p] = IF InGap(p) THEN t.groups[p] ELSE Shifted(t.groups[p])
      BY <2>1, <3>1, <1>16
    <3> HIDE DEF InGap, Shifted
    <3>4. b = [p \in 0 .. GroupCapacity - 1 |-> IF p = gs THEN new ELSE a[p]] BY <1>14, <3>3
    <3> QED BY <3>2, <3>4, <1>17
  <2>5. v.groups = a /\ v.groupGapStart = gs /\ v.groupGapLen = gl BY <1>1, <1>16, <2>2 DEF Tables
  <2>6. table' = [v EXCEPT !.groups = [v.groups EXCEPT ![gs] = new],
                           !.groupGapStart = v.groupGapStart + 1, !.groupGapLen = v.groupGapLen - 1]
    BY <2>b, <2>3
  <2>7. table' = [v EXCEPT !.groups = b, !.groupGapStart = gs + 1, !.groupGapLen = gl - 1]
    BY <2>4, <2>5, <2>6
  <2>8. table' = u BY <1>15, <1>16, <2>2, <2>7 DEF Tables
  <2> QED BY <1>1, <2>8 DEF GroupStart
<1>19. ASSUME NEW i \in 0 .. n - 1
       PROVE  /\ Shifted(G(t, i)) \in Group
              /\ Shifted(G(t, i)).parentIndex = IF i < gs THEN up[i] ELSE Link(up[i])
              /\ Shifted(G(t, i)).slotIndex = G(t, i).slotIndex
              /\ Shifted(G(t, i)).slotCount = G(t, i).slotCount
              /\ Shifted(G(t, i)).groupSize = G(t, i).groupSize
              /\ Shifted(G(t, i)).flags = G(t, i).flags
              /\ Shifted(G(t, i)).key = G(t, i).key /\ Shifted(G(t, i)).nodeCount = G(t, i).nodeCount
  <2>1. PICK g \in Group, v \in Nat : g = G(t, i) /\ v = up[i] /\ g.parentIndex = v BY <1>4
  <2>2. (i >= gs => v = None \/ v >= gs) /\ (i < gs => v = None \/ v < gs)
    <3>1. i >= gs => i \in gs .. n - 1 BY <1>3
    <3>2. i < gs => i \in 0 .. gs - 1 BY <1>3
    <3> HIDE DEF up
    <3> QED BY <3>1, <3>2, <1>11, <2>1
  <2>3. v = None \/ v < n
    <3>1. up[i] = None \/ up[i] < i BY <1>4 DEF Nested
    <3> QED BY <2>1, <3>1, <1>4
  <2>4. CASE v = None \/ v < gs
    <3>1. Shifted(G(t, i)) = g BY <2>1, <2>4
    <3>2. v = IF i < gs THEN v ELSE Link(v) BY <2>2, <2>4, <1>3, <1>4
    <3> QED BY <2>1, <3>1, <3>2
  <2>5. CASE ~(v = None \/ v < gs)
    <3>1. Shifted(G(t, i)) = [g EXCEPT !.parentIndex = v + 1] BY <2>1, <2>5
    <3>2. v + 1 \in 0 .. None BY <2>3, <2>5, <1>3, <1>4
    <3>3. ~(i < gs) BY <2>2, <2>5
    <3>4. [g EXCEPT !.parentIndex = v + 1] \in Group BY <3>2 DEF Group
    <3>5. /\ [g EXCEPT !.parentIndex = v + 1].parentIndex = v + 1
          /\ [g EXCEPT !.parentIndex = v + 1].slotIndex = g.slotIndex
          /\ [g EXCEPT !.parentIndex = v + 1].slotCount = g.slotCount
          /\ [g EXCEPT !.parentIndex = v + 1].groupSize = g.groupSize
          /\ [g EXCEPT !.parentIndex = v + 1].flags = g.flags
          /\ [g EXCEPT !.parentIndex = v + 1].key = g.key
          /\ [g EXCEPT !.parentIndex = v + 1].nodeCount = g.nodeCount
      BY DEF Group
    <3> HIDE DEF Shifted, up
    <3> QED BY <2>1, <2>5, <3>1, <3>3, <3>4, <3>5
  <2> QED BY <2>4, <2>5
<1> HIDE DEF Shifted
<1>20. b \in [0 .. GroupCapacity - 1 -> Group]
  <2>1. ASSUME NEW p \in 0 .. GroupCapacity - 1
        PROVE  (IF p = gs THEN new ELSE IF InGap(p) THEN t.groups[p] ELSE Shifted(t.groups[p])) \in Group
    <3>1. CASE p = gs BY <3>1, <1>13
    <3>2. CASE p # gs /\ InGap(p) BY <3>2, <1>16
    <3>3. CASE p # gs /\ ~InGap(p) /\ p < gs
      <4>1. p \in 0 .. n - 1 BY <3>3, <1>3, <1>4
      <4>2. t.groups[p] = G(t, p) BY <3>3, <1>1 DEF G, Seen
      <4> QED BY <3>3, <4>1, <4>2, <1>19
    <3>4. CASE p # gs /\ ~InGap(p) /\ ~(p < gs)
      <4>1. p - gl \in 0 .. n - 1 /\ ~(p - gl < gs) /\ p - gl + gl = p BY <3>4, <1>3
      <4>2. t.groups[p] = G(t, p - gl) BY <4>1, <1>1 DEF G, Seen
      <4> QED BY <3>4, <4>1, <4>2, <1>19
    <3> QED BY <3>1, <3>2, <3>3, <3>4
  <2> HIDE DEF InGap
  <2> QED BY <2>1, <1>14
<1>21. gs + 1 \in 0 .. GroupCapacity /\ gl - 1 \in 0 .. GroupCapacity BY <1>3
<1>22. /\ u \in Tables /\ u.groups = b /\ u.slots = t.slots /\ u.groupGapStart = gs + 1 /\ u.groupGapLen = gl - 1
       /\ u.slotGapStart = sgs /\ u.slotGapLen = sgl /\ u.readerCount = t.readerCount
       /\ u.writerActive = t.writerActive
  BY <1>1, <1>15, <1>16, <1>20, <1>21 DEF Tables
<1>23. Typed(u) BY <1>3, <1>22 DEF Typed
<1>24. Count(u) = n + 1 /\ Words(u) = Words(t) BY <1>1, <1>3, <1>22 DEF Count, Words
<1>25. ASSUME NEW i \in 0 .. n
       PROVE  G(u, i) = IF i < gs THEN Shifted(G(t, i)) ELSE IF i = gs THEN new ELSE Shifted(G(t, i - 1))
  <2>0. G(u, i) = b[IF i < gs + 1 THEN i ELSE i + (gl - 1)] BY <1>22 DEF G, Seen
  <2>1. CASE i < gs
    <3>1. i \in 0 .. GroupCapacity - 1 /\ i # gs /\ ~InGap(i) /\ i < gs + 1 BY <2>1, <1>3
    <3>2. b[i] = Shifted(t.groups[i]) BY <3>1, <1>14
    <3>3. G(t, i) = t.groups[i] BY <2>1, <1>1 DEF G, Seen
    <3> QED BY <2>0, <2>1, <3>1, <3>2, <3>3
  <2>2. CASE i = gs
    <3>1. b[gs] = new /\ i < gs + 1 BY <1>14, <1>17, <2>2, <1>3
    <3> QED BY <2>0, <2>2, <3>1, <1>3
  <2>3. CASE i > gs
    <3>1. i + (gl - 1) \in 0 .. GroupCapacity - 1 /\ i + (gl - 1) # gs /\ ~InGap(i + (gl - 1)) /\ ~(i < gs + 1)
          /\ ~(i - 1 < gs) /\ i + (gl - 1) = i - 1 + gl BY <2>3, <1>3
    <3>2. b[i + (gl - 1)] = Shifted(t.groups[i + (gl - 1)]) BY <3>1, <1>14
    <3>3. G(t, i - 1) = t.groups[i - 1 + gl] BY <3>1, <1>1 DEF G, Seen
    <3>4. ~(i < gs) /\ i # gs BY <2>3, <1>3
    <3> QED BY <2>0, <3>1, <3>2, <3>3, <3>4
  <2> QED BY <2>1, <2>2, <2>3, <1>3
<1> HIDE DEF InGap
<1>26. ASSUME NEW i \in 0 .. n + 1
       PROVE  Place(u, i) = IF i <= gs THEN Place(t, i) ELSE Place(t, i - 1)
  <2>1. CASE i < gs
    <3>1. i \in 0 .. n - 1 /\ i \in 0 .. n /\ i # n /\ i # n + 1 /\ i < gs + 1 BY <2>1, <1>3, <1>4
    <3>2. G(u, i).slotIndex = G(t, i).slotIndex BY <2>1, <3>1, <1>19, <1>25
    <3> QED BY <2>1, <3>1, <3>2, <1>1, <1>3, <1>22, <1>24 DEF Place
  <2>2. CASE i = gs
    <3>1. i \in 0 .. n /\ i # n + 1 /\ i < gs + 1 /\ ~(i < gs) BY <2>2, <1>3, <1>4
    <3>2. G(u, i).slotIndex = sgs BY <2>2, <3>1, <1>13, <1>25
    <3>3. Place(u, i) = sgs BY <3>1, <3>2, <1>22, <1>24 DEF Place
    <3>4. Place(t, gs) = sgs BY <1>1, <1>2 DEF Consistent, Laid
    <3> QED BY <2>2, <3>1, <3>3, <3>4, <1>3
  <2>3. CASE i > gs
    <3>1. i - 1 \in 0 .. n /\ ~(i <= gs) /\ ~(i < gs + 1) /\ ~(i - 1 < gs) BY <2>3, <1>3, <1>4
    <3>2. CASE i = n + 1
      <4>1. i - 1 = n BY <3>2, <1>4
      <4> QED BY <3>1, <3>2, <4>1, <1>24 DEF Place
    <3>3. CASE i # n + 1
      <4>1. i \in 0 .. n /\ i - 1 \in 0 .. n - 1 /\ i - 1 # n /\ i # gs /\ ~(i < gs) BY <3>3, <3>1, <2>3, <1>3, <1>4
      <4>2. G(u, i).slotIndex = G(t, i - 1).slotIndex BY <4>1, <1>19, <1>25
      <4> QED BY <3>1, <3>3, <4>1, <4>2, <1>1, <1>22, <1>24 DEF Place
    <3> QED BY <3>2, <3>3
  <2> QED BY <2>1, <2>2, <2>3, <1>3
<1>27. Laid(u)
  <2>1. Laid(t) BY <1>2 DEF Consistent
  <2>2. 0 \in 0 .. n + 1 /\ 0 <= gs /\ gs + 1 \in 0 .. n + 1 /\ ~(gs + 1 <= gs) /\ (gs + 1) - 1 = gs BY <1>3, <1>4
  <2>3. Place(u, 0) = 0 /\ Place(u, gs + 1) = sgs BY <1>1, <1>26, <2>1, <2>2 DEF Laid
  <2>4. ASSUME NEW i \in 0 .. n
        PROVE  Place(u, i) \in Nat /\ Place(u, i + 1) = Place(u, i) + G(u, i).slotCount
    <3>1. i \in 0 .. n + 1 /\ i + 1 \in 0 .. n + 1 BY <1>4
    <3>2. CASE i < gs
      <4>1. i \in 0 .. n - 1 /\ i <= gs /\ i + 1 <= gs BY <3>2, <1>3, <1>4
      <4>2. G(u, i).slotCount = G(t, i).slotCount BY <3>2, <4>1, <1>19, <1>25
      <4>3. Place(t, i) \in Nat /\ Place(t, i + 1) = Place(t, i) + G(t, i).slotCount BY <2>1, <4>1 DEF Laid
      <4>4. Place(u, i) = Place(t, i) /\ Place(u, i + 1) = Place(t, i + 1) BY <3>1, <4>1, <1>26
      <4> QED BY <4>2, <4>3, <4>4
    <3>3. CASE i = gs
      <4>1. Place(u, i) = Place(t, gs) /\ Place(u, i + 1) = Place(t, gs) BY <3>1, <3>3, <1>26, <1>3, <2>2
      <4>2. G(u, i).slotCount = 0 BY <3>3, <1>13, <1>25, <1>3
      <4>3. Place(t, gs) = sgs BY <1>1, <2>1 DEF Laid
      <4> QED BY <4>1, <4>2, <4>3, <1>3
    <3>4. CASE i > gs
      <4>1. i - 1 \in 0 .. n - 1 /\ ~(i <= gs) /\ ~(i + 1 <= gs) /\ (i - 1) + 1 = i /\ (i + 1) - 1 = i
            /\ ~(i < gs) /\ i # gs BY <3>4, <1>3, <1>4
      <4>2. G(u, i).slotCount = G(t, i - 1).slotCount BY <4>1, <1>19, <1>25
      <4>3. Place(t, i - 1) \in Nat /\ Place(t, i) = Place(t, i - 1) + G(t, i - 1).slotCount BY <2>1, <4>1 DEF Laid
      <4>4. Place(u, i) = Place(t, i - 1) /\ Place(u, i + 1) = Place(t, i) BY <3>1, <4>1, <1>26
      <4> QED BY <4>2, <4>3, <4>4
    <3>5. i < gs \/ i = gs \/ i > gs BY <1>3, <1>4
    <3> QED BY <3>2, <3>3, <3>4, <3>5
  <2>5. (n + 1) - 1 = n BY <1>4
  <2> QED BY <2>3, <2>4, <2>5, <1>22, <1>24 DEF Laid
\* The tree and the stack.
<1>28. PICK w2 : w2 = Append(w, gs) OBVIOUS
<1>29. /\ w2 \in Seq(0 .. GroupCapacity - 1) /\ Len(w2) = Depth + 1 /\ DOMAIN w2 = 1 .. Depth + 1
       /\ w2[Depth + 1] = gs /\ \A d \in 1 .. Depth : w2[d] = w[d]
  <2>1. Append(w, gs) \in Seq(0 .. GroupCapacity - 1) /\ Len(Append(w, gs)) = Len(w) + 1
        /\ \A d \in 1 .. Len(w) : Append(w, gs)[d] = w[d]
        /\ Append(w, gs)[Len(w) + 1] = gs
    BY <1>6, <1>17, AppendProperties
  <2>2. DOMAIN w2 = 1 .. Len(w2) BY <2>1, <1>28
  <2> QED BY <1>2, <1>28, <2>1, <2>2
<1>30. OpenIn(w2) = Open \union {gs}
  <2>1. OpenIn(w2) = {w2[d] : d \in 1 .. Depth + 1} BY <1>29 DEF OpenIn
  <2>2. Open = {w[d] : d \in 1 .. Depth} BY <1>6 DEF OpenIn
  <2>3. \A d \in 1 .. Depth + 1 : d \in 1 .. Depth \/ d = Depth + 1 BY <1>6
  <2>4. 1 .. Depth \subseteq 1 .. Depth + 1 /\ Depth + 1 \in 1 .. Depth + 1 BY <1>6
  <2> QED BY <1>29, <2>1, <2>2, <2>3, <2>4
<1>31. UpOf(u) = up2
  <2>1. ASSUME NEW i \in 0 .. n PROVE G(u, i).parentIndex = up2[i]
    <3>1. CASE i < gs
      <4>1. i \in 0 .. n - 1 BY <3>1, <1>3, <1>4
      <4> QED BY <3>1, <4>1, <1>19, <1>25
    <3>2. CASE i = gs BY <3>2, <1>13, <1>25, <1>3
    <3>3. CASE i > gs
      <4>1. i - 1 \in 0 .. n - 1 /\ ~(i - 1 < gs) /\ ~(i < gs) /\ i # gs BY <3>3, <1>3, <1>4
      <4> QED BY <4>1, <1>19, <1>25
    <3> QED BY <3>1, <3>2, <3>3, <1>3
  <2>2. 0 .. Count(u) - 1 = 0 .. n
    <3>1. (n + 1) - 1 = n BY <1>4
    <3> QED BY <3>1, <1>24
  <2>3. UpOf(u) = [i \in 0 .. n |-> G(u, i).parentIndex] BY <2>2 DEF UpOf
  <2>4. UpOf(u) = [i \in 0 .. n |-> up2[i]] BY <2>1, <2>3
  <2> QED BY <2>4
<1>32. EndsOf(u, w2) = end2
  <2>1. ASSUME NEW i \in 0 .. n
        PROVE  (IF i \in OpenIn(w2) THEN gs + 1 ELSE i + 1 + G(u, i).groupSize) = end2[i]
    <3>1. CASE i < gs
      <4>1. i \in 0 .. n - 1 /\ i # gs BY <3>1, <1>3, <1>4
      <4>2. G(u, i).groupSize = G(t, i).groupSize BY <3>1, <4>1, <1>19, <1>25
      <4>3. i \in OpenIn(w2) <=> i \in Open BY <4>1, <1>30
      <4>4. end[i] = IF i \in Open THEN gs ELSE i + 1 + G(t, i).groupSize BY <4>1, <1>4
      <4>5. end2[i] = IF i \in Open THEN gs + 1 ELSE end[i] BY <3>1
      <4> HIDE DEF end2, end, Open
      <4> QED BY <4>2, <4>3, <4>4, <4>5
    <3>2. CASE i = gs BY <3>2, <1>30, <1>3
    <3>3. CASE i > gs
      <4>1. i - 1 \in 0 .. n - 1 /\ ~(i < gs) /\ i # gs BY <3>3, <1>3, <1>4
      <4>2. G(u, i).groupSize = G(t, i - 1).groupSize BY <4>1, <1>19, <1>25
      <4>3. i \notin OpenIn(w2) /\ i - 1 \notin Open
        <5>1. \A j \in Open : j < gs BY <1>3, <1>7
        <5>2. ~(i - 1 < gs) BY <3>3, <1>3
        <5> QED BY <4>1, <5>1, <5>2, <1>30
      <4>4. end[i - 1] = i - 1 + 1 + G(t, i - 1).groupSize BY <4>1, <4>3, <1>4
      <4>5. end2[i] = end[i - 1] + 1 BY <4>1
      <4>6. G(t, i - 1).groupSize \in Nat BY <4>1, <1>4, GroupFields
      <4> HIDE DEF end2, end, Open
      <4>7. i - 1 + 1 + G(t, i - 1).groupSize + 1 = i + 1 + G(t, i - 1).groupSize BY <4>6
      <4> QED BY <4>2, <4>3, <4>4, <4>5, <4>7
    <3> QED BY <3>1, <3>2, <3>3, <1>3
  <2>2. 0 .. Count(u) - 1 = 0 .. n
    <3>1. (n + 1) - 1 = n BY <1>4
    <3> QED BY <3>1, <1>24
  <2>3. EndsOf(u, w2) = [i \in 0 .. n |-> IF i \in OpenIn(w2) THEN gs + 1 ELSE i + 1 + G(u, i).groupSize]
    BY <2>2, <1>22 DEF EndsOf
  <2>4. EndsOf(u, w2) = [i \in 0 .. n |-> end2[i]]
    <3> HIDE DEF end2
    <3> QED BY <2>1, <2>3
  <2> QED BY <2>4
<1>33. \A i \in 0 .. n : FlagsOf(u)[i] = IF i < gs THEN flags[i] ELSE IF i = gs THEN {} ELSE flags[i - 1]
  <2> TAKE i \in 0 .. n
  <2>1. i \in 0 .. Count(u) - 1
    <3>1. (n + 1) - 1 = n BY <1>4
    <3> QED BY <3>1, <1>24
  <2>2. FlagsOf(u)[i] = G(u, i).flags BY <2>1 DEF FlagsOf
  <2>3. CASE i < gs
    <3>1. i \in 0 .. n - 1 BY <2>3, <1>3, <1>4
    <3> QED BY <2>2, <2>3, <3>1, <1>4, <1>19, <1>25
  <2>4. CASE i = gs
    <3>1. ~(i < gs) BY <2>4, <1>3
    <3>2. G(u, i) = new BY <2>4, <3>1, <1>25
    <3> QED BY <2>2, <2>4, <3>1, <3>2, <1>13
  <2>5. CASE i > gs
    <3>1. i - 1 \in 0 .. n - 1 /\ ~(i < gs) /\ i # gs BY <2>5, <1>3, <1>4
    <3> QED BY <2>2, <3>1, <1>4, <1>19, <1>25
  <2> QED BY <2>3, <2>4, <2>5, <1>3
<1>34. ASSUME NEW i \in 0 .. gs - 1 PROVE end[i] \in Nat /\ end[i] <= gs
  <2>1. i \in 0 .. n - 1 /\ end[i] \in Nat BY <1>3, <1>4
  <2>2. ASSUME end[i] > gs PROVE FALSE
    <3>1. gs < n /\ gs \in i + 1 .. end[i] - 1 BY <2>1, <2>2, <1>3, <1>4
    <3>2. up[gs] < gs BY <2>1, <3>1, <1>4 DEF Nested
    <3> QED BY <3>1, <3>2, <1>3, <1>4, <1>5
  <2> QED BY <2>1, <2>2, <1>3
<1>35. \A i \in 0 .. n : /\ i < gs => up2[i] = up[i] /\ end2[i] = IF i \in Open THEN gs + 1 ELSE end[i]
                         /\ i = gs => up2[i] = parent /\ end2[i] = gs + 1
                         /\ i > gs => up2[i] = Link(up[i - 1]) /\ end2[i] = end[i - 1] + 1
  <2> TAKE i \in 0 .. n
  <2>1. i > gs => ~(i < gs) /\ i # gs BY <1>3
  <2>2. i = gs => ~(i < gs) BY <1>3
  <2> QED BY <2>1, <2>2
<1>36. Link(None) = None OBVIOUS
<1> HIDE DEF up2, end2, up, end, flags, Open, n, Link
<1>37. TreeOK(u, w2)
  <2>1. ASSUME gs + 1 < n + 1 PROVE up2[gs + 1] = None
    <3>1. gs < n /\ gs + 1 \in 0 .. n /\ gs + 1 > gs /\ (gs + 1) - 1 = gs BY <2>1, <1>3, <1>4
    <3> QED BY <3>1, <1>5, <1>35, <1>36
  <2> QED BY <2>1, <1>11, <1>22, <1>24, <1>31, <1>32 DEF TreeOK
<1>38. WriterOK(u, w2)
  <2>1. ASSUME NEW d \in DOMAIN w2
        PROVE  /\ w2[d] \in 0 .. (gs + 1) - 1
               /\ up2[w2[d]] = IF d = 1 THEN None ELSE w2[d - 1]
               /\ d > 1 => w2[d - 1] < w2[d]
               /\ \A i \in 0 .. w2[d] - 1 : w2[d] < end2[i] => i \in OpenIn(w2)
    <3>1. CASE d \in 1 .. Depth
      <4>1. /\ w[d] \in 0 .. gs - 1
            /\ up[w[d]] = IF d = 1 THEN None ELSE w[d - 1]
            /\ d > 1 => w[d - 1] < w[d]
            /\ \A i \in 0 .. w[d] - 1 : w[d] < end[i] => i \in Open
        BY <3>1, <1>6 DEF Path, Open
      <4>2. w2[d] = w[d] /\ (d # 1 => w2[d - 1] = w[d - 1])
        <5>1. d # 1 => d - 1 \in 1 .. Depth BY <3>1, <1>6
        <5> QED BY <3>1, <5>1, <1>29
      <4>3. PICK x \in 0 .. gs - 1 : x = w[d] BY <4>1
      <4>4. x \in 0 .. n /\ x < gs /\ x \in 0 .. (gs + 1) - 1 BY <1>3, <1>4
      <4>5. up2[x] = up[x] BY <4>4, <1>35
      <4>6. ASSUME NEW i \in 0 .. x - 1, x < end2[i] PROVE i \in OpenIn(w2)
        <5>1. i \in 0 .. n /\ i < gs /\ i \in 0 .. x - 1 BY <4>4, <1>3, <1>4
        <5>2. CASE i \in Open BY <5>2, <1>30
        <5>3. CASE i \notin Open
          <6>1. end2[i] = end[i] BY <5>1, <5>3, <1>35
          <6> QED BY <4>1, <4>3, <4>6, <5>1, <5>3, <6>1
        <5> QED BY <5>2, <5>3
      <4> QED BY <4>1, <4>2, <4>3, <4>4, <4>5, <4>6
    <3>2. CASE d = Depth + 1
      <4>1. w2[d] = gs BY <3>2, <1>29
      <4>2. gs \in 0 .. n /\ gs \in 0 .. (gs + 1) - 1 BY <1>3, <1>4
      <4>3. up2[gs] = parent BY <4>2, <1>35
      <4>4. parent = IF d = 1 THEN None ELSE w2[d - 1]
        <5>1. CASE Depth = 0 BY <5>1, <3>2
        <5>2. CASE Depth # 0
          <6>1. d # 1 /\ d - 1 = Depth /\ Depth \in 1 .. Depth BY <5>2, <3>2, <1>6
          <6> QED BY <5>2, <6>1, <1>29
        <5> QED BY <5>1, <5>2
      <4>5. ASSUME d > 1 PROVE w2[d - 1] < gs
        <5>1. d - 1 \in 1 .. Depth BY <4>5, <3>2, <1>6
        <5>2. w2[d - 1] = w[d - 1] /\ w[d - 1] \in 0 .. gs - 1 BY <5>1, <1>6, <1>29
        <5> QED BY <5>2, <1>3
      <4>6. ASSUME NEW i \in 0 .. gs - 1, gs < end2[i] PROVE i \in OpenIn(w2)
        <5>1. i \in 0 .. n /\ i < gs BY <1>3, <1>4
        <5>2. CASE i \in Open BY <5>2, <1>30
        <5>3. CASE i \notin Open
          <6>1. end2[i] = end[i] BY <5>1, <5>3, <1>35
          <6>2. end[i] \in Nat /\ end[i] <= gs BY <1>34
          <6> QED BY <4>6, <6>1, <6>2, <1>3
        <5> QED BY <5>2, <5>3
      <4> HIDE DEF parent
      <4> QED BY <4>1, <4>2, <4>3, <4>4, <4>5, <4>6
    <3>3. d \in 1 .. Depth \/ d = Depth + 1 BY <1>6, <1>29
    <3> QED BY <3>1, <3>2, <3>3
  <2>2. Path(UpOf(u), EndsOf(u, w2), w2, u.groupGapStart) BY <2>1, <1>22, <1>31, <1>32 DEF Path
  <2>3. Len(w2) <= MaxDepth
    <3>1. MaxDepth \in Nat BY GapTableAssumption
    <3> QED BY <3>1, <1>2, <1>6, <1>29
  <2> QED BY <2>2, <2>3, <1>2, <1>22, <1>29 DEF WriterOK
<1>39. ReaderOK(u, w2, reader)
  <2>1. ~reader.open BY <1>2 DEF Consistent, ReaderOK
  <2> QED BY <1>2, <1>22, <2>1 DEF Consistent, ReaderOK
<1>40. WalkOK(u, w2, walk)
  <2>1. walk = None /\ Marked(n, end, flags, None) BY <1>2 DEF Consistent, WalkOK, n, end, flags
  <2>2. ASSUME NEW i \in 0 .. n, FlagsOf(u)[i] # {}, NEW j \in 0 .. i - 1, i < end2[j]
        PROVE  "contains" \in FlagsOf(u)[j]
    <3>1. j \in 0 .. n /\ j < i BY <1>4
    <3>2. CASE i < gs
      <4>1. i \in 0 .. n - 1 /\ j < gs /\ j \in 0 .. gs - 1 /\ j \in 0 .. n - 1 BY <3>1, <3>2, <1>3, <1>4
      <4>2. FlagsOf(u)[i] = flags[i] /\ FlagsOf(u)[j] = flags[j] BY <3>1, <3>2, <4>1, <1>33
      <4>3. i < end[j]
        <5>1. CASE j \in Open BY <5>1, <1>10, <3>2
        <5>2. CASE j \notin Open BY <5>2, <2>2, <3>1, <4>1, <1>35
        <5> QED BY <5>1, <5>2
      <4> QED BY <2>1, <2>2, <4>1, <4>2, <4>3 DEF Marked
    <3>3. CASE i = gs BY <3>3, <2>2, <1>33, <1>3
    <3>4. CASE i > gs
      <4>1. CASE j < gs
        <5>1. j \in 0 .. gs - 1 BY <4>1, <3>1, <1>3, <1>4
        <5>2. end2[j] = (IF j \in Open THEN gs + 1 ELSE end[j]) /\ end[j] \in Nat /\ end[j] <= gs
          BY <3>1, <4>1, <5>1, <1>34, <1>35
        <5> QED BY <5>2, <2>2, <3>4, <1>3
      <4>2. CASE j = gs
        <5>1. end2[j] = gs + 1 BY <3>1, <4>2, <1>35
        <5> QED BY <5>1, <2>2, <3>4, <1>3
      <4>3. CASE j > gs
        <5>1. PICK k \in 0 .. n - 1, l \in 0 .. n - 1 : k = i - 1 /\ l = j - 1 /\ l \in 0 .. k - 1
          BY <3>1, <3>4, <4>3, <1>3, <1>4
        <5>2. FlagsOf(u)[i] = flags[k] /\ FlagsOf(u)[j] = flags[l]
          <6>1. ~(i < gs) /\ i # gs /\ ~(j < gs) /\ j # gs BY <3>4, <4>3, <1>3
          <6> QED BY <3>1, <5>1, <6>1, <1>33
        <5>3. end2[j] = end[l] + 1 /\ end[l] \in Nat BY <3>1, <4>3, <5>1, <1>4, <1>35
        <5>4. k < end[l] BY <5>1, <5>3, <2>2
        <5> QED BY <2>1, <2>2, <5>1, <5>2, <5>4 DEF Marked
      <4> QED BY <4>1, <4>2, <4>3, <3>1, <1>3
    <3>5. i < gs \/ i = gs \/ i > gs BY <1>3, <1>4
    <3> QED BY <3>2, <3>3, <3>4, <3>5
  <2>3. Marked(n + 1, end2, FlagsOf(u), None)
    <3>1. (n + 1) - 1 = n BY <1>4
    <3> QED BY <2>2, <3>1 DEF Marked
  <2> QED BY <2>1, <2>3, <1>24, <1>32 DEF WalkOK
<1>41. TableInv' BY <1>18, <1>23, <1>27, <1>28, <1>37, <1>38, <1>39, <1>40 DEF TableInv, Consistent
\* What has become of each group.
<1>42. ASSUME NEW i \in 0 .. n, i < gs
       PROVE  /\ G(u, i).key = G(t, i).key /\ G(u, i).nodeCount = G(t, i).nodeCount
              /\ G(u, i).slotCount = G(t, i).slotCount /\ Place(u, i) = Place(t, i)
  <2>1. i \in 0 .. n - 1 /\ i \in 0 .. n + 1 /\ i <= gs BY <1>42, <1>3, <1>4
  <2> QED BY <2>1, <1>19, <1>25, <1>26, <1>42
<1>43. ASSUME NEW i \in 0 .. n, i = gs
       PROVE  G(u, i).key = key /\ G(u, i).nodeCount = 0 /\ G(u, i).slotCount = 0
  <2>1. G(u, i) = new BY <1>25, <1>43, <1>3
  <2> QED BY <2>1, <1>13
<1>44. ASSUME NEW i \in 0 .. n, i > gs
       PROVE  /\ G(u, i).key = G(t, i - 1).key /\ G(u, i).nodeCount = G(t, i - 1).nodeCount
              /\ G(u, i).slotCount = G(t, i - 1).slotCount /\ Place(u, i) = Place(t, i - 1)
  <2>1. i - 1 \in 0 .. n - 1 /\ i \in 0 .. n + 1 /\ ~(i <= gs) /\ ~(i < gs) /\ i # gs BY <1>44, <1>3, <1>4
  <2> QED BY <2>1, <1>19, <1>25, <1>26
<1>45. \A k : W(u, k) = W(t, k) BY <1>1, <1>22 DEF W
<1>46. Inserts(n, up, end, gs, Open, IF Len(w) = 0 THEN None ELSE w[Len(w)], UpOf(u), EndsOf(u, w2))
  BY <1>2, <1>11, <1>31, <1>32 DEF parent
<1>47. Inserted(t, w, u, w2, key)
  <2>1. u.groupGapStart = gs + 1 /\ Count(u) = n + 1 /\ Words(u) = Words(t) BY <1>22, <1>24
  <2>2. Len(w2) = Len(w) + 1 /\ OpenIn(w2) = Open \union {gs} BY <1>2, <1>29, <1>30
  <2>3. n = Count(t) /\ up = UpOf(t) /\ end = EndsOf(t, w) /\ Open = OpenIn(w) BY DEF n, up, end, Open
  <2> QED BY <2>1, <2>2, <2>3, <1>1, <1>42, <1>43, <1>44, <1>45, <1>46 DEF Inserted
<1>48. Count(t) < GroupCapacity BY <1>4 DEF n
<1> QED BY <1>1, <1>2, <1>18, <1>28, <1>41, <1>47, <1>48

-----------------------------------------------------------------------------
(* The reader.                                                             *)

\* While a reader is open nothing is written: sizes are ends.
LEMMA ReaderIs ==
  ASSUME TableInv, reader.open
  PROVE  /\ ~table.writerActive /\ writer = <<>> /\ Consistent(table, <<>>, reader, walk) /\ reader \in Readers
         /\ Reads(Count(table), UpOf(table), EndsOf(table, <<>>), reader)
         /\ \A i \in 0 .. Count(table) - 1 :
              EndOf(i) = EndsOf(table, <<>>)[i] /\ GroupAt(i).parentIndex = UpOf(table)[i]
<1>1. ~table.writerActive /\ writer = <<>> BY NoWriter DEF TableInv, Consistent, ReaderOK
<1>2. Consistent(table, <<>>, reader, walk) BY <1>1 DEF TableInv
<1>3. reader \in Readers /\ Reads(Count(table), UpOf(table), EndsOf(table, <<>>), reader)
  BY <1>2 DEF Consistent, ReaderOK
<1>4. ASSUME NEW i \in 0 .. Count(table) - 1
      PROVE  EndOf(i) = EndsOf(table, <<>>)[i] /\ GroupAt(i).parentIndex = UpOf(table)[i]
  BY <1>2, TreeIs, NoneOpen, Names DEF EndOf
<1> QED BY <1>1, <1>2, <1>3, <1>4

\* A step of the reader that leaves it between groups.
LEMMA ReaderMoves ==
  ASSUME TableInv, reader.open, UNCHANGED <<table, writer, walk>>,
         NEW r \in Readers, reader' = r, r.open,
         Reads(Count(table), UpOf(table), EndsOf(table, <<>>), r)
  PROVE  TableInv'
<1>1. writer = <<>> /\ Consistent(table, <<>>, reader, walk) BY ReaderIs
<1>2. ReaderOK(table, <<>>, r) BY <1>1 DEF Consistent, ReaderOK
<1>3. Consistent(table, <<>>, r, walk) BY <1>1, <1>2 DEF Consistent
<1> QED BY <1>1, <1>3 DEF TableInv

\* The group at a reader that is not at its boundary.
LEMMA ReadsGroup ==
  ASSUME NEW t, NEW r, NEW rd, NEW wk, Consistent(t, <<>>, rd, wk), r \in Readers,
         Reads(Count(t), UpOf(t), EndsOf(t, <<>>), r), r.currentGroup < r.groupEnd
  PROVE  /\ r.currentGroup \in 0 .. Count(t) - 1 /\ UpOf(t)[r.currentGroup] = r.currentParent
         /\ r.groupEnd <= Count(t)
<1>1. r.currentGroup \in Nat /\ r.groupEnd \in Nat /\ r.currentParent \in Nat
  BY GapTableAssumption DEF Readers, None
<1>2. Count(t) \in Nat /\ \A i \in 0 .. Count(t) - 1 : EndsOf(t, <<>>)[i] \in i + 1 .. Count(t) BY TreeIs
<1>3. r.groupEnd <= Count(t)
  <2>1. CASE r.currentParent = None BY <2>1, <1>1, <1>2 DEF Reads
  <2>2. CASE r.currentParent # None
    <3>1. r.currentParent \in 0 .. Count(t) - 1 /\ r.groupEnd = EndsOf(t, <<>>)[r.currentParent] BY <2>2 DEF Reads
    <3> QED BY <3>1, <1>1, <1>2
  <2> QED BY <2>1, <2>2
<1>4. r.currentGroup < Count(t) BY <1>1, <1>2, <1>3
<1> QED BY <1>1, <1>2, <1>3, <1>4 DEF Reads

\* Only the counters and flags of the table's head differ.
LEMMA CountsChanged ==
  ASSUME NEW t, NEW u, NEW w, NEW r, NEW wk, NEW r2 \in Readers, Consistent(t, w, r, wk),
         u.groups = t.groups, u.slots = t.slots, u.groupGapStart = t.groupGapStart,
         u.groupGapLen = t.groupGapLen, u.slotGapStart = t.slotGapStart,
         u.slotGapLen = t.slotGapLen, u.writerActive = t.writerActive, u \in Tables,
         u.readerCount = (IF r2.open THEN 1 ELSE 0),
         r2.open => ~t.writerActive /\ Reads(Count(t), UpOf(t), EndsOf(t, w), r2)
  PROVE  Consistent(u, w, r2, wk)
<1>1. Typed(u) BY DEF Consistent, Typed
<1>2. Count(u) = Count(t) /\ \A j : G(u, j) = G(t, j) BY DEF Count, G
<1>3. SamePlaces(t, u) /\ SameLinks(t, u) BY <1>2 DEF SamePlaces, SameLinks
<1>4. Laid(u) BY <1>3, LaidKept DEF Consistent
<1>5. UpOf(u) = UpOf(t) /\ EndsOf(u, w) = EndsOf(t, w) /\ FlagsOf(u) = FlagsOf(t)
  BY <1>2 DEF UpOf, EndsOf, FlagsOf
<1>6. TreeOK(u, w) BY <1>2, <1>5 DEF Consistent, TreeOK
<1>7. WriterOK(u, w) BY <1>5 DEF Consistent, WriterOK
<1>8. ReaderOK(u, w, r2) BY <1>2, <1>5 DEF ReaderOK
<1>9. WalkOK(u, w, wk) BY <1>2, <1>5 DEF Consistent, WalkOK
<1> QED BY <1>1, <1>4, <1>6, <1>7, <1>8, <1>9 DEF Consistent

LEMMA ReaderOpenStep == ASSUME TableInv, ReaderOpen PROVE TableInv' /\ Unseen
<1>1. PICK t, u, r : /\ t = table /\ u = [t EXCEPT !.readerCount = @ + 1]
                     /\ r = [open |-> TRUE, currentGroup |-> 0, currentSlot |-> 0,
                             currentParent |-> None, groupEnd |-> Count(t)] OBVIOUS
<1>2. writer = <<>> BY NoWriter DEF ReaderOpen
<1>3. Consistent(t, <<>>, reader, walk) BY <1>1, <1>2 DEF TableInv
<1>4. table' = u /\ reader' = r /\ writer' = <<>> /\ walk' = walk BY <1>1, <1>2, Names DEF ReaderOpen
<1>5. /\ Count(t) \in 0 .. GroupCapacity /\ GroupCapacity \in Nat /\ None \in Nat
      /\ Nested(Count(t), UpOf(t), EndsOf(t, <<>>))
  BY <1>3, TypedIs, TreeIs DEF Consistent
<1>6. r \in Readers
  <2>1. 0 \in 0 .. GroupCapacity /\ None \in 0 .. None BY <1>5
  <2> QED BY <1>1, <1>5, <2>1 DEF Readers
<1>7. r.open /\ r.currentGroup = 0 /\ r.groupEnd = Count(t) /\ r.currentParent = None BY <1>1
<1>8. ASSUME 0 < Count(t) PROVE UpOf(t)[0] = None
  <2>1. 0 \in 0 .. Count(t) - 1 BY <1>5, <1>8
  <2>2. UpOf(t)[0] \in Nat /\ (UpOf(t)[0] = None \/ UpOf(t)[0] < 0) BY <1>5, <2>1 DEF Nested
  <2> QED BY <2>2
<1>9. Reads(Count(t), UpOf(t), EndsOf(t, <<>>), r) BY <1>5, <1>7, <1>8 DEF Reads
<1>10. t \in Tables /\ t.readerCount = 0 /\ ~t.writerActive
  BY <1>1, <1>3 DEF Consistent, Typed, ReaderOK, ReaderOpen
<1>11. /\ u \in Tables /\ u.groups = t.groups /\ u.slots = t.slots /\ u.groupGapStart = t.groupGapStart
       /\ u.groupGapLen = t.groupGapLen /\ u.slotGapStart = t.slotGapStart
       /\ u.slotGapLen = t.slotGapLen /\ u.writerActive = t.writerActive /\ u.readerCount = 1
  BY <1>1, <1>10 DEF Tables
<1>12. Consistent(u, <<>>, r, walk) BY <1>3, <1>6, <1>7, <1>9, <1>10, <1>11, CountsChanged
<1>13. Unseen BY <1>1, <1>2, <1>4, <1>11, HeadChanged DEF Unseen
<1> QED BY <1>4, <1>12, <1>13 DEF TableInv

LEMMA ReaderCloseStep == ASSUME TableInv, ReaderClose PROVE TableInv' /\ Unseen
<1>1. PICK t, u : t = table /\ u = [t EXCEPT !.readerCount = @ - 1] OBVIOUS
<1>2. writer = <<>> /\ Consistent(t, <<>>, reader, walk) BY <1>1, ReaderIs DEF ReaderClose
<1>3. table' = u /\ reader' = ClosedReader /\ writer' = <<>> /\ walk' = walk BY <1>1, <1>2 DEF ReaderClose
<1>4. ClosedReader \in Readers /\ ~ClosedReader.open
  <2>1. GroupCapacity \in Nat BY GapTableAssumption
  <2> QED BY <2>1 DEF ClosedReader, Readers, None
<1>5. t \in Tables /\ t.readerCount = 1 BY <1>2 DEF Consistent, Typed, ReaderOK, ReaderClose
<1>6. /\ u \in Tables /\ u.groups = t.groups /\ u.slots = t.slots /\ u.groupGapStart = t.groupGapStart
      /\ u.groupGapLen = t.groupGapLen /\ u.slotGapStart = t.slotGapStart
      /\ u.slotGapLen = t.slotGapLen /\ u.writerActive = t.writerActive /\ u.readerCount = 0
  BY <1>1, <1>5 DEF Tables
<1>7. Consistent(u, <<>>, ClosedReader, walk) BY <1>2, <1>4, <1>6, CountsChanged
<1>8. Unseen BY <1>1, <1>2, <1>3, <1>6, HeadChanged DEF Unseen
<1> QED BY <1>3, <1>7, <1>8 DEF TableInv

LEMMA ReaderGroupStartStep == ASSUME TableInv, ReaderGroupStart PROVE TableInv'
<1> DEFINE n == Count(table)
           up == UpOf(table)
           end == EndsOf(table, <<>>)
<1>1. reader.open /\ reader.currentGroup < reader.groupEnd /\ UNCHANGED <<table, writer, walk>>
  BY DEF ReaderGroupStart
<1>2. /\ Consistent(table, <<>>, reader, walk) /\ reader \in Readers /\ Reads(n, up, end, reader)
      /\ \A i \in 0 .. n - 1 : EndOf(i) = end[i]
  BY <1>1, ReaderIs
<1>3. PICK i : i = reader.currentGroup OBVIOUS
<1>4. i \in 0 .. n - 1 BY <1>1, <1>2, <1>3, ReadsGroup
<1>5. PICK e : e = end[i] OBVIOUS
<1>6. /\ e \in i + 1 .. n /\ n \in Nat /\ n \in 0 .. GroupCapacity /\ None \in Nat /\ None > n
      /\ Nested(n, up, end) /\ GroupCapacity \in Nat /\ None = GroupCapacity + 1
  BY <1>2, <1>4, <1>5, TreeIs, GapTableAssumption DEF Sizes, None
<1>7. PICK r : r = [open |-> TRUE, currentParent |-> i, currentSlot |-> 0, currentGroup |-> i + 1, groupEnd |-> e] OBVIOUS
<1>8. reader' = r BY <1>2, <1>3, <1>4, <1>5, <1>7 DEF ReaderGroupStart
<1>9. r \in Readers
  <2>1. i \in 0 .. None /\ i + 1 \in 0 .. GroupCapacity /\ e \in 0 .. GroupCapacity BY <1>4, <1>6
  <2> QED BY <1>7, <2>1 DEF Readers
<1>10. ASSUME i + 1 < e PROVE up[i + 1] = i
  <2>1. i + 1 \in i + 1 .. e - 1 /\ i + 1 \in 0 .. n - 1 BY <1>4, <1>6, <1>10
  <2>2. i <= up[i + 1] /\ up[i + 1] < i + 1 /\ up[i + 1] \in Nat BY <1>4, <1>5, <1>6, <2>1 DEF Nested
  <2> QED BY <2>2, <1>4
<1>11. Reads(n, up, end, r)
  <2>1. i # None /\ i < i + 1 /\ i + 1 <= e BY <1>4, <1>6
  <2> HIDE DEF n, up, end
  <2> QED BY <1>4, <1>5, <1>7, <1>10, <2>1 DEF Reads
<1>12. r.open BY <1>7
<1> QED BY <1>1, <1>8, <1>9, <1>11, <1>12, ReaderMoves

LEMMA ReaderGroupEndStep == ASSUME TableInv, ReaderGroupEnd PROVE TableInv'
<1> DEFINE n == Count(table)
           up == UpOf(table)
           end == EndsOf(table, <<>>)
<1>1. /\ reader.open /\ reader.currentGroup = reader.groupEnd /\ reader.currentParent # None
      /\ UNCHANGED <<table, writer, walk>>
  BY DEF ReaderGroupEnd
<1>2. /\ Consistent(table, <<>>, reader, walk) /\ reader \in Readers /\ Reads(n, up, end, reader)
      /\ \A i \in 0 .. n - 1 : EndOf(i) = end[i] /\ GroupAt(i).parentIndex = up[i]
  BY <1>1, ReaderIs
<1>3. PICK i, c : i = reader.currentParent /\ c = reader.currentGroup OBVIOUS
<1>4. i \in 0 .. n - 1 /\ i < c /\ c = end[i] BY <1>1, <1>2, <1>3 DEF Reads
<1>5. /\ n \in Sizes /\ Nested(n, up, end) /\ n \in Nat /\ None \in Nat /\ None > n
      /\ \A j \in 0 .. n - 1 : /\ end[j] \in j + 1 .. n /\ up[j] \in Nat
                               /\ up[j] = None \/ (up[j] < j /\ j < end[up[j]])
  BY <1>2, TreeIs
<1>6. PICK p : p = up[i] OBVIOUS
<1>7. PICK e : e = IF p = None THEN n ELSE end[p] OBVIOUS
<1>8. PICK r : r = [reader EXCEPT !.currentParent = p, !.groupEnd = e] OBVIOUS
<1>9. p \in Nat /\ (p # None => p \in 0 .. n - 1 /\ p < i) BY <1>4, <1>5, <1>6
<1>10. reader' = r
  <2>1. GroupAt(reader.currentParent).parentIndex = p BY <1>2, <1>3, <1>4, <1>6
  <2>2. p # None => EndOf(p) = end[p] BY <1>2, <1>9
  <2> QED BY <1>7, <1>8, <2>1, <2>2, Names DEF ReaderGroupEnd
<1>11. e \in 0 .. n BY <1>5, <1>7, <1>9
<1>12. r \in Readers /\ r.open /\ r.currentGroup = c /\ r.currentParent = p /\ r.groupEnd = e
  <2>1. n \in 0 .. GroupCapacity /\ GroupCapacity \in Nat BY <1>5, GapTableAssumption DEF Sizes
  <2>2. p \in 0 .. None /\ e \in 0 .. GroupCapacity BY <1>5, <1>9, <1>11, <2>1
  <2> QED BY <1>1, <1>2, <1>3, <1>8, <2>2 DEF Readers
<1>13. /\ end[i] < n /\ up[i] = None => up[end[i]] = None
       /\ up[i] # None => end[i] <= end[up[i]] /\ (end[i] < end[up[i]] => up[end[i]] = up[i])
  <2> HIDE DEF n, up, end
  <2> QED BY <1>4, <1>5, NextSibling
<1>14. Reads(n, up, end, r)
  <2>1. c \in Nat /\ c <= n BY <1>4, <1>5
  <2>2. CASE p = None
    <3>1. e = n /\ c <= e /\ (c < n => up[c] = None) BY <1>4, <1>6, <1>7, <1>13, <2>1, <2>2
    <3> HIDE DEF n, up, end
    <3> QED BY <1>12, <2>2, <3>1 DEF Reads
  <2>3. CASE p # None
    <3>1. e = end[p] /\ c <= e /\ (c < e => up[c] = p) BY <1>4, <1>6, <1>7, <1>13, <2>1, <2>3
    <3>2. p \in 0 .. n - 1 /\ p < c BY <1>4, <1>5, <1>9, <2>1, <2>3
    <3> HIDE DEF n, up, end
    <3> QED BY <1>12, <2>3, <3>1, <3>2 DEF Reads
  <2> QED BY <2>2, <2>3
<1> QED BY <1>1, <1>10, <1>12, <1>14, ReaderMoves

LEMMA ReaderGroupSkipStep == ASSUME TableInv, ReaderGroupSkip PROVE TableInv'
<1> DEFINE n == Count(table)
           up == UpOf(table)
           end == EndsOf(table, <<>>)
<1>1. reader.open /\ reader.currentGroup < reader.groupEnd /\ UNCHANGED <<table, writer, walk>>
  BY DEF ReaderGroupSkip
<1>2. /\ Consistent(table, <<>>, reader, walk) /\ reader \in Readers /\ Reads(n, up, end, reader)
      /\ \A i \in 0 .. n - 1 : EndOf(i) = end[i]
  BY <1>1, ReaderIs
<1>3. PICK i, p, e : i = reader.currentGroup /\ p = reader.currentParent /\ e = reader.groupEnd OBVIOUS
<1>4. i \in 0 .. n - 1 /\ up[i] = p /\ e <= n BY <1>1, <1>2, <1>3, ReadsGroup
<1>5. /\ n \in Sizes /\ Nested(n, up, end) /\ n \in Nat /\ None \in Nat /\ None > n /\ end[i] \in i + 1 .. n
  BY <1>2, <1>4, TreeIs
<1>6. PICK c : c = end[i] OBVIOUS
<1>7. PICK r : r = [reader EXCEPT !.currentGroup = c] OBVIOUS
<1>8. reader' = r BY <1>2, <1>3, <1>4, <1>6, <1>7 DEF ReaderGroupSkip
<1>9. r \in Readers /\ r.open /\ r.currentGroup = c /\ r.currentParent = p /\ r.groupEnd = e
  <2>1. n \in 0 .. GroupCapacity /\ GroupCapacity \in Nat BY <1>5, GapTableAssumption DEF Sizes
  <2>2. c \in 0 .. GroupCapacity BY <1>4, <1>5, <1>6, <2>1
  <2> QED BY <1>1, <1>2, <1>3, <1>7, <2>2 DEF Readers
<1>10. /\ end[i] < n /\ up[i] = None => up[end[i]] = None
       /\ up[i] # None => end[i] <= end[up[i]] /\ (end[i] < end[up[i]] => up[end[i]] = up[i])
  <2> HIDE DEF n, up, end
  <2> QED BY <1>4, <1>5, NextSibling
<1>11. Reads(n, up, end, r)
  <2>1. c \in Nat /\ c <= n /\ i < c BY <1>4, <1>5, <1>6
  <2>2. CASE p = None
    <3>1. e = n BY <1>2, <1>3, <2>2 DEF Reads
    <3>2. c <= e /\ (c < n => up[c] = None) BY <1>4, <1>6, <1>10, <2>1, <2>2, <3>1
    <3> HIDE DEF n, up, end
    <3> QED BY <1>9, <2>2, <3>1, <3>2 DEF Reads
  <2>3. CASE p # None
    <3>1. e = end[p] /\ p \in 0 .. n - 1 /\ p < i BY <1>2, <1>3, <2>3 DEF Reads
    <3>2. c <= e /\ (c < e => up[c] = p) BY <1>4, <1>6, <1>10, <2>3, <3>1
    <3>3. p < c BY <1>4, <2>1, <3>1, <1>5
    <3> HIDE DEF n, up, end
    <3> QED BY <1>9, <2>3, <3>1, <3>2, <3>3 DEF Reads
  <2> QED BY <2>2, <2>3
<1> QED BY <1>1, <1>8, <1>9, <1>11, ReaderMoves

LEMMA SlotReadStep == ASSUME TableInv, SlotRead PROVE TableInv'
<1>1. reader.open /\ UNCHANGED <<table, writer, walk>> BY DEF SlotRead
<1>2. reader \in Readers /\ Reads(Count(table), UpOf(table), EndsOf(table, <<>>), reader) BY <1>1, ReaderIs
<1>3. PICK k \in Nat : k = reader.currentSlot BY <1>2 DEF Readers
<1>4. PICK r : r = [reader EXCEPT !.currentSlot = k + 1] OBVIOUS
<1>5. reader' = r BY <1>3, <1>4 DEF SlotRead
<1>6. /\ r \in Readers /\ r.open /\ r.currentGroup = reader.currentGroup
      /\ r.currentParent = reader.currentParent /\ r.groupEnd = reader.groupEnd
  <2>1. k + 1 \in Nat OBVIOUS
  <2> QED BY <1>1, <1>2, <1>4, <2>1 DEF Readers
<1>7. Reads(Count(table), UpOf(table), EndsOf(table, <<>>), r) BY <1>2, <1>6 DEF Reads
<1> QED BY <1>1, <1>5, <1>6, <1>7, ReaderMoves

-----------------------------------------------------------------------------
(* Invalidation and the walk.                                              *)

\* A step that changes flags and the walk alone.
LEMMA Flagged ==
  ASSUME TableInv, NEW u, table' = u, UNCHANGED <<writer, reader>>, NEW wk, walk' = wk,
         Typed(u), Count(u) = Count(table), NEW f,
         \A j \in 0 .. Count(table) - 1 : G(u, j) = [G(table, j) EXCEPT !.flags = f[j]],
         u.groupGapStart = table.groupGapStart, u.groupGapLen = table.groupGapLen,
         u.slotGapStart = table.slotGapStart, u.slotGapLen = table.slotGapLen,
         u.slots = table.slots, u.readerCount = table.readerCount, u.writerActive = table.writerActive,
         wk = None \/ (wk \in 0 .. Count(table) /\ ~table.writerActive),
         Marked(Count(table), EndsOf(table, writer), f, wk)
  PROVE  TableInv' /\ Unseen
<1>1. PICK t, w, r : t = table /\ w = writer /\ r = reader OBVIOUS
<1>2. Consistent(t, w, r, walk) BY <1>1 DEF TableInv
<1>3. ASSUME NEW j \in 0 .. Count(t) - 1
      PROVE  /\ G(u, j).parentIndex = G(t, j).parentIndex /\ G(u, j).groupSize = G(t, j).groupSize
             /\ G(u, j).slotIndex = G(t, j).slotIndex /\ G(u, j).slotCount = G(t, j).slotCount
             /\ G(u, j).key = G(t, j).key /\ G(u, j).nodeCount = G(t, j).nodeCount
             /\ G(u, j).flags = f[j]
  <2>1. G(t, j) \in Group /\ G(u, j) = [G(t, j) EXCEPT !.flags = f[j]] BY <1>1, <1>2, TreeIs
  <2> QED BY <2>1 DEF Group
<1>4. SamePlaces(t, u) /\ SameLinks(t, u) BY <1>1, <1>3 DEF SamePlaces, SameLinks
<1>5. Laid(u) BY <1>2, <1>4, LaidKept DEF Consistent
<1>6. TreeOK(u, w) /\ WriterOK(u, w) /\ ReaderOK(u, w, r) /\ EndsOf(u, w) = EndsOf(t, w)
  BY <1>1, <1>2, <1>4, ShapeKept DEF Consistent
<1>7. \A j \in 0 .. Count(t) - 1 : FlagsOf(u)[j] = f[j] BY <1>1, <1>3 DEF FlagsOf
<1>8. Marked(Count(t), EndsOf(t, w), FlagsOf(u), wk)
  <2>1. Count(t) \in Nat BY <1>2, TreeIs
  <2>2. ASSUME NEW i \in 0 .. Count(t) - 1, FlagsOf(u)[i] # {}
        PROVE  /\ wk # None => wk <= i
               /\ \A j \in 0 .. i - 1 : i < EndsOf(t, w)[j] =>
                    "contains" \in FlagsOf(u)[j] \/ (wk # None /\ j < wk)
    <3>1. f[i] # {} BY <1>7, <2>2
    <3>2. \A j \in 0 .. i - 1 : j \in 0 .. Count(t) - 1 BY <2>1
    <3>3. /\ wk # None => wk <= i
          /\ \A j \in 0 .. i - 1 : i < EndsOf(t, w)[j] => "contains" \in f[j] \/ (wk # None /\ j < wk)
      BY <1>1, <3>1 DEF Marked
    <3> QED BY <1>7, <3>2, <3>3
  <2> QED BY <2>2 DEF Marked
<1>9. WalkOK(u, w, wk) BY <1>1, <1>6, <1>8 DEF WalkOK
<1>10. Consistent(u, w, r, wk) BY <1>5, <1>6, <1>9 DEF Consistent
<1>11. SameButNodes(t, u) BY <1>1, <1>2, <1>3, <1>4, ShowKept DEF Consistent
<1>12. Unseen BY <1>1, <1>3, <1>11 DEF Unseen, SameShow
<1> QED BY <1>1, <1>10, <1>12 DEF TableInv

LEMMA WithFlagsIs ==
  ASSUME Typed(table), NEW f, \A j \in 0 .. Count(table) - 1 : f[j] \in SUBSET Flags,
         NEW u, u = WithFlags(f)
  PROVE  /\ Typed(u) /\ Count(u) = Count(table)
         /\ \A j \in 0 .. Count(table) - 1 : G(u, j) = [G(table, j) EXCEPT !.flags = f[j]]
         /\ u.groupGapStart = table.groupGapStart /\ u.groupGapLen = table.groupGapLen
         /\ u.slotGapStart = table.slotGapStart /\ u.slotGapLen = table.slotGapLen
         /\ u.slots = table.slots /\ u.readerCount = table.readerCount /\ u.writerActive = table.writerActive
<1>1. PICK t, gs, gl : t = table /\ gs = t.groupGapStart /\ gl = t.groupGapLen OBVIOUS
<1>2. /\ {gs, gl, GroupCapacity} \subseteq Nat /\ gs + gl <= GroupCapacity
      /\ Count(t) = GroupCapacity - gl /\ t \in Tables
      /\ t.groups \in [0 .. GroupCapacity - 1 -> Group]
  BY <1>1, TypedIs DEF Typed, Count
<1> DEFINE New(p) == IF p < gs THEN [t.groups[p] EXCEPT !.flags = f[p]]
                     ELSE IF p >= gs + gl THEN [t.groups[p] EXCEPT !.flags = f[p - gl]]
                     ELSE t.groups[p]
<1>3. PICK b : b = [p \in DOMAIN t.groups |-> New(p)] OBVIOUS
<1>4. u = [t EXCEPT !.groups = b] BY <1>1, <1>3 DEF WithFlags
<1>5. DOMAIN t.groups = 0 .. GroupCapacity - 1 BY <1>2
<1>6. ASSUME NEW g \in Group, NEW x \in SUBSET Flags PROVE [g EXCEPT !.flags = x] \in Group BY DEF Group
<1>7. ASSUME NEW p \in 0 .. GroupCapacity - 1 PROVE New(p) \in Group
  <2>1. t.groups[p] \in Group BY <1>2
  <2>2. CASE p < gs
    <3>1. p \in 0 .. Count(table) - 1 BY <1>1, <1>2, <2>2
    <3> QED BY <1>6, <2>1, <2>2, <3>1
  <2>3. CASE ~(p < gs) /\ p >= gs + gl
    <3>1. p - gl \in 0 .. Count(table) - 1 BY <1>1, <1>2, <2>3
    <3> QED BY <1>6, <2>1, <2>3, <3>1
  <2>4. CASE ~(p < gs) /\ ~(p >= gs + gl) BY <2>1, <2>4
  <2> QED BY <2>2, <2>3, <2>4
<1>8. \A p \in 0 .. GroupCapacity - 1 : b[p] = New(p) BY <1>3, <1>5
<1>9. b \in [0 .. GroupCapacity - 1 -> Group]
  <2> HIDE DEF New
  <2> QED BY <1>3, <1>5, <1>7
<1>10. /\ u \in Tables /\ u.groups = b /\ u.groupGapStart = gs /\ u.groupGapLen = gl
       /\ u.slotGapStart = t.slotGapStart /\ u.slotGapLen = t.slotGapLen
       /\ u.slots = t.slots /\ u.readerCount = t.readerCount /\ u.writerActive = t.writerActive
  BY <1>1, <1>2, <1>4, <1>9 DEF Tables
<1>11. Typed(u) BY <1>1, <1>10 DEF Typed
<1>12. Count(u) = Count(t) BY <1>1, <1>10 DEF Count
<1>13. ASSUME NEW j \in 0 .. Count(t) - 1 PROVE G(u, j) = [G(t, j) EXCEPT !.flags = f[j]]
  <2>1. CASE j < gs
    <3>1. j \in 0 .. GroupCapacity - 1 BY <1>2, <2>1
    <3>2. G(u, j) = b[j] /\ G(t, j) = t.groups[j] BY <1>1, <1>10, <2>1 DEF G, Seen
    <3> QED BY <1>8, <2>1, <3>1, <3>2
  <2>2. CASE ~(j < gs)
    <3>1. j + gl \in 0 .. GroupCapacity - 1 /\ ~(j + gl < gs) /\ j + gl >= gs + gl /\ j + gl - gl = j BY <1>2, <2>2
    <3>2. G(u, j) = b[j + gl] /\ G(t, j) = t.groups[j + gl] BY <1>1, <1>10, <2>2 DEF G, Seen
    <3>3. PICK p : p = j + gl OBVIOUS
    <3>4. New(p) = [t.groups[p] EXCEPT !.flags = f[p - gl]] BY <3>1, <3>3
    <3>5. b[p] = New(p) BY <1>8, <3>1, <3>3
    <3>6. p - gl = j BY <1>2, <3>3
    <3> HIDE DEF New
    <3>7. b[p] = [t.groups[p] EXCEPT !.flags = f[j]] BY <3>4, <3>5, <3>6
    <3> QED BY <3>2, <3>3, <3>7
  <2> QED BY <2>1, <2>2
<1> QED BY <1>1, <1>10, <1>11, <1>12, <1>13

\* The groups above a group, while no writer is active.
LEMMA AncestorsAre ==
  ASSUME TableInv
  PROVE  Ancestors = [j \in 0 .. Count(table) - 1 |->
                        {i \in 0 .. Count(table) - 1 : i < j /\ j < EndsOf(table, writer)[i]}]
<1>1. /\ Count(table) \in Sizes /\ Nested(Count(table), UpOf(table), EndsOf(table, writer))
      /\ DOMAIN UpOf(table) = 0 .. Count(table) - 1
  BY TreeIs DEF TableInv
<1>2. Ancestors = Above(UpOf(table)) BY Names DEF Ancestors, UpOf
<1> QED BY <1>1, <1>2, AboveIs

LEMMA GroupInvalidateStep ==
  ASSUME TableInv, NEW i \in 0 .. GroupCapacity - 1, GroupInvalidate(i)
  PROVE  TableInv' /\ Unseen
<1>1. PICK t, n, end, flags :
        t = table /\ n = Count(t) /\ end = EndsOf(t, writer) /\ flags = FlagsOf(t) OBVIOUS
<1>2. Consistent(t, writer, reader, walk) /\ walk = None /\ ~t.writerActive
  BY <1>1 DEF TableInv, GroupInvalidate
<1>3. /\ n \in Nat /\ Nested(n, UpOf(t), end)
      /\ \A j \in 0 .. n - 1 : /\ flags[j] = GroupAt(j).flags /\ end[j] \in j + 1 .. n
                               /\ flags[j] \in SUBSET Flags
  BY <1>1, <1>2, TreeIs, Names, GroupFields
<1>4. i \in 0 .. n - 1 BY <1>1, <1>3, Names DEF GroupInvalidate
<1>5. PICK climbed : climbed = Climbed(i) OBVIOUS
<1>6. Ancestors[i] = {j \in 0 .. n - 1 : j < i /\ i < end[j]}
  <2>1. Ancestors = [j \in 0 .. n - 1 |-> {k \in 0 .. n - 1 : k < j /\ j < end[k]}] BY <1>1, AncestorsAre
  <2> QED BY <1>4, <2>1
<1>7. climbed \subseteq Ancestors[i]
      /\ \A j \in Ancestors[i] : j \notin climbed => \E k \in Ancestors[i] : k >= j /\ "contains" \in flags[k]
  <2>1. climbed = {j \in Ancestors[i] : \A k \in Ancestors[i] : k >= j => "contains" \notin GroupAt(k).flags}
    BY <1>5 DEF Climbed
  <2>2. \A k \in Ancestors[i] : flags[k] = GroupAt(k).flags BY <1>3, <1>6
  <2> QED BY <2>1, <2>2
<1>8. PICK f : f = [j \in 0 .. n - 1 |-> GroupAt(j).flags
                      \union (IF j = i THEN {"invalidated"} ELSE {})
                      \union (IF j \in climbed THEN {"contains"} ELSE {})] OBVIOUS
<1>9. table' = WithFlags(f) /\ UNCHANGED <<writer, reader, walk>>
  BY <1>1, <1>5, <1>8, Names DEF GroupInvalidate
<1>10. \A j \in 0 .. n - 1 : f[j] = flags[j] \union (IF j = i THEN {"invalidated"} ELSE {})
                                    \union (IF j \in climbed THEN {"contains"} ELSE {})
  BY <1>3, <1>8
<1>11. \A j \in 0 .. n - 1 : f[j] \in SUBSET Flags
  <2> TAKE j \in 0 .. n - 1
  <2>1. flags[j] \in SUBSET Flags BY <1>3
  <2>2. {"invalidated"} \in SUBSET Flags /\ {"contains"} \in SUBSET Flags BY DEF Flags
  <2> QED BY <1>10, <2>1, <2>2
<1>12. ASSUME NEW k \in 0 .. n - 1, NEW j \in 0 .. k - 1, k < end[j], flags[k] # {}
       PROVE  "contains" \in flags[j]
  <2>1. Marked(n, end, flags, None) BY <1>1, <1>2 DEF Consistent, WalkOK
  <2> QED BY <1>12, <2>1 DEF Marked
<1>13. ASSUME NEW j \in Ancestors[i] PROVE "contains" \in f[j]
  <2>1. j \in 0 .. n - 1 /\ j < i /\ i < end[j] BY <1>6
  <2>2. CASE j \in climbed BY <2>1, <2>2, <1>10
  <2>3. CASE j \notin climbed
    <3>1. PICK k \in Ancestors[i] : k >= j /\ "contains" \in flags[k] BY <1>7, <2>3
    <3>2. k \in 0 .. n - 1 /\ k < i BY <1>6
    <3>3. CASE k = j BY <3>1, <3>3, <2>1, <1>10
    <3>4. CASE k # j
      <4>1. j \in 0 .. k - 1 /\ k < end[j] BY <2>1, <3>1, <3>2, <3>4, <1>3, <1>4
      <4>2. "contains" \in flags[j] BY <3>1, <3>2, <4>1, <1>12
      <4> QED BY <4>2, <2>1, <1>10
    <3> QED BY <3>3, <3>4
  <2> QED BY <2>2, <2>3
<1>14. Marked(n, end, f, None)
  <2>1. ASSUME NEW k \in 0 .. n - 1, f[k] # {}, NEW j \in 0 .. k - 1, k < end[j]
        PROVE  "contains" \in f[j]
    <3>0. j \in 0 .. n - 1 BY <1>3
    <3>1. CASE flags[k] # {} BY <2>1, <3>0, <3>1, <1>10, <1>12
    <3>2. CASE k = i
      <4>1. j \in Ancestors[i] BY <2>1, <3>0, <3>2, <1>6
      <4> QED BY <4>1, <1>13
    <3>3. CASE flags[k] = {} /\ k # i
      <4>1. k \in climbed BY <2>1, <3>3, <1>10
      <4>2. k < i /\ i < end[k] BY <4>1, <1>6, <1>7
      <4>3. end[k] \in Nat /\ end[j] \in Nat BY <3>0, <1>3
      <4>4. k \in j + 1 .. end[j] - 1 BY <2>1, <4>3, <1>3
      <4>5. end[k] <= end[j] BY <3>0, <4>4, <1>3 DEF Nested
      <4>6. j < i /\ i < end[j] BY <4>2, <4>3, <4>5, <1>3, <1>4, <3>0
      <4>7. j \in Ancestors[i] BY <3>0, <4>6, <1>6
      <4> QED BY <4>7, <1>13
    <3> QED BY <3>1, <3>2, <3>3
  <2> QED BY <2>1 DEF Marked
<1>15. PICK u : u = WithFlags(f) OBVIOUS
<1>16. /\ Typed(u) /\ Count(u) = Count(table)
       /\ \A j \in 0 .. Count(table) - 1 : G(u, j) = [G(table, j) EXCEPT !.flags = f[j]]
       /\ u.groupGapStart = table.groupGapStart /\ u.groupGapLen = table.groupGapLen
       /\ u.slotGapStart = table.slotGapStart /\ u.slotGapLen = table.slotGapLen
       /\ u.slots = table.slots /\ u.readerCount = table.readerCount /\ u.writerActive = table.writerActive
  BY <1>1, <1>2, <1>11, <1>15, WithFlagsIs DEF Consistent
<1>17. Marked(Count(table), EndsOf(table, writer), f, None) BY <1>1, <1>14
<1>18. table' = u /\ walk' = None /\ UNCHANGED <<writer, reader>> BY <1>2, <1>9, <1>15
<1> QED BY <1>16, <1>17, <1>18, Flagged

LEMMA ClearAllFlagsStep == ASSUME TableInv, ClearAllFlags PROVE TableInv' /\ Unseen
<1>1. PICK f : f = [j \in 0 .. Count(table) - 1 |-> {}] OBVIOUS
<1>2. PICK u : u = WithFlags(f) OBVIOUS
<1>3. table' = u /\ walk' = None /\ UNCHANGED <<writer, reader>> BY <1>1, <1>2, Names DEF ClearAllFlags
<1>4. \A j \in 0 .. Count(table) - 1 : f[j] = {} /\ f[j] \in SUBSET Flags BY <1>1
<1>5. Typed(table) BY DEF TableInv, Consistent
<1>6. /\ Typed(u) /\ Count(u) = Count(table)
      /\ \A j \in 0 .. Count(table) - 1 : G(u, j) = [G(table, j) EXCEPT !.flags = f[j]]
      /\ u.groupGapStart = table.groupGapStart /\ u.groupGapLen = table.groupGapLen
      /\ u.slotGapStart = table.slotGapStart /\ u.slotGapLen = table.slotGapLen
      /\ u.slots = table.slots /\ u.readerCount = table.readerCount /\ u.writerActive = table.writerActive
  BY <1>2, <1>4, <1>5, WithFlagsIs
<1>7. Marked(Count(table), EndsOf(table, writer), f, None) BY <1>4 DEF Marked
<1> QED BY <1>3, <1>6, <1>7, Flagged

\* A step of the walk that changes no flag.
LEMMA Walks ==
  ASSUME TableInv, UNCHANGED <<table, writer, reader>>, NEW wk, walk' = wk,
         wk = None \/ (wk \in 0 .. Count(table) /\ ~table.writerActive),
         Marked(Count(table), EndsOf(table, writer), FlagsOf(table), wk)
  PROVE  TableInv'
<1>1. WalkOK(table, writer, wk) BY DEF WalkOK
<1>2. Consistent(table, writer, reader, wk) BY <1>1 DEF TableInv, Consistent
<1> QED BY <1>2 DEF TableInv

\* Where a walk is.
LEMMA WalkIs ==
  ASSUME TableInv
  PROVE  /\ Marked(Count(table), EndsOf(table, writer), FlagsOf(table), walk)
         /\ walk = None \/ (walk \in 0 .. Count(table) /\ ~table.writerActive)
         /\ Count(table) \in Nat /\ None \in Nat /\ None > Count(table)
         /\ walk \in Nat /\ (walk < Count(table) => walk \in 0 .. Count(table) - 1 /\ walk # None)
<1>1. /\ Marked(Count(table), EndsOf(table, writer), FlagsOf(table), walk)
      /\ walk = None \/ (walk \in 0 .. Count(table) /\ ~table.writerActive)
  BY DEF TableInv, Consistent, WalkOK
<1>2. Count(table) \in Nat /\ None \in Nat /\ None > Count(table) BY TreeIs DEF TableInv
<1> QED BY <1>1, <1>2

LEMMA WalkBeginStep == ASSUME TableInv, WalkBegin PROVE TableInv'
<1>1. /\ walk = None /\ Marked(Count(table), EndsOf(table, writer), FlagsOf(table), None)
      /\ Count(table) \in Nat /\ None \in Nat
  BY WalkIs DEF WalkBegin
<1>2. Marked(Count(table), EndsOf(table, writer), FlagsOf(table), 0) BY <1>1 DEF Marked
<1>3. 0 \in 0 .. Count(table) /\ ~table.writerActive BY <1>1 DEF WalkBegin
<1>4. UNCHANGED <<table, writer, reader>> /\ walk' = 0 BY DEF WalkBegin
<1> QED BY <1>2, <1>3, <1>4, Walks

LEMMA WalkEnterStep == ASSUME TableInv, WalkEnter PROVE TableInv' /\ Unseen
<1>1. PICK t, k, n, end, flags :
        t = table /\ k = walk /\ n = Count(t) /\ end = EndsOf(t, writer) /\ flags = FlagsOf(t) OBVIOUS
<1>2. /\ Marked(n, end, flags, k) /\ k \in 0 .. n - 1 /\ k # None /\ ~t.writerActive
      /\ n \in Nat /\ None \in Nat /\ None > n
  BY <1>1, WalkIs, Names DEF WalkEnter
<1>3. Consistent(t, writer, reader, walk) BY <1>1 DEF TableInv
<1>4. PICK g : g = [G(t, k) EXCEPT !.flags = {}] OBVIOUS
<1>5. PICK f : f = [j \in 0 .. n - 1 |-> IF j = k THEN {} ELSE flags[j]] OBVIOUS
<1>6. PICK u : u = WithGroup(k, g) OBVIOUS
<1>7. table' = u /\ walk' = k + 1 /\ UNCHANGED <<writer, reader>> BY <1>1, <1>4, <1>6, Names DEF WalkEnter
<1>8. g \in Group
  <2>1. G(t, k) \in Group BY <1>1, <1>2, <1>3, TreeIs
  <2> QED BY <1>4, <2>1 DEF Group
<1>9. /\ Typed(u) /\ Count(u) = Count(table)
      /\ \A j \in 0 .. Count(table) - 1 : G(u, j) = IF j = k THEN g ELSE G(table, j)
      /\ u.groupGapStart = table.groupGapStart /\ u.groupGapLen = table.groupGapLen
      /\ u.slotGapStart = table.slotGapStart /\ u.slotGapLen = table.slotGapLen
      /\ u.slots = table.slots /\ u.readerCount = table.readerCount /\ u.writerActive = table.writerActive
  BY <1>1, <1>2, <1>3, <1>6, <1>8, WithGroupIs DEF Consistent
<1>10. ASSUME NEW j \in 0 .. n - 1 PROVE G(u, j) = [G(t, j) EXCEPT !.flags = f[j]]
  <2>1. CASE j = k BY <2>1, <1>1, <1>4, <1>5, <1>9
  <2>2. CASE j # k
    <3>1. G(u, j) = G(t, j) /\ f[j] = flags[j] BY <2>2, <1>1, <1>5, <1>9
    <3>2. flags[j] = G(t, j).flags /\ G(t, j) \in Group BY <1>1, <1>3, TreeIs
    <3>3. [G(t, j) EXCEPT !.flags = G(t, j).flags] = G(t, j) BY <3>2 DEF Group
    <3> QED BY <3>1, <3>2, <3>3
  <2> QED BY <2>1, <2>2
<1>11. Marked(n, end, f, k + 1)
  <2>1. k + 1 # None BY <1>2
  <2>2. ASSUME NEW i \in 0 .. n - 1, f[i] # {}
        PROVE  /\ k + 1 <= i
               /\ \A j \in 0 .. i - 1 : i < end[j] => "contains" \in f[j] \/ j < k + 1
    <3>1. i # k /\ flags[i] # {} BY <2>2, <1>5
    <3>2. k <= i /\ \A j \in 0 .. i - 1 : i < end[j] => "contains" \in flags[j] \/ j < k
      BY <3>1, <1>2 DEF Marked
    <3>3. k + 1 <= i BY <3>1, <3>2, <1>2
    <3>4. ASSUME NEW j \in 0 .. i - 1, i < end[j] PROVE "contains" \in f[j] \/ j < k + 1
      <4>1. CASE j <= k BY <4>1, <1>2
      <4>2. CASE ~(j <= k)
        <5>1. j \in 0 .. n - 1 /\ j # k /\ ~(j < k) BY <4>2, <1>2
        <5>2. f[j] = flags[j] BY <5>1, <1>5
        <5> QED BY <3>2, <3>4, <5>1, <5>2
      <4> QED BY <4>1, <4>2
    <3> QED BY <3>3, <3>4
  <2> QED BY <2>1, <2>2 DEF Marked
<1>12. k + 1 \in 0 .. n BY <1>2
<1>13. Marked(Count(table), EndsOf(table, writer), f, k + 1) BY <1>1, <1>11
<1>14. k + 1 \in 0 .. Count(table) /\ ~table.writerActive BY <1>1, <1>2, <1>12
<1>15. \A j \in 0 .. Count(table) - 1 : G(u, j) = [G(table, j) EXCEPT !.flags = f[j]] BY <1>1, <1>10
<1> QED BY <1>7, <1>9, <1>13, <1>14, <1>15, Flagged

LEMMA WalkSkipStep == ASSUME TableInv, WalkSkip PROVE TableInv'
<1>1. PICK t, k, n, end, flags :
        t = table /\ k = walk /\ n = Count(t) /\ end = EndsOf(t, writer) /\ flags = FlagsOf(t) OBVIOUS
<1>2. /\ Marked(n, end, flags, k) /\ k \in 0 .. n - 1 /\ k # None /\ ~t.writerActive
      /\ n \in Nat /\ None \in Nat /\ None > n
  BY <1>1, WalkIs, Names DEF WalkSkip
<1>3. writer = <<>> /\ Consistent(t, writer, reader, walk) BY <1>1, <1>2, NoWriter DEF TableInv
<1>4. PICK e : e = end[k] OBVIOUS
<1>5. e \in k + 1 .. n /\ end[k] = k + 1 + G(t, k).groupSize /\ flags[k] = G(t, k).flags
  BY <1>1, <1>2, <1>3, <1>4, TreeIs, NoneOpen
<1>6. flags[k] = {} /\ walk' = e /\ UNCHANGED <<table, writer, reader>>
  BY <1>1, <1>4, <1>5, Names DEF WalkSkip, EndOf
<1>7. Marked(n, end, flags, e)
  <2>1. e # None BY <1>2, <1>5
  <2>2. ASSUME NEW i \in 0 .. n - 1, flags[i] # {}
        PROVE  e <= i /\ \A j \in 0 .. i - 1 : i < end[j] => "contains" \in flags[j] \/ j < e
    <3>1. k <= i /\ \A j \in 0 .. i - 1 : i < end[j] => "contains" \in flags[j] \/ j < k
      BY <2>2, <1>2 DEF Marked
    <3>2. i # k BY <2>2, <1>6
    <3>3. ASSUME i < e PROVE FALSE
      <4>1. k \in 0 .. i - 1 BY <3>1, <3>2, <1>2
      <4>2. "contains" \in flags[k] \/ k < k BY <3>1, <3>3, <4>1, <1>4
      <4> QED BY <4>2, <1>2, <1>6
    <3>4. e <= i BY <3>3, <1>5
    <3>5. \A j \in 0 .. i - 1 : j < k => j < e BY <1>2, <1>5
    <3> QED BY <3>1, <3>4, <3>5
  <2> QED BY <2>1, <2>2 DEF Marked
<1>8. e \in 0 .. n BY <1>2, <1>5
<1> QED BY <1>1, <1>2, <1>6, <1>7, <1>8, Walks

LEMMA WalkEndStep == ASSUME TableInv, WalkEnd PROVE TableInv'
<1>1. /\ Marked(Count(table), EndsOf(table, writer), FlagsOf(table), walk) /\ walk = Count(table)
      /\ Count(table) \in Nat /\ None > Count(table)
  BY WalkIs, Names DEF WalkEnd
<1>2. \A i \in 0 .. Count(table) - 1 : FlagsOf(table)[i] = {}
  <2> SUFFICES ASSUME NEW i \in 0 .. Count(table) - 1, FlagsOf(table)[i] # {} PROVE FALSE
    OBVIOUS
  <2>1. walk # None /\ ~(walk <= i) BY <1>1
  <2> QED BY <1>1, <2>1 DEF Marked
<1>3. Marked(Count(table), EndsOf(table, writer), FlagsOf(table), None) BY <1>2 DEF Marked
<1>4. UNCHANGED <<table, writer, reader>> /\ walk' = None BY DEF WalkEnd
<1> QED BY <1>3, <1>4, Walks

-----------------------------------------------------------------------------
(* The invariant holds, and what follows from it.                          *)

LEMMA StepKeepsTable == ASSUME TableInv, [CarefulNext]_tableVars PROVE TableInv'
<1>1. CASE Reset BY <1>1, ResetStep
<1>2. CASE Writing
  <2>1. CASE WriterOpen BY <2>1, WriterOpenStep
  <2>2. CASE WriterClose BY <2>2, WriterCloseStep
  <2>5. CASE \E key \in Keys : GroupStart(key) BY <2>5, GroupStartStep
  <2>6. CASE GroupEnd BY <2>6, GroupEndStep
  <2>7. CASE NodeEmit BY <2>7, NodeEmitStep
  <2>8. CASE \E value \in Values : SlotWrite(value) BY <2>8, SlotWriteStep
  <2>9. CASE \E value \in Values : \E i \in 0 .. SlotCapacity - 1 : SlotSet(i, value) BY <2>9, SlotSetStep
  <2> QED BY <1>2, <2>1, <2>2, <2>5, <2>6, <2>7, <2>8, <2>9 DEF Writing
<1>6. CASE CarefulGapMove BY <1>6, CarefulGapMoveStep
<1>3. CASE Reading
  <2>1. CASE ReaderOpen BY <2>1, ReaderOpenStep
  <2>2. CASE ReaderClose BY <2>2, ReaderCloseStep
  <2>3. CASE ReaderGroupStart BY <2>3, ReaderGroupStartStep
  <2>4. CASE ReaderGroupEnd BY <2>4, ReaderGroupEndStep
  <2>5. CASE ReaderGroupSkip BY <2>5, ReaderGroupSkipStep
  <2>6. CASE SlotRead BY <2>6, SlotReadStep
  <2> QED BY <1>3, <2>1, <2>2, <2>3, <2>4, <2>5, <2>6 DEF Reading
<1>4. CASE Invalidating
  <2>1. CASE \E i \in 0 .. GroupCapacity - 1 : GroupInvalidate(i) BY <2>1, GroupInvalidateStep
  <2>2. CASE ClearAllFlags BY <2>2, ClearAllFlagsStep
  <2>3. CASE WalkBegin BY <2>3, WalkBeginStep
  <2>4. CASE WalkEnter BY <2>4, WalkEnterStep
  <2>5. CASE WalkSkip BY <2>5, WalkSkipStep
  <2>6. CASE WalkEnd BY <2>6, WalkEndStep
  <2> QED BY <1>4, <2>1, <2>2, <2>3, <2>4, <2>5, <2>6 DEF Invalidating
<1>5. CASE UNCHANGED tableVars BY <1>5 DEF TableInv, tableVars
<1> QED BY <1>1, <1>2, <1>3, <1>4, <1>5, <1>6 DEF CarefulNext

\* The words of the groups follow one another with both gaps at the same
\* group, links and sizes nest, the open groups are a path, a reader is
\* between two children of its parent, and every group above a marked one is
\* marked: after any sequence of the operations of slot_table.c whose gap moves
\* fit.
THEOREM TableInvariant == CarefulSpec => []TableInv
<1>1. TableInit => TableInv BY InitOK
<1>2. TableInv /\ [CarefulNext]_tableVars => TableInv' BY StepKeepsTable
<1> QED BY <1>1, <1>2, PTL DEF CarefulSpec

LEMMA TableTypes == ASSUME TableInv PROVE TableTypeOK
<1>1. Typed(table) /\ table \in Tables BY DEF TableInv, Consistent, Typed
<1>2. /\ table.groups \in [0 .. GroupCapacity - 1 -> Group]
      /\ table.slots \in [0 .. SlotCapacity - 1 -> Values \union {0}]
      /\ table.groupGapStart \in 0 .. GroupCapacity
      /\ table.slotGapStart \in 0 .. SlotCapacity
      /\ table.readerCount \in 0 .. 1 /\ table.writerActive \in BOOLEAN
  BY <1>1 DEF Tables
<1>3. table.groupGapLen \in 0 .. GroupCapacity - table.groupGapStart
      /\ table.slotGapLen \in 0 .. SlotCapacity - table.slotGapStart
  <2>1. /\ {table.groupGapStart, table.groupGapLen, table.slotGapStart, table.slotGapLen} \subseteq Nat
        /\ GroupCapacity \in Nat /\ SlotCapacity \in Nat BY <1>1, TypedIs
  <2>2. table.groupGapStart + table.groupGapLen <= GroupCapacity
        /\ table.slotGapStart + table.slotGapLen <= SlotCapacity BY <1>1 DEF Typed
  <2> QED BY <2>1, <2>2
<1>4. writer \in Seq(0 .. GroupCapacity - 1) /\ Len(writer) <= MaxDepth BY DEF TableInv, Consistent, WriterOK
<1>5. reader \in [open : BOOLEAN, currentGroup : 0 .. GroupCapacity, currentSlot : Nat,
                  currentParent : 0 .. None, groupEnd : 0 .. GroupCapacity]
  BY DEF TableInv, Consistent, ReaderOK, Readers
<1>6. walk \in 0 .. None
  <2>1. None \in Nat BY WalkIs
  <2> QED BY <2>1, WalkIs
<1> QED BY <1>2, <1>3, <1>4, <1>5, <1>6 DEF TableTypeOK

\* The gaps stay within their arrays and the stack within its depth, whatever
\* is inserted, as long as gap moves fit.
THEOREM TableTyped == CarefulSpec => []TableTypeOK
BY TableInvariant, TableTypes, PTL

LEMMA Nesting == ASSUME TableInv PROVE ReaderNested
<1> DEFINE n == Count(table)
           end == EndsOf(table, writer)
<1>1. Ancestors = [j \in 0 .. n - 1 |-> {i \in 0 .. n - 1 : i < j /\ j < end[i]}] BY AncestorsAre
<1>2. AllGroups = 0 .. n - 1 BY Names DEF AllGroups
<1>3. /\ n \in Nat /\ \A i \in 0 .. n - 1 :
           /\ end[i] \in i + 1 .. n /\ G(table, i) \in Group
           /\ end[i] = IF i \in OpenIn(writer) THEN table.groupGapStart ELSE i + 1 + G(table, i).groupSize
  BY TreeIs DEF TableInv
<1>4. ASSUME NEW i \in 0 .. n - 1 PROVE {j \in 0 .. n - 1 : i \in Ancestors[j]} = i + 1 .. end[i] - 1
  <2>1. ASSUME NEW j \in 0 .. n - 1 PROVE i \in Ancestors[j] <=> i < j /\ j < end[i] BY <1>1
  <2>2. end[i] \in i + 1 .. n BY <1>3
  <2>3. \A j \in i + 1 .. end[i] - 1 : j \in 0 .. n - 1 BY <1>3, <2>2
  <2>4. \A j \in 0 .. n - 1 : (i < j /\ j < end[i]) <=> j \in i + 1 .. end[i] - 1 BY <1>3, <2>2
  <2> HIDE DEF end, n
  <2> QED BY <2>1, <2>3, <2>4
<1>5. LinksMatchSizes
  <2>1. ASSUME NEW i \in 0 .. n - 1, Closed(i)
        PROVE  {j \in 0 .. n - 1 : i \in Ancestors[j]} = i + 1 .. i + GroupAt(i).groupSize
    <3>1. i \notin OpenIn(writer) BY <2>1 DEF Closed, OpenIn
    <3>2. end[i] = i + 1 + G(table, i).groupSize /\ G(table, i).groupSize \in Nat BY <1>3, <3>1, GroupFields
    <3>3. end[i] - 1 = i + GroupAt(i).groupSize BY <3>2, Names
    <3> QED BY <1>4, <3>3
  <2> QED BY <1>2, <2>1 DEF LinksMatchSizes
<1>6. ASSUME reader.open
      PROVE  /\ reader.currentGroup <= reader.groupEnd
             /\ IF reader.currentParent = None
                THEN reader.groupEnd = GroupCount /\ Root(reader.currentGroup)
                ELSE /\ reader.currentGroup > reader.currentParent
                     /\ Below(reader.currentParent) =
                          reader.currentParent + 1 .. reader.groupEnd - 1
                     /\ reader.currentGroup < reader.groupEnd =>
                          GroupAt(reader.currentGroup).parentIndex = reader.currentParent
  <2>1. writer = <<>> /\ Reads(n, UpOf(table), end, reader) /\ reader \in Readers
        /\ Consistent(table, <<>>, reader, walk) BY <1>6, ReaderIs
  <2>2. PICK c, p, e : c = reader.currentGroup /\ p = reader.currentParent /\ e = reader.groupEnd OBVIOUS
  <2>3. c \in Nat /\ p \in Nat /\ e \in Nat BY <2>1, <2>2, GapTableAssumption DEF Readers, None
  <2>4. ASSUME c < e PROVE c \in 0 .. n - 1 /\ GroupAt(c).parentIndex = p
    <3>1. c \in 0 .. n - 1 /\ UpOf(table)[c] = p BY <2>1, <2>2, <2>4, ReadsGroup
    <3> QED BY <1>6, <3>1, ReaderIs
  <2>5. c <= e BY <2>1, <2>2 DEF Reads
  <2>6. CASE p = None
    <3>1. e = n BY <2>1, <2>2, <2>6 DEF Reads
    <3>2. Root(c) BY <2>4, <2>6, <3>1, Names DEF Root
    <3> QED BY <2>2, <2>5, <2>6, <3>1, <3>2, Names
  <2>7. CASE p # None
    <3>1. p \in 0 .. n - 1 /\ p < c /\ e = end[p] BY <2>1, <2>2, <2>7 DEF Reads
    <3>2. Below(p) = p + 1 .. e - 1 BY <1>2, <1>4, <3>1 DEF Below
    <3>3. c > p BY <2>3, <3>1
    <3> QED BY <2>2, <2>4, <2>5, <2>7, <3>2, <3>3
  <2> QED BY <2>6, <2>7
<1> QED BY <1>5, <1>6 DEF ReaderNested

\* Links and sizes tell the same tree after any gap moves that fit, and a
\* reader leaves and skips within it.
THEOREM ReadersNested == CarefulSpec => []ReaderNested
BY TableInvariant, Nesting, PTL

LEMMA Reached == ASSUME TableInv PROVE NoneSkipped
<1> DEFINE n == Count(table)
           end == EndsOf(table, writer)
<1>1. Ancestors = [j \in 0 .. n - 1 |-> {i \in 0 .. n - 1 : i < j /\ j < end[i]}] BY AncestorsAre
<1>2. AllGroups = 0 .. n - 1 BY Names DEF AllGroups
<1>3. /\ Marked(n, end, FlagsOf(table), walk) /\ walk \in Nat /\ n \in Nat BY WalkIs
<1>4. ASSUME NEW i \in 0 .. n - 1 PROVE FlagsOf(table)[i] = GroupAt(i).flags BY Names DEF FlagsOf
<1>5. ASSUME NEW i \in 0 .. n - 1, "invalidated" \in GroupAt(i).flags
      PROVE  /\ walk # None => i >= walk
             /\ \A j \in Ancestors[i] : "contains" \in GroupAt(j).flags \/ (walk # None /\ j < walk)
  <2>1. FlagsOf(table)[i] # {} BY <1>4, <1>5
  <2>2. /\ walk # None => walk <= i
        /\ \A j \in 0 .. i - 1 : i < end[j] => "contains" \in FlagsOf(table)[j] \/ (walk # None /\ j < walk)
    BY <1>3, <2>1 DEF Marked
  <2>3. ASSUME NEW j \in Ancestors[i] PROVE "contains" \in GroupAt(j).flags \/ (walk # None /\ j < walk)
    <3>1. j \in 0 .. n - 1 /\ j < i /\ i < end[j] BY <1>1
    <3>2. j \in 0 .. i - 1 BY <3>1
    <3> QED BY <1>4, <2>2, <3>1, <3>2
  <2>4. walk # None => i >= walk BY <2>2, <1>3
  <2> QED BY <2>3, <2>4
<1> QED BY <1>2, <1>5 DEF NoneSkipped

\* A walk jumps over no invalidated group, on a table whose gap moves fit.
THEOREM NoneJumpedOver == CarefulSpec => []NoneSkipped
BY TableInvariant, Reached, PTL

-----------------------------------------------------------------------------
(* How deep groups are.                                                    *)

\* Level L of each group is one more than its parent's.
Levels(n, up, L) ==
  \A j \in 0 .. n - 1 : L[j] \in Nat /\ L[j] = IF up[j] = None THEN 0 ELSE L[up[j]] + 1

Level(up) == [j \in DOMAIN up |-> Cardinality(Above(up)[j])]

\* A group is one deeper than its parent.
LEMMA LevelIs ==
  ASSUME NEW n \in Sizes, NEW up, NEW end, Nested(n, up, end), DOMAIN up = 0 .. n - 1
  PROVE  Levels(n, up, Level(up))
<1> DEFINE D == 0 .. n - 1
           A == Above(up)
<1>0. n \in Nat /\ None \in Nat /\ None > n BY GapTableAssumption DEF Sizes, None
<1>1. A = [j \in D |-> {i \in D : i < j /\ j < end[i]}] BY AboveIs
<1>2. \A j \in D : A[j] = {i \in D : i < j /\ j < end[i]} BY <1>1
<1>3. Level(up) = [j \in D |-> Cardinality(A[j])] BY DEF Level
<1> HIDE DEF A
<1>4. \A i \in D : end[i] \in i + 1 .. n /\ up[i] \in Nat /\ (up[i] = None \/ (up[i] < i /\ i < end[up[i]]))
  BY DEF Nested
<1>5. ASSUME NEW j \in D PROVE IsFiniteSet(A[j]) /\ Cardinality(A[j]) \in Nat
  <2>1. IsFiniteSet(D) BY <1>0, FS_Interval
  <2>2. A[j] \subseteq D BY <1>2
  <2>3. IsFiniteSet(A[j]) BY <2>1, <2>2, FS_Subset
  <2> QED BY <2>3, FS_CardinalityType
<1>6. ASSUME NEW j \in D, up[j] = None PROVE Cardinality(A[j]) = 0
  <2>1. ASSUME NEW i \in A[j] PROVE FALSE
    <3>1. i \in D /\ i < j /\ j < end[i] BY <1>2
    <3>2. j \in i + 1 .. end[i] - 1 BY <3>1, <1>4, <1>0
    <3>3. up[j] < j BY <3>1, <3>2 DEF Nested
    <3> QED BY <3>3, <1>0, <1>6
  <2>2. A[j] = {} BY <2>1
  <2> QED BY <2>2, FS_EmptySet
<1>7. ASSUME NEW j \in D, up[j] # None PROVE up[j] \in D /\ Cardinality(A[j]) = Cardinality(A[up[j]]) + 1
  <2>1. PICK u : u = up[j] OBVIOUS
  <2>2. u \in D /\ u < j /\ j < end[u] BY <2>1, <1>0, <1>4, <1>7
  <2>3. \A i \in D : (i < j /\ j < end[i]) => (i < u /\ u < end[i]) \/ i = u
    <3> TAKE i \in D
    <3> HAVE i < j /\ j < end[i]
    <3>1. j \in i + 1 .. end[i] - 1 BY <1>4, <1>0
    <3>2. i <= u BY <2>1, <3>1 DEF Nested
    <3>3. PICK e \in Nat : e = end[i] BY <1>4, <1>0
    <3>4. i \in Nat /\ j \in Nat /\ u \in Nat BY <2>2, <1>0
    <3>5. j < e BY <3>3
    <3>6. u < e BY <2>2, <3>3, <3>4, <3>5
    <3> QED BY <3>2, <3>3, <3>4, <3>6
  <2>4. \A i \in D : (i < u /\ u < end[i]) => i < j /\ j < end[i]
    <3> TAKE i \in D
    <3> HAVE i < u /\ u < end[i]
    <3>0. PICK e \in Nat : e = end[i] BY <1>4, <1>0
    <3>a. PICK f \in Nat : f = end[u] BY <2>2, <1>4, <1>0
    <3>1. e = end[i] /\ f = end[u] BY <3>0, <3>a
    <3>2. i \in Nat /\ j \in Nat /\ u \in Nat BY <2>2, <1>0
    <3>3. u < e BY <3>1
    <3>4. u \in i + 1 .. end[i] - 1 BY <3>1, <3>2, <3>3
    <3>5. f <= e BY <3>1, <3>4 DEF Nested
    <3> QED BY <2>2, <3>1, <3>2, <3>5
  <2>5. A[j] = A[u] \union {u}
    <3> HIDE DEF D
    <3> QED BY <1>2, <2>2, <2>3, <2>4
  <2>6. u \notin A[u] BY <1>2, <2>2, <1>0
  <2>7. IsFiniteSet(A[u]) BY <1>5, <2>2
  <2>8. Cardinality(A[u] \union {u}) = Cardinality(A[u]) + 1 BY <2>6, <2>7, FS_AddElement
  <2> QED BY <2>1, <2>2, <2>5, <2>8
<1> QED BY <1>3, <1>5, <1>6, <1>7 DEF Levels

\* The open groups are one below the other.
LEMMA PathLevels ==
  ASSUME NEW n \in Nat, NEW up, NEW L, Levels(n, up, L), NEW end, NEW w, NEW gs \in 0 .. n,
         w \in Seq(0 .. GroupCapacity - 1), Path(up, end, w, gs)
  PROVE  \A d \in 1 .. Len(w) : L[w[d]] = d - 1
<1>0. Len(w) \in Nat /\ DOMAIN w = 1 .. Len(w) /\ None \in Nat /\ None = GroupCapacity + 1 /\ GroupCapacity \in Nat
  BY GapTableAssumption DEF None
<1> DEFINE P == {d \in 0 .. Len(w) : d # 0 => L[w[d]] = d - 1}
<1>1. 0 \in P /\ P \in SUBSET Nat BY <1>0
<1>2. ASSUME NEW d \in 0 .. Len(w) - 1, d \in P PROVE d + 1 \in P
  <2>1. d + 1 \in DOMAIN w /\ d + 1 \in 0 .. Len(w) /\ (d + 1) - 1 = d BY <1>0
  <2>2. w[d + 1] \in 0 .. gs - 1 /\ up[w[d + 1]] = IF d + 1 = 1 THEN None ELSE w[d] BY <2>1 DEF Path
  <2>3. w[d + 1] \in 0 .. n - 1 BY <2>2
  <2>4. L[w[d + 1]] = IF up[w[d + 1]] = None THEN 0 ELSE L[up[w[d + 1]]] + 1 BY <2>3 DEF Levels
  <2>5. CASE d = 0 BY <2>1, <2>2, <2>4, <2>5
  <2>6. CASE d # 0
    <3>1. d \in 1 .. Len(w) /\ d + 1 # 1 BY <2>6, <1>0
    <3>2. w[d] \in 0 .. GroupCapacity - 1 BY <3>1, ElementOfSeq
    <3>3. w[d] # None BY <3>2, <1>0
    <3>4. L[w[d + 1]] = L[w[d]] + 1 BY <2>2, <2>4, <3>1, <3>3
    <3>5. L[w[d]] = d - 1 BY <1>2, <2>6
    <3> QED BY <3>4, <3>5, <2>1
  <2> QED BY <2>5, <2>6
<1> HIDE DEF P
<1>3. \A d \in 0 .. Len(w) : d \in P BY <1>0, <1>1, <1>2, UpTo
<1> QED BY <1>3, <1>0 DEF P

\* What is in the subtree of a group is deeper.
LEMMA LevelsBelow ==
  ASSUME NEW n \in Sizes, NEW up, NEW end, Nested(n, up, end), NEW L, Levels(n, up, L),
         NEW i \in 0 .. n - 1
  PROVE  \A j \in i + 1 .. end[i] - 1 : L[j] > L[i]
<1>0. n \in Nat /\ None \in Nat /\ None > n /\ end[i] \in i + 1 .. n
  BY GapTableAssumption DEF Sizes, None, Nested
<1> DEFINE P == {k \in 0 .. n : \A j \in i + 1 .. end[i] - 1 : j < k => L[j] > L[i]}
<1>1. 0 \in P /\ P \in SUBSET Nat BY <1>0
<1>2. ASSUME NEW k \in 0 .. n - 1, k \in P PROVE k + 1 \in P
  <2>1. ASSUME NEW j \in i + 1 .. end[i] - 1, j < k + 1 PROVE L[j] > L[i]
    <3>1. CASE j < k BY <3>1, <1>2
    <3>2. CASE ~(j < k)
      <4>1. j \in 0 .. n - 1 BY <1>0
      <4>2. end[j] <= end[i] /\ i <= up[j] /\ up[j] < j BY DEF Nested
      <4>3. up[j] \in Nat BY <4>1 DEF Nested
      <4>4. up[j] # None BY <4>1, <4>2, <4>3, <1>0
      <4>5. up[j] \in 0 .. n - 1
        <5>1. PICK v \in Nat : v = up[j] BY <4>3
        <5>2. v < j BY <4>2, <5>1
        <5> QED BY <4>1, <5>1, <5>2, <1>0
      <4>6. L[j] = L[up[j]] + 1 /\ L[up[j]] \in Nat /\ L[i] \in Nat BY <4>1, <4>4, <4>5 DEF Levels
      <4>7. CASE up[j] = i BY <4>6, <4>7
      <4>8. CASE up[j] # i
        <5>1. up[j] \in i + 1 .. end[i] - 1 /\ up[j] < k BY <4>2, <4>3, <4>8, <2>1, <1>0
        <5>2. L[up[j]] > L[i] BY <5>1, <1>2
        <5> QED BY <4>6, <5>2
      <4> QED BY <4>7, <4>8
    <3> QED BY <3>1, <3>2
  <2>2. k + 1 \in 0 .. n BY <1>0
  <2> QED BY <2>1, <2>2
<1> HIDE DEF P
<1>3. \A k \in 0 .. n : k \in P BY <1>0, <1>1, <1>2, UpTo
<1>4. n \in P BY <1>0, <1>3
<1>5. \A j \in i + 1 .. end[i] - 1 : j < n BY <1>0
<1> QED BY <1>4, <1>5 DEF P

\* An insertion leaves every group as deep as it was.
LEMMA LevelsInserted ==
  ASSUME NEW n, NEW up, NEW end, NEW at, NEW Open, NEW parent, NEW up2, NEW end2,
         Inserts(n, up, end, at, Open, parent, up2, end2),
         NEW L, Levels(n, up, L), NEW L2, Levels(n + 1, up2, L2)
  PROVE  /\ \A i \in 0 .. n : i < at => L2[i] = L[i]
         /\ \A i \in 0 .. n : i > at => L2[i] = L[i - 1]
         /\ L2[at] = IF parent = None THEN 0 ELSE L[parent] + 1
<1>0. n \in Nat /\ None \in Nat /\ None > n + 1 /\ at \in 0 .. n BY GapTableAssumption DEF Sizes, None, Inserts
<1>1. /\ \A i \in at .. n - 1 : up[i] = None \/ up[i] >= at
      /\ \A i \in 0 .. at - 1 : up[i] = None \/ up[i] < at
  BY InsertNested
<1>2. \A i \in 0 .. n - 1 : up[i] \in Nat /\ (up[i] = None \/ up[i] < i) BY DEF Inserts, Nested
<1>3. \A i \in 0 .. n : up2[i] = IF i < at THEN up[i]
                                 ELSE IF i = at THEN parent
                                 ELSE IF up[i - 1] = None THEN None ELSE up[i - 1] + 1
  BY DEF Inserts
<1>4. \A i \in 0 .. n : L2[i] \in Nat /\ L2[i] = IF up2[i] = None THEN 0 ELSE L2[up2[i]] + 1
  <2>1. (n + 1) - 1 = n BY <1>0
  <2> QED BY <2>1 DEF Levels
<1>5. \A i \in 0 .. n - 1 : L[i] \in Nat /\ L[i] = IF up[i] = None THEN 0 ELSE L[up[i]] + 1 BY DEF Levels
<1> DEFINE Q(i) == (i < at => L2[i] = L[i]) /\ (i > at => L2[i] = L[i - 1])
           P == {k \in 0 .. n + 1 : \A i \in 0 .. n : i < k => Q(i)}
<1>6. 0 \in P /\ P \in SUBSET Nat BY <1>0
<1>7. ASSUME NEW k \in 0 .. (n + 1) - 1, k \in P PROVE k + 1 \in P
  <2>0. k \in 0 .. n BY <1>0
  <2>1. CASE k < at
    <3>1. k \in 0 .. n - 1 /\ k \in 0 .. at - 1 BY <2>1, <1>0
    <3>2. up2[k] = up[k] BY <2>0, <2>1, <1>3
    <3>3. ASSUME up[k] = None PROVE Q(k)
      <4>1. L2[k] = 0 BY <3>2, <3>3, <2>0, <1>4
      <4>2. L[k] = 0 BY <3>1, <3>3, <1>5
      <4>3. ~(k > at) BY <2>1, <1>0
      <4> QED BY <4>1, <4>2, <4>3
    <3>4. ASSUME up[k] # None PROVE Q(k)
      <4>1. up[k] \in 0 .. n /\ up[k] < k /\ up[k] < at BY <3>1, <3>4, <1>0, <1>1, <1>2
      <4>2. Q(up[k]) BY <4>1, <1>7
      <4>3. L2[up[k]] = L[up[k]] BY <4>1, <4>2
      <4>4. L2[k] = L[k] BY <3>1, <3>2, <3>4, <4>3, <2>0, <1>4, <1>5
      <4>5. ~(k > at) BY <2>1, <1>0
      <4> QED BY <4>4, <4>5
    <3>5. Q(k)
      <4> HIDE DEF Q
      <4> QED BY <3>3, <3>4
    <3> QED BY <3>5, <2>0, <1>0, <1>7
  <2>2. CASE k = at
    <3>1. Q(k) BY <2>2, <1>0
    <3> QED BY <3>1, <2>0, <1>0, <1>7
  <2>3. CASE k > at
    <3>1. k - 1 \in 0 .. n - 1 /\ k - 1 \in at .. n - 1 /\ ~(k < at) /\ k # at BY <2>3, <2>0, <1>0
    <3>2. up2[k] = IF up[k - 1] = None THEN None ELSE up[k - 1] + 1 BY <2>0, <3>1, <1>3
    <3>3. ASSUME up[k - 1] = None PROVE Q(k)
      <4>1. L2[k] = 0 BY <3>2, <3>3, <2>0, <1>4
      <4>2. L[k - 1] = 0 BY <3>1, <3>3, <1>5
      <4> QED BY <3>1, <4>1, <4>2
    <3>4. ASSUME up[k - 1] # None PROVE Q(k)
      <4>1. PICK v \in Nat : v = up[k - 1] BY <3>1, <1>2
      <4>2. v >= at /\ v < k - 1 BY <3>1, <3>4, <4>1, <1>1, <1>2
      <4>3. v + 1 \in 0 .. n /\ v + 1 < k /\ v + 1 > at /\ (v + 1) - 1 = v /\ v + 1 # None BY <4>2, <2>0, <1>0
      <4>4. Q(v + 1) BY <4>3, <1>7
      <4>5. L2[v + 1] = L[v] BY <4>3, <4>4
      <4>6. L2[k] = L2[v + 1] + 1 BY <2>0, <3>2, <3>4, <4>1, <4>3, <1>4
      <4>7. L[k - 1] = L[v] + 1 BY <3>1, <3>4, <4>1, <1>5
      <4>8. L2[k] = L[k - 1] BY <4>5, <4>6, <4>7
      <4> QED BY <4>8, <3>1
    <3>5. Q(k)
      <4> HIDE DEF Q
      <4> QED BY <3>3, <3>4
    <3> QED BY <3>5, <2>0, <1>0, <1>7
  <2> QED BY <2>1, <2>2, <2>3, <2>0, <1>0
<1> HIDE DEF P
<1>8. \A k \in 0 .. n + 1 : k \in P BY <1>0, <1>6, <1>7, UpTo
<1>9. n + 1 \in P BY <1>0, <1>8
<1>10. \A i \in 0 .. n : Q(i) BY <1>9, <1>0 DEF P
<1>11. L2[at] = IF parent = None THEN 0 ELSE L[parent] + 1
  <2>1. at \in 0 .. n /\ ~(at < at) BY <1>0
  <2>2. up2[at] = parent BY <2>1, <1>3
  <2>3. parent # None => parent \in 0 .. n /\ parent < at
    <3>1. parent # None => parent \in Open BY DEF Inserts
    <3>2. Open \subseteq 0 .. at - 1 BY DEF Inserts
    <3>3. CASE parent = None BY <3>3
    <3>4. CASE parent # None
      <4>1. parent \in 0 .. at - 1 BY <3>1, <3>2, <3>4
      <4> QED BY <4>1, <1>0
    <3> QED BY <3>3, <3>4
  <2> QED BY <2>1, <2>2, <2>3, <1>4, <1>10
<1> QED BY <1>10, <1>11

-----------------------------------------------------------------------------
(* More about sums.                                                        *)

\* The amounts that are summed.
Amounts(n, a) == \A k \in 0 .. n - 1 : a[k] \in Int

LEMMA SumInt ==
  ASSUME NEW n \in Nat, NEW a, Amounts(n, a)
  PROVE  SumOf(a, n) \in Int
<1>1. PICK s : Sums(s, a, n) /\ SumOf(a, n) = s[n] BY SumIs DEF Amounts
<1>2. n \in 0 .. n OBVIOUS
<1> QED BY <1>1, <1>2 DEF Sums

\* One amount is x more.
LEMMA SumChange ==
  ASSUME NEW n \in Nat, NEW a, NEW b, Amounts(n, a), Amounts(n, b), NEW p \in 0 .. n - 1, NEW x \in Int,
         b[p] = a[p] + x, \A k \in 0 .. n - 1 : k # p => b[k] = a[k]
  PROVE  SumOf(b, n) = SumOf(a, n) + x
<1>1. PICK s : Sums(s, a, n) /\ SumOf(a, n) = s[n] BY SumIs DEF Amounts
<1>2. PICK t : Sums(t, b, n) /\ SumOf(b, n) = t[n] BY SumIs DEF Amounts
<1>3. /\ s \in [0 .. n -> Int] /\ t \in [0 .. n -> Int] /\ s[0] = 0 /\ t[0] = 0
      /\ \A k \in 0 .. n - 1 : s[k + 1] = s[k] + a[k] /\ t[k + 1] = t[k] + b[k]
  BY <1>1, <1>2 DEF Sums
<1>4. ASSUME NEW k \in 0 .. n - 1
      PROVE  /\ s[k] \in Int /\ t[k] \in Int /\ a[k] \in Int /\ b[k] \in Int
             /\ s[k + 1] \in Int /\ t[k + 1] \in Int /\ k + 1 \in 0 .. n /\ k \in 0 .. n
  <2>1. k \in 0 .. n /\ k + 1 \in 0 .. n OBVIOUS
  <2> QED BY <2>1, <1>3 DEF Amounts
<1> DEFINE P == {k \in 0 .. n : t[k] = s[k] + (IF k > p THEN x ELSE 0)}
<1>5. 0 \in P /\ P \in SUBSET Nat
  <2>1. ~(0 > p) /\ 0 \in 0 .. n /\ 0 + 0 = 0 OBVIOUS
  <2> QED BY <2>1, <1>3
<1>6. ASSUME NEW k \in 0 .. n - 1, k \in P PROVE k + 1 \in P
  <2>1. PICK sk \in Int, tk \in Int, ak \in Int, bk \in Int : sk = s[k] /\ tk = t[k] /\ ak = a[k] /\ bk = b[k]
    BY <1>4
  <2>2. s[k + 1] = sk + ak /\ t[k + 1] = tk + bk BY <1>3, <2>1
  <2>3. tk = sk + (IF k > p THEN x ELSE 0) BY <1>6, <2>1
  <2>4. bk = ak + (IF k = p THEN x ELSE 0)
    <3>1. CASE k = p BY <3>1, <2>1
    <3>2. CASE k # p BY <3>2, <2>1
    <3> QED BY <3>1, <3>2
  <2>5. tk + bk = (sk + ak) + (IF k + 1 > p THEN x ELSE 0) BY <2>3, <2>4
  <2> QED BY <2>2, <2>5, <1>4
<1> HIDE DEF P
<1>7. \A k \in 0 .. n : k \in P BY <1>5, <1>6, UpTo
<1>8. n \in 0 .. n /\ n > p OBVIOUS
<1>9. t[n] = s[n] + x BY <1>7, <1>8 DEF P
<1> QED BY <1>1, <1>2, <1>9

\* Nothing is inserted between the amounts.
LEMMA SumInsert ==
  ASSUME NEW n \in Nat, NEW a, NEW b, Amounts(n, a), Amounts(n + 1, b), NEW at \in 0 .. n,
         b[at] = 0, \A k \in 0 .. n - 1 : b[IF k < at THEN k ELSE k + 1] = a[k]
  PROVE  SumOf(b, n + 1) = SumOf(a, n)
<1>1. PICK s : Sums(s, a, n) /\ SumOf(a, n) = s[n] BY SumIs DEF Amounts
<1>2. PICK t : Sums(t, b, n + 1) /\ SumOf(b, n + 1) = t[n + 1]
  <2>1. n + 1 \in Nat OBVIOUS
  <2> QED BY <2>1, SumIs DEF Amounts
<1>3. /\ s \in [0 .. n -> Int] /\ t \in [0 .. n + 1 -> Int] /\ s[0] = 0 /\ t[0] = 0
      /\ \A k \in 0 .. n - 1 : s[k + 1] = s[k] + a[k]
      /\ \A k \in 0 .. n : t[k + 1] = t[k] + b[k]
  <2>1. (n + 1) - 1 = n OBVIOUS
  <2> QED BY <1>1, <1>2, <2>1 DEF Sums
<1>4. ASSUME NEW k \in 0 .. n PROVE s[k] \in Int /\ t[k] \in Int /\ t[k + 1] \in Int /\ k + 1 \in 0 .. n + 1
  <2>1. k \in 0 .. n + 1 /\ k + 1 \in 0 .. n + 1 OBVIOUS
  <2> QED BY <2>1, <1>3
<1> DEFINE P == {k \in 0 .. n : (IF k < at THEN t[k] ELSE t[k + 1]) = s[k]}
<1>5. 0 \in P /\ P \in SUBSET Nat
  <2>1. 0 \in 0 .. n OBVIOUS
  <2>2. CASE 0 < at BY <2>1, <2>2, <1>3
  <2>3. CASE ~(0 < at)
    <3>1. at = 0 BY <2>3
    <3>2. t[0 + 1] = t[0] + b[0] BY <2>1, <1>3
    <3>3. t[0 + 1] = 0 BY <3>1, <3>2, <1>3
    <3> QED BY <2>1, <2>3, <3>3, <1>3
  <2> QED BY <2>2, <2>3
<1>6. ASSUME NEW k \in 0 .. n - 1, k \in P PROVE k + 1 \in P
  <2>0. k \in 0 .. n /\ k + 1 \in 0 .. n /\ a[k] \in Int BY DEF Amounts
  <2>1. s[k + 1] = s[k] + a[k] BY <1>3
  <2>2. CASE k + 1 < at
    <3>1. k < at BY <2>2
    <3>2. t[k] = s[k] /\ b[k] = a[k] /\ t[k + 1] = t[k] + b[k] BY <3>1, <2>0, <1>3, <1>6
    <3> QED BY <2>0, <2>1, <2>2, <3>2
  <2>3. CASE k + 1 = at
    <3>1. k < at /\ ~(k + 1 < at) BY <2>3
    <3>2. t[k] = s[k] /\ b[k] = a[k] /\ t[k + 1] = t[k] + b[k] BY <3>1, <2>0, <1>3, <1>6
    <3>3. t[k + 1 + 1] = t[k + 1] + b[k + 1] /\ b[k + 1] = 0 /\ t[k + 1] \in Int BY <2>0, <2>3, <1>3, <1>4
    <3>4. t[k + 1 + 1] = t[k + 1]
      <4>1. PICK x \in Int : x = t[k + 1] BY <3>3
      <4>2. t[k + 1 + 1] = x + 0 BY <3>3, <4>1
      <4> QED BY <4>1, <4>2
    <3> QED BY <2>0, <2>1, <3>1, <3>2, <3>4
  <2>4. CASE k + 1 > at
    <3>1. ~(k < at) /\ ~(k + 1 < at) BY <2>4
    <3>2. t[k + 1] = s[k] /\ b[k + 1] = a[k] BY <3>1, <1>6
    <3>3. t[k + 1 + 1] = t[k + 1] + b[k + 1] BY <2>0, <1>3
    <3> QED BY <2>0, <2>1, <3>1, <3>2, <3>3
  <2> QED BY <2>2, <2>3, <2>4
<1> HIDE DEF P
<1>7. \A k \in 0 .. n : k \in P BY <1>5, <1>6, UpTo
<1>8. n \in 0 .. n /\ ~(n < at) OBVIOUS
<1>9. t[n + 1] = s[n] BY <1>7, <1>8 DEF P
<1> QED BY <1>1, <1>2, <1>9

LEMMA SumZero ==
  ASSUME NEW n \in Nat, NEW a, \A k \in 0 .. n - 1 : a[k] = 0
  PROVE  SumOf(a, n) = 0
<1>0. \A k \in 0 .. n - 1 : a[k] \in Int
  <2>1. 0 \in Int OBVIOUS
  <2> QED BY <2>1
<1>1. PICK s : Sums(s, a, n) /\ SumOf(a, n) = s[n] BY <1>0, SumIs
<1> DEFINE P == {k \in 0 .. n : s[k] = 0}
<1>2. 0 \in P /\ P \in SUBSET Nat BY <1>1 DEF Sums
<1>3. ASSUME NEW k \in 0 .. n - 1, k \in P PROVE k + 1 \in P
  <2>1. s[k + 1] = s[k] + a[k] /\ k + 1 \in 0 .. n BY <1>1 DEF Sums
  <2> QED BY <2>1, <1>3
<1> HIDE DEF P
<1>4. \A k \in 0 .. n : k \in P BY <1>2, <1>3, UpTo
<1> QED BY <1>1, <1>4 DEF P

-----------------------------------------------------------------------------
(* The forest that a table stands for.                                     *)

\* What closed groups below group i have added to its nodes.
Gifts(t, w, i) ==
  [j \in 0 .. Count(t) - 1 |->
     IF G(t, j).parentIndex = i /\ j \notin OpenIn(w) THEN G(t, j).nodeCount ELSE 0]

\* The nodes that group i emitted itself, its words, and its entry in the list.
Own(t, w, i) == G(t, i).nodeCount - SumOf(Gifts(t, w, i), Count(t))

WordsOf(t, i) == [k \in 1 .. G(t, i).slotCount |-> W(t, Place(t, i) + k - 1)]

Entry(t, w, i) ==
  [key |-> G(t, i).key, depth |-> Level(UpOf(t))[i], nodes |-> Own(t, w, i), values |-> WordsOf(t, i)]

\* Forest, without physical places.
View(t, w) == [n \in 1 .. Count(t) |-> Entry(t, w, n - 1)]

\* The words of a group are where its index says.
LEMMA WordIs ==
  ASSUME NEW t, Typed(t), Laid(t), NEW i \in 0 .. Count(t) - 1, NEW k \in 1 .. G(t, i).slotCount
  PROVE  /\ W(t, Place(t, i) + k - 1) = t.slots[G(t, i).slotIndex + k - 1]
         /\ Place(t, i) + k - 1 \in 0 .. Words(t) - 1
<1>1. PICK n \in Nat, gs \in Nat, sgs \in Nat, sgl \in Nat, m \in Nat :
        n = Count(t) /\ gs = t.groupGapStart /\ sgs = t.slotGapStart /\ sgl = t.slotGapLen /\ m = Words(t)
  <2>1. /\ Count(t) \in Nat /\ Words(t) \in Nat
        /\ t.groupGapStart \in Nat /\ t.slotGapStart \in Nat /\ t.slotGapLen \in Nat
    BY TypedIs
  <2> QED BY <2>1
<1>2. i \in 0 .. n /\ i + 1 \in 0 .. n /\ n \in 0 .. n /\ i # n /\ gs \in 0 .. n BY <1>1, TypedIs
<1>3. G(t, i).slotIndex \in Nat /\ G(t, i).slotCount \in Nat BY TypedIs, GroupFields
<1>4. PICK x \in Nat, c \in Nat, p \in Nat : x = G(t, i).slotIndex /\ c = G(t, i).slotCount /\ p = Place(t, i)
  BY <1>3 DEF Laid
<1>5. Place(t, i + 1) = p + c BY <1>4 DEF Laid
<1>6. Place(t, n) = m BY <1>1 DEF Place
<1>7. p + c <= m
  <2>1. i + 1 \in 0 .. n BY <1>2
  <2>2. Place(t, i + 1) <= Place(t, n) BY <1>1, <1>2, <2>1, LaidUp
  <2> QED BY <1>5, <1>6, <2>2
<1>8. Place(t, gs) = sgs BY <1>1 DEF Laid
<1>9. k \in 1 .. c BY <1>4
<1>10. CASE i < gs
  <2>1. p = x BY <1>1, <1>2, <1>4, <1>10 DEF Place
  <2>2. p + c <= sgs
    <3>1. i + 1 \in 0 .. gs BY <1>2, <1>10
    <3>2. Place(t, i + 1) <= Place(t, gs) BY <1>1, <1>2, <3>1, LaidUp
    <3> QED BY <1>5, <1>8, <3>2
  <2>3. p + k - 1 < sgs BY <1>9, <2>2
  <2>4. W(t, p + k - 1) = t.slots[p + k - 1] BY <1>1, <2>3 DEF W, Seen
  <2> QED BY <2>1, <2>4, <1>1, <1>4, <1>7, <1>9
<1>11. CASE ~(i < gs)
  <2>1. p = x - sgl BY <1>1, <1>2, <1>4, <1>11 DEF Place
  <2>2. sgs <= p
    <3>1. gs \in 0 .. i BY <1>2, <1>11
    <3>2. Place(t, gs) <= Place(t, i) BY <1>1, <1>2, <3>1, LaidUp
    <3> QED BY <1>4, <1>8, <3>2
  <2>3. ~(p + k - 1 < sgs) BY <1>9, <2>2
  <2>4. W(t, p + k - 1) = t.slots[p + k - 1 + sgl] BY <1>1, <2>3 DEF W, Seen
  <2>5. p + k - 1 + sgl = x + k - 1 BY <2>1, <1>9
  <2> QED BY <2>4, <2>5, <1>1, <1>4, <1>7, <1>9
<1> QED BY <1>10, <1>11

LEMMA Mapped == TableInv => Forest = View(table, writer)
<1> SUFFICES ASSUME TableInv PROVE Forest = View(table, writer)
  OBVIOUS
<1>1. Typed(table) /\ Laid(table) BY DEF TableInv, Consistent
<1>2. Count(table) \in Nat BY <1>1, TypedIs
<1>3. GroupCount = Count(table) /\ \A i : GroupAt(i) = G(table, i) BY Names
<1>4. Ancestors = Above(UpOf(table)) BY Names DEF Ancestors, UpOf
<1>5. DOMAIN UpOf(table) = 0 .. Count(table) - 1 BY DEF UpOf
<1>6. ASSUME NEW i \in 0 .. Count(table) - 1 PROVE OwnNodes(i) = Own(table, writer, i)
  <2>1. \A j : Closed(j) <=> j \notin OpenIn(writer) BY DEF Closed, OpenIn
  <2>2. AllGroups = 0 .. Count(table) - 1 BY <1>3 DEF AllGroups
  <2>3. [j \in AllGroups |-> IF GroupAt(j).parentIndex = i /\ Closed(j) THEN GroupAt(j).nodeCount ELSE 0]
          = Gifts(table, writer, i)
    BY <1>3, <2>1, <2>2 DEF Gifts
  <2> QED BY <1>3, <2>3 DEF OwnNodes, Own
<1>7. ASSUME NEW n \in 1 .. Count(table)
      PROVE  [key |-> GroupAt(n - 1).key,
              depth |-> Cardinality(Ancestors[n - 1]),
              nodes |-> OwnNodes(n - 1),
              values |-> [k \in 1 .. GroupAt(n - 1).slotCount |->
                            table.slots[GroupAt(n - 1).slotIndex + k - 1]]]
             = Entry(table, writer, n - 1)
  <2>1. n - 1 \in 0 .. Count(table) - 1 BY <1>2
  <2>2. Level(UpOf(table))[n - 1] = Cardinality(Ancestors[n - 1]) BY <1>4, <1>5, <2>1 DEF Level
  <2>3. [k \in 1 .. GroupAt(n - 1).slotCount |-> table.slots[GroupAt(n - 1).slotIndex + k - 1]]
          = WordsOf(table, n - 1)
    BY <1>1, <1>3, <2>1, WordIs DEF WordsOf
  <2> QED BY <1>3, <1>6, <2>1, <2>2, <2>3 DEF Entry
<1>8. Forest = [n \in 1 .. GroupCount |->
                  [key |-> GroupAt(n - 1).key,
                   depth |-> Cardinality(Ancestors[n - 1]),
                   nodes |-> OwnNodes(n - 1),
                   values |-> [k \in 1 .. GroupAt(n - 1).slotCount |->
                                 table.slots[GroupAt(n - 1).slotIndex + k - 1]]]]
  BY DEF Forest
<1> QED BY <1>3, <1>7, <1>8 DEF View

LEMMA MappedNext ==
  ASSUME NEW u, NEW w, u = table', w = writer', TableInv'
  PROVE  Forest' = View(u, w)
<1>1. (TableInv => Forest = View(table, writer))' BY Mapped, PTL
<1> QED BY <1>1

LEMMA ViewIs ==
  ASSUME NEW t, NEW w, Count(t) \in Nat
  PROVE  /\ View(t, w) \in Seq({View(t, w)[n] : n \in 1 .. Count(t)})
         /\ Len(View(t, w)) = Count(t) /\ DOMAIN View(t, w) = 1 .. Count(t)
         /\ \A n \in 1 .. Count(t) : View(t, w)[n] = Entry(t, w, n - 1)
<1>1. PICK f : f = View(t, w) OBVIOUS
<1>2. DOMAIN f = 1 .. Count(t) /\ \A n \in 1 .. Count(t) : f[n] = Entry(t, w, n - 1) BY <1>1 DEF View
<1>3. f = [n \in 1 .. Count(t) |-> f[n]] BY <1>1, <1>2 DEF View
<1>4. f \in [1 .. Count(t) -> {f[n] : n \in 1 .. Count(t)}] BY <1>3
<1>5. f \in Seq({f[n] : n \in 1 .. Count(t)}) BY <1>4
<1>6. Len(f) = Count(t) BY <1>2, <1>5
<1> QED BY <1>1, <1>2, <1>5, <1>6

\* What does not show of a table does not show in the forest.
LEMMA SameParts ==
  ASSUME NEW t, NEW u, Typed(t), Laid(t), SameButNodes(t, u)
  PROVE  /\ Count(u) = Count(t) /\ UpOf(u) = UpOf(t)
         /\ \A i \in 0 .. Count(t) - 1 : WordsOf(u, i) = WordsOf(t, i)
<1>1. Count(u) = Count(t) /\ UpOf(u) = UpOf(t) BY DEF SameButNodes, UpOf
<1>2. ASSUME NEW i \in 0 .. Count(t) - 1 PROVE WordsOf(u, i) = WordsOf(t, i)
  BY WordIs DEF WordsOf, SameButNodes
<1> QED BY <1>1, <1>2

LEMMA SameView ==
  ASSUME NEW t, NEW u, NEW w, Typed(t), Laid(t), SameShow(t, u)
  PROVE  View(u, w) = View(t, w)
<1>1. SameButNodes(t, u) BY DEF SameShow
<1>2. Count(u) = Count(t) /\ UpOf(u) = UpOf(t) BY <1>1, SameParts
<1>3. ASSUME NEW i \in 0 .. Count(t) - 1 PROVE Entry(u, w, i) = Entry(t, w, i)
  <2>1. Gifts(u, w, i) = Gifts(t, w, i) BY <1>1, <1>2 DEF Gifts, SameShow, SameButNodes
  <2>2. Own(u, w, i) = Own(t, w, i) BY <1>2, <2>1 DEF Own, SameShow
  <2>3. WordsOf(u, i) = WordsOf(t, i) BY <1>1, SameParts
  <2> QED BY <1>1, <1>2, <2>2, <2>3 DEF Entry, SameButNodes
<1>4. \A n \in 1 .. Count(t) : n - 1 \in 0 .. Count(t) - 1 BY TypedIs
<1> QED BY <1>2, <1>3, <1>4 DEF View

-----------------------------------------------------------------------------
(* Steps of the forest.                                                    *)

\* What a step is about, as data.
LEMMA Stands ==
  ASSUME TableInv, TableInv',
         NEW t, NEW w, NEW u, NEW w2, t = table, w = writer, u = table', w2 = writer'
  PROVE  /\ Forest = View(t, w) /\ Forest' = View(u, w2) /\ Depth = Len(w) /\ Depth' = Len(w2)
         /\ Consistent(t, w, reader, walk) /\ Consistent(u, w2, reader', walk')
         /\ Typed(t) /\ Laid(t) /\ Typed(u) /\ Laid(u) /\ Count(t) \in Nat /\ Count(u) \in Nat
         /\ Len(w) \in Nat /\ Len(w2) \in Nat
<1>1. Consistent(t, w, reader, walk) /\ Consistent(u, w2, reader', walk') BY DEF TableInv
<1>2. Typed(t) /\ Laid(t) /\ Typed(u) /\ Laid(u) BY <1>1 DEF Consistent
<1>3. Count(t) \in Nat /\ Count(u) \in Nat BY <1>2, TypedIs
<1>4. Forest = View(t, w) /\ Forest' = View(u, w2) BY Mapped, MappedNext
<1>5. w \in Seq(0 .. GroupCapacity - 1) /\ w2 \in Seq(0 .. GroupCapacity - 1) BY <1>1 DEF Consistent, WriterOK
<1> QED BY <1>1, <1>2, <1>3, <1>4, <1>5 DEF Depth

LEMMA LevelsOf ==
  ASSUME NEW t, NEW w, NEW r, NEW wk, Consistent(t, w, r, wk)
  PROVE  Levels(Count(t), UpOf(t), Level(UpOf(t)))
BY TreeIs, LevelIs

LEMMA Stutter == ASSUME TableInv, TableInv', Unseen PROVE UNCHANGED Abstract!forestVars
<1>1. PICK t, w, u : t = table /\ w = writer /\ u = table' OBVIOUS
<1>2. writer' = w /\ SameShow(t, u) /\ u.groupGapStart = t.groupGapStart BY <1>1 DEF Unseen
<1>3. /\ Forest = View(t, w) /\ Forest' = View(u, w) /\ Depth = Len(w) /\ Depth' = Len(w)
      /\ Typed(t) /\ Laid(t)
  BY <1>1, <1>2, Stands
<1>4. View(u, w) = View(t, w) BY <1>2, <1>3, SameView
<1> QED BY <1>1, <1>2, <1>3, <1>4 DEF Abstract!forestVars

LEMMA EmptyView == ASSUME NEW t, NEW w, Count(t) = 0 PROVE View(t, w) = <<>>
<1>1. PICK f, S : f = View(t, w) /\ S = {View(t, w)[n] : n \in 1 .. Count(t)} OBVIOUS
<1>2. f \in Seq(S) /\ Len(f) = 0 BY <1>1, ViewIs
<1> QED BY <1>1, <1>2, EmptySeq

LEMMA EmptyForest == ASSUME TableInit PROVE Abstract!ForestInit
<1>1. TableInv /\ table = EmptyTable /\ writer = <<>> BY InitOK DEF TableInit
<1>2. Count(table) = 0 /\ table.groupGapStart = 0 BY <1>1, GapTableAssumption DEF EmptyTable, Count
<1>3. Forest = View(table, writer) BY <1>1, Mapped
<1> QED BY <1>1, <1>2, <1>3, EmptyView DEF Abstract!ForestInit, Depth

LEMMA ResetClears == ASSUME TableInv, Reset PROVE TableInv' /\ Abstract!Clear
<1>1. TableInv' /\ writer = <<>> /\ writer' = <<>> BY ResetStep, NoWriter DEF Reset
<1>2. PICK t, w, u : t = table /\ w = writer /\ u = table' OBVIOUS
<1>3. u = EmptyTable BY <1>2 DEF Reset
<1>4. Count(u) = 0 /\ u.groupGapStart = 0 BY <1>3, GapTableAssumption DEF EmptyTable, Count
<1>5. Forest' = View(u, <<>>) /\ Depth = Len(<<>>) /\ Depth' = Len(<<>>) BY <1>1, <1>2, Stands
<1>6. View(u, <<>>) = <<>> BY <1>4, EmptyView
<1> QED BY <1>1, <1>2, <1>4, <1>5, <1>6 DEF Abstract!Clear

LEMMA GapsMoveOn ==
  ASSUME TableInv, TableInv', SameTable(table, table'), writer' = writer, writer = <<>>
  PROVE  \E i \in 0 .. Len(Forest) : Abstract!MoveTo(i)
<1>1. PICK t, u, w : t = table /\ u = table' /\ w = <<>> OBVIOUS
<1>2. /\ Forest = View(t, w) /\ Forest' = View(u, w) /\ Depth = Len(w) /\ Depth' = Len(w)
      /\ Consistent(t, w, reader, walk) /\ Consistent(u, w, reader', walk')
      /\ Typed(t) /\ Laid(t) /\ Typed(u) /\ Count(t) \in Nat /\ Len(w) = 0
  BY <1>1, Stands
<1>3. SameTable(t, u) BY <1>1
<1>4. Count(u) = Count(t) BY <1>3 DEF SameTable, Count
<1>5. ASSUME NEW i \in 0 .. Count(t) - 1
      PROVE  /\ G(u, i).key = G(t, i).key /\ G(u, i).parentIndex = G(t, i).parentIndex
             /\ G(u, i).slotCount = G(t, i).slotCount /\ G(u, i).nodeCount = G(t, i).nodeCount
             /\ Place(u, i) = Place(t, i)
  <2>1. PICK k \in Nat : G(u, i) = [G(t, i) EXCEPT !.slotIndex = k] BY <1>3 DEF SameTable
  <2>2. G(t, i) \in Group BY <1>2, TypedIs
  <2>3. i \in 0 .. Count(t) BY <1>2
  <2> QED BY <1>3, <2>1, <2>2, <2>3 DEF Group, SameTable
<1>6. SameShow(t, u) BY <1>3, <1>4, <1>5 DEF SameShow, SameButNodes, SameTable
<1>7. View(u, w) = View(t, w) BY <1>2, <1>6, SameView
<1>8. PICK at : at = u.groupGapStart OBVIOUS
<1>9. at \in 0 .. Count(t) /\ Len(Forest) = Count(t) BY <1>2, <1>4, <1>8, TypedIs, ViewIs
<1>10. ASSUME at # Count(t) PROVE Forest[at + 1].depth = 0
  <2>1. at \in 0 .. Count(u) - 1 /\ at < Count(u) /\ at + 1 \in 1 .. Count(u) /\ at + 1 - 1 = at
    BY <1>2, <1>4, <1>9, <1>10
  <2>2. UpOf(u)[at] = None BY <1>2, <1>8, <2>1 DEF Consistent, TreeOK
  <2>3. Level(UpOf(u))[at] = 0 BY <1>2, <2>1, <2>2, LevelsOf DEF Levels
  <2>4. PICK k : k = at + 1 /\ k \in 1 .. Count(u) /\ k - 1 = at BY <2>1
  <2>5. View(u, w)[k] = Entry(u, w, k - 1) BY <1>2, <1>4, <2>4, ViewIs
  <2>6. Forest[at + 1] = Entry(u, w, at) BY <1>2, <1>7, <2>4, <2>5
  <2> QED BY <2>3, <2>6 DEF Entry
<1>11. Abstract!MoveTo(at)
  BY <1>1, <1>2, <1>7, <1>8, <1>9, <1>10 DEF Abstract!MoveTo, Abstract!Between
<1> QED BY <1>9, <1>11

\* The nodes of a group go to its parent when it is closed: what each group
\* emitted itself stays.
LEMMA OwnKept ==
  ASSUME NEW t, NEW w, NEW r, NEW wk, Consistent(t, w, r, wk),
         NEW u, NEW w2, SameButNodes(t, u), NEW D \in Nat, D = Len(w), D \in 1 .. D, NEW i, i = w[D],
         OpenIn(w) = OpenIn(w2) \union {i}, i \notin OpenIn(w2),
         \A j \in 0 .. Count(t) - 1 :
           G(u, j).nodeCount = IF D > 1 /\ j = w[D - 1]
                               THEN G(t, j).nodeCount + G(t, i).nodeCount ELSE G(t, j).nodeCount,
         NEW x \in 0 .. Count(t) - 1
  PROVE  Own(u, w2, x) = Own(t, w, x)
<1>1. PICK n, gs : n = Count(t) /\ gs = t.groupGapStart /\ n \in Nat /\ gs \in 0 .. n /\ None > n /\ None \in Nat
  BY TreeIs
<1>2. Count(u) = n /\ \A j \in 0 .. n - 1 : G(u, j).parentIndex = G(t, j).parentIndex
  BY <1>1 DEF SameButNodes
<1>3. \A j \in 0 .. n - 1 : G(t, j).nodeCount \in Nat BY <1>1, TreeIs, GroupFields
<1>4. \A d \in 1 .. D : /\ w[d] \in 0 .. gs - 1 /\ w[d] \in 0 .. n - 1
                        /\ G(t, w[d]).parentIndex = IF d = 1 THEN None ELSE w[d - 1]
                        /\ d > 1 => w[d - 1] < w[d]
  <2> TAKE d \in 1 .. D
  <2>1. w \in Seq(0 .. GroupCapacity - 1) /\ Path(UpOf(t), EndsOf(t, w), w, gs) BY <1>1 DEF Consistent, WriterOK
  <2>2. d \in DOMAIN w BY <2>1
  <2>3. /\ w[d] \in 0 .. gs - 1 /\ UpOf(t)[w[d]] = (IF d = 1 THEN None ELSE w[d - 1])
        /\ d > 1 => w[d - 1] < w[d]
    BY <2>1, <2>2 DEF Path
  <2>4. w[d] \in 0 .. n - 1 BY <2>3, <1>1
  <2>5. UpOf(t)[w[d]] = G(t, w[d]).parentIndex BY <1>1, <2>4 DEF UpOf
  <2> QED BY <2>3, <2>4, <2>5
<1>5. i \in 0 .. n - 1 BY <1>4
<1>6. PICK a, b : a = Gifts(t, w, x) /\ b = Gifts(u, w2, x) OBVIOUS
<1>7. \A j \in 0 .. n - 1 :
        /\ a[j] = IF G(t, j).parentIndex = x /\ j \notin OpenIn(w) THEN G(t, j).nodeCount ELSE 0
        /\ b[j] = IF G(t, j).parentIndex = x /\ j \notin OpenIn(w2) THEN G(u, j).nodeCount ELSE 0
  BY <1>1, <1>2, <1>6 DEF Gifts
<1>8. Own(t, w, x) = G(t, x).nodeCount - SumOf(a, n) /\ Own(u, w2, x) = G(u, x).nodeCount - SumOf(b, n)
  BY <1>1, <1>2, <1>6 DEF Own
<1>9. ASSUME NEW j \in 0 .. n - 1, j # i PROVE b[j] = a[j]
  <2>1. j \in OpenIn(w) <=> j \in OpenIn(w2) BY <1>9
  <2>2. CASE j \in OpenIn(w2) BY <2>1, <2>2, <1>7
  <2>3. CASE j \notin OpenIn(w2)
    <3>1. ASSUME D > 1 PROVE j # w[D - 1]
      <4>1. D - 1 \in 1 .. D BY <3>1
      <4>2. w[D - 1] \in OpenIn(w)
        <5>1. w \in Seq(0 .. GroupCapacity - 1) BY DEF Consistent, WriterOK
        <5> QED BY <4>1, <5>1 DEF OpenIn
      <4>3. w[D - 1] # i
        <5>1. w[D - 1] < w[D] /\ w[D - 1] \in Nat /\ w[D] \in Nat BY <1>1, <1>4, <4>1, <3>1
        <5> QED BY <5>1
      <4> QED BY <4>2, <4>3, <2>3
    <3>2. G(u, j).nodeCount = G(t, j).nodeCount BY <1>1, <3>1
    <3> QED BY <2>1, <3>2, <1>7
  <2> QED BY <2>2, <2>3
<1>10. i \in OpenIn(w) OBVIOUS
<1>11. a[i] = 0 BY <1>5, <1>7, <1>10
<1>12. Amounts(n, a) /\ Amounts(n, b)
  <2>1. \A j \in 0 .. n - 1 : G(u, j).nodeCount \in Nat
    <3> TAKE j \in 0 .. n - 1
    <3>1. G(t, j).nodeCount \in Nat /\ G(t, i).nodeCount \in Nat BY <1>3, <1>5
    <3>2. G(u, j).nodeCount = G(t, j).nodeCount + G(t, i).nodeCount \/ G(u, j).nodeCount = G(t, j).nodeCount
      BY <1>1
    <3> QED BY <3>1, <3>2
  <2> QED BY <1>3, <1>7, <2>1 DEF Amounts
<1>13. PICK c \in Nat, m \in Nat : c = G(t, i).nodeCount /\ m = G(t, x).nodeCount BY <1>1, <1>3, <1>5
<1>a. PICK p : p = G(t, i).parentIndex OBVIOUS
<1>14. G(u, i).nodeCount = c
  <2>1. ASSUME D > 1 PROVE i # w[D - 1]
    <3>1. D - 1 \in 1 .. D /\ D \in 1 .. D BY <2>1
    <3>2. w[D - 1] < w[D] /\ w[D - 1] \in Nat /\ w[D] \in Nat BY <1>1, <1>4, <3>1, <2>1
    <3> QED BY <3>2
  <2> QED BY <1>1, <1>5, <1>13, <2>1
<1>15. b[i] = IF p = x THEN c ELSE 0 BY <1>5, <1>7, <1>13, <1>a, <1>14
<1>16. p = IF D = 1 THEN None ELSE w[D - 1] BY <1>4, <1>13, <1>a
<1>17. CASE p = x
  <2>1. D > 1
    <3>1. D # 1 BY <1>1, <1>16, <1>17
    <3> QED BY <3>1
  <2>2. G(u, x).nodeCount = m + c BY <1>1, <1>13, <1>16, <1>17, <2>1
  <2>3. SumOf(b, n) = SumOf(a, n) + c
    <3>1. b[i] = a[i] + c BY <1>11, <1>15, <1>17
    <3> QED BY <3>1, <1>1, <1>5, <1>9, <1>12, SumChange
  <2>4. SumOf(a, n) \in Int BY <1>1, <1>12, SumInt
  <2>5. PICK z \in Int : z = SumOf(a, n) BY <2>4
  <2>6. Own(t, w, x) = m - z BY <1>8, <1>13, <2>5
  <2>7. Own(u, w2, x) = (m + c) - (z + c) BY <1>8, <2>2, <2>3, <2>5
  <2> QED BY <2>6, <2>7
<1>18. CASE p # x
  <2>1. ~(D > 1 /\ x = w[D - 1]) BY <1>16, <1>18
  <2>2. G(u, x).nodeCount = m BY <1>1, <1>13, <2>1
  <2>3. DOMAIN a = 0 .. n - 1 /\ DOMAIN b = 0 .. n - 1 BY <1>1, <1>2, <1>6 DEF Gifts
  <2>4. a = [j \in 0 .. n - 1 |-> a[j]] /\ b = [j \in 0 .. n - 1 |-> b[j]] BY <2>3, <1>1, <1>2, <1>6 DEF Gifts
  <2>5. \A j \in 0 .. n - 1 : b[j] = a[j] BY <1>9, <1>11, <1>15, <1>18
  <2>6. b = a BY <2>4, <2>5
  <2> QED BY <1>8, <1>13, <1>a, <2>2, <2>6
<1> QED BY <1>17, <1>18

LEMMA EndsAGroup == ASSUME TableInv, GroupEnd PROVE TableInv' /\ Abstract!Finish
<1>1. PICK t, w, u, w2, D, i : /\ t = table /\ w = writer /\ u = table' /\ w2 = Front(w)
                               /\ D = Depth /\ i = w[D] OBVIOUS
<1>2. /\ TableInv' /\ writer' = w2 /\ D \in 1 .. D /\ Len(w2) = D - 1
      /\ SameButNodes(t, u) /\ u.groupGapStart = t.groupGapStart
      /\ OpenIn(w) = OpenIn(w2) \union {i} /\ i \notin OpenIn(w2)
      /\ \A j \in 0 .. Count(t) - 1 :
           G(u, j).nodeCount = IF D > 1 /\ j = w[D - 1]
                               THEN G(t, j).nodeCount + G(t, i).nodeCount ELSE G(t, j).nodeCount
  BY <1>1, GroupEndStep
<1>3. /\ Forest = View(t, w) /\ Forest' = View(u, w2) /\ Depth = Len(w) /\ Depth' = Len(w2)
      /\ Consistent(t, w, reader, walk) /\ Typed(t) /\ Laid(t) /\ Count(t) \in Nat /\ Len(w) \in Nat
  BY <1>1, <1>2, Stands
<1>4. D = Len(w) /\ D \in Nat BY <1>1, <1>3
<1>5. \A x \in 0 .. Count(t) - 1 : Own(u, w2, x) = Own(t, w, x)
  BY <1>1, <1>2, <1>3, <1>4, OwnKept
<1>6. Count(u) = Count(t) /\ UpOf(u) = UpOf(t) /\ \A x \in 0 .. Count(t) - 1 : WordsOf(u, x) = WordsOf(t, x)
  BY <1>2, <1>3, SameParts
<1>7. \A x \in 0 .. Count(t) - 1 : Entry(u, w2, x) = Entry(t, w, x)
  BY <1>2, <1>5, <1>6 DEF Entry, SameButNodes
<1>8. View(u, w2) = View(t, w)
  <2>1. \A k \in 1 .. Count(t) : k - 1 \in 0 .. Count(t) - 1 BY <1>3
  <2> QED BY <1>6, <1>7, <2>1 DEF View
<1>9. Depth > 0 /\ Depth' = Depth - 1 BY <1>1, <1>2, <1>3, <1>4
<1> QED BY <1>1, <1>2, <1>3, <1>8, <1>9 DEF Abstract!Finish

LEMMA ViewFun ==
  ASSUME NEW t, NEW w
  PROVE  View(t, w) = [k \in 1 .. Count(t) |-> View(t, w)[k]]
<1>1. \A k \in 1 .. Count(t) : View(t, w)[k] = Entry(t, w, k - 1) BY DEF View
<1>2. View(t, w) = [k \in 1 .. Count(t) |-> Entry(t, w, k - 1)] BY DEF View
<1> QED BY <1>1, <1>2

\* One entry of a list is changed.
LEMMA OneChanged ==
  ASSUME NEW S, NEW f, NEW g, f = [k \in S |-> f[k]], g = [k \in S |-> g[k]], NEW i \in S, NEW e,
         g[i] = e, \A k \in S : k # i => g[k] = f[k]
  PROVE  g = [f EXCEPT ![i] = e]
<1>1. DOMAIN f = S /\ DOMAIN g = S OBVIOUS
<1>2. PICK h : h = [f EXCEPT ![i] = e] OBVIOUS
<1>3. DOMAIN h = S /\ \A k \in S : h[k] = IF k = i THEN e ELSE f[k] BY <1>1, <1>2
<1>4. \A k \in S : h[k] = g[k] BY <1>3
<1>5. h = [k \in S |-> h[k]] BY <1>1, <1>2
<1>6. h = g BY <1>4, <1>5
<1> QED BY <1>2, <1>6

\* What a group emitted itself.
LEMMA OwnIs ==
  ASSUME NEW t, NEW w, Typed(t), NEW x \in 0 .. Count(t) - 1
  PROVE  /\ Own(t, w, x) = G(t, x).nodeCount - SumOf(Gifts(t, w, x), Count(t))
         /\ Amounts(Count(t), Gifts(t, w, x)) /\ SumOf(Gifts(t, w, x), Count(t)) \in Int
         /\ \A j \in 0 .. Count(t) - 1 :
              Gifts(t, w, x)[j] = IF G(t, j).parentIndex = x /\ j \notin OpenIn(w) THEN G(t, j).nodeCount ELSE 0
         /\ Own(t, w, x) \in Int
<1>1. \A j \in 0 .. Count(t) - 1 : G(t, j).nodeCount \in Nat BY TypedIs, GroupFields
<1>2. \A j \in 0 .. Count(t) - 1 :
        Gifts(t, w, x)[j] = IF G(t, j).parentIndex = x /\ j \notin OpenIn(w) THEN G(t, j).nodeCount ELSE 0
  BY DEF Gifts
<1>3. Amounts(Count(t), Gifts(t, w, x)) BY <1>1, <1>2 DEF Amounts
<1>4. Count(t) \in Nat BY TypedIs
<1>5. SumOf(Gifts(t, w, x), Count(t)) \in Int BY <1>3, <1>4, SumInt
<1>6. Own(t, w, x) = G(t, x).nodeCount - SumOf(Gifts(t, w, x), Count(t)) BY DEF Own
<1>7. Own(t, w, x) \in Int
  <2>1. PICK a \in Nat, z \in Int : a = G(t, x).nodeCount /\ z = SumOf(Gifts(t, w, x), Count(t))
    <3>1. G(t, x).nodeCount \in Nat BY <1>1
    <3> QED BY <3>1, <1>5
  <2>2. a - z \in Int OBVIOUS
  <2> QED BY <1>6, <2>1, <2>2
<1> QED BY <1>2, <1>3, <1>5, <1>6, <1>7

\* Where the writer is, as levels tell it.
LEMMA WriterAt ==
  ASSUME NEW t, NEW w, NEW r, NEW wk, Consistent(t, w, r, wk), NEW D \in Nat, D = Len(w), D > 0
  PROVE  /\ w[D] \in 0 .. t.groupGapStart - 1 /\ w[D] \in 0 .. Count(t) - 1 /\ w[D] \in OpenIn(w)
         /\ Level(UpOf(t))[w[D]] = D - 1
         /\ \A j \in w[D] + 1 .. t.groupGapStart - 1 : Level(UpOf(t))[j] >= D
<1>1. PICK n, gs, up, end, L : /\ n = Count(t) /\ gs = t.groupGapStart /\ up = UpOf(t) /\ end = EndsOf(t, w)
                               /\ L = Level(UpOf(t)) OBVIOUS
<1>2. n \in Nat /\ gs \in 0 .. n /\ n \in Sizes /\ Nested(n, up, end) BY <1>1, TreeIs
<1>3. w \in Seq(0 .. GroupCapacity - 1) /\ Path(up, end, w, gs) BY <1>1 DEF Consistent, WriterOK
<1>4. Levels(n, up, L) BY <1>1, LevelsOf
<1>5. D \in 1 .. Len(w) /\ D \in DOMAIN w BY <1>3
<1>6. w[D] \in 0 .. gs - 1 BY <1>3, <1>5 DEF Path
<1>7. w[D] \in OpenIn(w) BY <1>5 DEF OpenIn
<1>8. w[D] \in 0 .. n - 1 BY <1>2, <1>6
<1>9. L[w[D]] = D - 1 BY <1>2, <1>3, <1>4, <1>5, PathLevels
<1>10. end[w[D]] = gs BY <1>1, <1>7, <1>8, TreeIs
<1>11. \A j \in w[D] + 1 .. gs - 1 : L[j] > L[w[D]]
  BY <1>2, <1>4, <1>8, <1>10, LevelsBelow
<1>12. \A j \in w[D] + 1 .. gs - 1 : L[j] >= D
  <2> TAKE j \in w[D] + 1 .. gs - 1
  <2>1. j \in 0 .. n - 1 BY <1>2, <1>8
  <2>2. L[j] \in Nat BY <1>4, <2>1 DEF Levels
  <2>3. L[j] > D - 1 BY <1>9, <1>11
  <2> QED BY <2>2, <2>3
<1> QED BY <1>1, <1>6, <1>7, <1>8, <1>9, <1>12

LEMMA EmitsANode == ASSUME TableInv, NodeEmit PROVE TableInv' /\ \E i \in DOMAIN Forest : Abstract!Emit(i)
<1>1. PICK t, w, u, D, x : t = table /\ w = writer /\ u = table' /\ D = Depth /\ x = w[D] OBVIOUS
<1>2. /\ TableInv' /\ writer' = w /\ D \in 1 .. D
      /\ SameButNodes(t, u) /\ u.groupGapStart = t.groupGapStart
      /\ \A j \in 0 .. Count(t) - 1 : G(u, j).nodeCount = G(t, j).nodeCount + (IF j = x THEN 1 ELSE 0)
  BY <1>1, NodeEmitStep
<1>3. /\ Forest = View(t, w) /\ Forest' = View(u, w) /\ Depth = Len(w) /\ Depth' = Len(w)
      /\ Consistent(t, w, reader, walk) /\ Typed(t) /\ Laid(t) /\ Typed(u) /\ Count(t) \in Nat /\ Len(w) \in Nat
  BY <1>1, <1>2, Stands
<1>4. D = Len(w) /\ D \in Nat /\ D > 0 BY <1>1, <1>2, <1>3
<1>5. PICK n, gs, L : n = Count(t) /\ gs = t.groupGapStart /\ L = Level(UpOf(t)) OBVIOUS
<1>6. /\ x \in 0 .. gs - 1 /\ x \in 0 .. n - 1 /\ x \in OpenIn(w) /\ L[x] = D - 1
      /\ \A j \in x + 1 .. gs - 1 : L[j] >= D
  BY <1>1, <1>3, <1>4, <1>5, WriterAt
<1>7. n \in Nat /\ gs \in 0 .. n BY <1>3, <1>5, TreeIs
<1>8. Count(u) = n /\ UpOf(u) = UpOf(t) /\ \A k \in 0 .. n - 1 : WordsOf(u, k) = WordsOf(t, k)
  BY <1>2, <1>3, <1>5, SameParts
<1>9. ASSUME NEW k \in 0 .. n - 1 PROVE Own(u, w, k) = Own(t, w, k) + (IF k = x THEN 1 ELSE 0)
  <2>1. ASSUME NEW j \in 0 .. n - 1
        PROVE  (IF G(u, j).parentIndex = k /\ j \notin OpenIn(w) THEN G(u, j).nodeCount ELSE 0)
                 = (IF G(t, j).parentIndex = k /\ j \notin OpenIn(w) THEN G(t, j).nodeCount ELSE 0)
    <3>1. G(u, j).parentIndex = G(t, j).parentIndex BY <1>2, <1>5 DEF SameButNodes
    <3>2. CASE j = x BY <3>2, <1>6
    <3>3. CASE j # x
      <4>1. G(t, j).nodeCount \in Nat BY <1>3, <1>5, TypedIs, GroupFields
      <4>2. G(u, j).nodeCount = G(t, j).nodeCount BY <1>2, <1>5, <3>3, <4>1
      <4> QED BY <3>1, <4>2
    <3> QED BY <3>2, <3>3
  <2>2. Gifts(u, w, k) = Gifts(t, w, k) BY <1>5, <1>8, <2>1 DEF Gifts
  <2>3. PICK a \in Nat, z \in Int : a = G(t, k).nodeCount /\ z = SumOf(Gifts(t, w, k), n)
    <3>1. G(t, k).nodeCount \in Nat BY <1>3, <1>5, TypedIs, GroupFields
    <3>2. SumOf(Gifts(t, w, k), n) \in Int BY <1>3, <1>5, OwnIs
    <3> QED BY <3>1, <3>2
  <2>4. Own(t, w, k) = a - z BY <1>5, <2>3 DEF Own
  <2>5. Own(u, w, k) = (a + (IF k = x THEN 1 ELSE 0)) - z BY <1>2, <1>5, <1>8, <2>2, <2>3 DEF Own
  <2> QED BY <2>4, <2>5
<1>10. PICK i, f, g, e : i = x + 1 /\ f = View(t, w) /\ g = View(u, w) /\ e = Entry(u, w, x) OBVIOUS
<1>11. i \in 1 .. n /\ i - 1 = x /\ i <= gs BY <1>6, <1>7, <1>10
<1>12. \A k \in 1 .. n : f[k] = Entry(t, w, k - 1) /\ g[k] = Entry(u, w, k - 1)
  BY <1>3, <1>5, <1>8, <1>10, ViewIs
<1>13. e = [f[i] EXCEPT !.nodes = f[i].nodes + 1]
  <2>1. Own(u, w, x) = Own(t, w, x) + 1 BY <1>6, <1>9
  <2>2. G(u, x).key = G(t, x).key BY <1>2, <1>5, <1>6 DEF SameButNodes
  <2>3. WordsOf(u, x) = WordsOf(t, x) BY <1>6, <1>8
  <2>4. f[i] = Entry(t, w, x) BY <1>11, <1>12
  <2> QED BY <1>8, <1>10, <2>1, <2>2, <2>3, <2>4 DEF Entry
<1>14. ASSUME NEW k \in 1 .. n, k # i PROVE g[k] = f[k]
  <2>1. k - 1 \in 0 .. n - 1 /\ k - 1 # x BY <1>7, <1>11, <1>14
  <2>2. Own(t, w, k - 1) \in Int BY <1>3, <1>5, <2>1, OwnIs
  <2>3. Own(u, w, k - 1) = Own(t, w, k - 1) BY <1>9, <2>1, <2>2
  <2>4. G(u, k - 1).key = G(t, k - 1).key BY <1>2, <1>5, <2>1 DEF SameButNodes
  <2>5. WordsOf(u, k - 1) = WordsOf(t, k - 1) BY <1>8, <2>1
  <2>6. Entry(u, w, k - 1) = Entry(t, w, k - 1) BY <1>8, <2>3, <2>4, <2>5 DEF Entry
  <2> QED BY <1>12, <2>6
<1>15. g = [f EXCEPT ![i] = e]
  <2>1. f = [k \in 1 .. n |-> f[k]] /\ g = [k \in 1 .. n |-> g[k]] BY <1>5, <1>8, <1>10, ViewFun
  <2>2. g[i] = e BY <1>10, <1>11, <1>12
  <2> QED BY <1>11, <1>14, <2>1, <2>2, OneChanged
<1>16. g = [f EXCEPT ![i].nodes = f[i].nodes + 1] BY <1>13, <1>15
<1>17. f[i].depth = D - 1
  <2>1. f[i] = Entry(t, w, x) BY <1>11, <1>12
  <2> QED BY <1>5, <1>6, <2>1 DEF Entry
<1>18. ASSUME NEW j \in i + 1 .. gs PROVE f[j].depth >= D
  <2>1. j \in 1 .. n /\ j - 1 \in x + 1 .. gs - 1 BY <1>7, <1>11
  <2>2. f[j] = Entry(t, w, j - 1) BY <1>12, <2>1
  <2>3. f[j].depth = L[j - 1] BY <1>5, <2>2 DEF Entry
  <2> QED BY <1>6, <2>1, <2>3
<1>19. DOMAIN f = 1 .. n BY <1>3, <1>5, <1>10, ViewIs
<1>20. Abstract!Emit(i)
  BY <1>1, <1>2, <1>3, <1>4, <1>5, <1>10, <1>11, <1>16, <1>17, <1>18 DEF Abstract!Emit
<1> QED BY <1>2, <1>3, <1>10, <1>11, <1>19, <1>20

-----------------------------------------------------------------------------
(* A group is inserted.                                                    *)

LEMMA InsertAtIs ==
  ASSUME NEW S, NEW f \in Seq(S), NEW e \in S, NEW at \in 0 .. Len(f), NEW g \in Seq(S), Len(g) = Len(f) + 1,
         \A k \in 1 .. Len(g) : g[k] = IF k <= at THEN f[k] ELSE IF k = at + 1 THEN e ELSE f[k - 1]
  PROVE  g = InsertAt(f, at + 1, e)
<1>1. PICK n \in Nat : n = Len(f) BY LenProperties
<1>2. at \in Nat /\ at <= n BY <1>1
<1>3. \A k \in 1 .. n : f[k] \in S BY <1>1, ElementOfSeq
<1>4. PICK a, b, c : a = SubSeq(f, 1, (at + 1) - 1) /\ b = <<e>> /\ c = SubSeq(f, at + 1, Len(f)) OBVIOUS
<1>5. a \in Seq(S) /\ Len(a) = at /\ \A i \in 1 .. at : a[i] = f[i]
  <2>1. (at + 1) - 1 = at /\ at \in Int /\ 1 \in Int BY <1>2
  <2>2. \A i \in 1 .. at : f[i] \in S
    <3>1. \A i \in 1 .. at : i \in 1 .. n BY <1>2
    <3> QED BY <1>3, <3>1
  <2>3. /\ SubSeq(f, 1, at) \in Seq(S) /\ Len(SubSeq(f, 1, at)) = (IF 1 <= at THEN at - 1 + 1 ELSE 0)
        /\ \A i \in 1 .. at - 1 + 1 : SubSeq(f, 1, at)[i] = f[1 + i - 1]
    BY <2>1, <2>2, SubSeqProperties
  <2>4. a = SubSeq(f, 1, at) BY <1>4, <2>1
  <2>5. (IF 1 <= at THEN at - 1 + 1 ELSE 0) = at /\ at - 1 + 1 = at BY <1>2
  <2>6. ASSUME NEW i \in 1 .. at PROVE a[i] = f[i]
    <3>1. 1 + i - 1 = i BY <1>2
    <3> QED BY <2>3, <2>4, <2>5, <3>1
  <2> QED BY <2>3, <2>4, <2>5, <2>6
<1>6. c \in Seq(S) /\ Len(c) = n - at /\ \A i \in 1 .. n - at : c[i] = f[at + i]
  <2>1. at + 1 \in Int /\ n \in Int BY <1>2
  <2>2. \A i \in at + 1 .. n : f[i] \in S
    <3>1. \A i \in at + 1 .. n : i \in 1 .. n BY <1>2
    <3> QED BY <1>3, <3>1
  <2>3. /\ SubSeq(f, at + 1, n) \in Seq(S)
        /\ Len(SubSeq(f, at + 1, n)) = (IF at + 1 <= n THEN n - (at + 1) + 1 ELSE 0)
        /\ \A i \in 1 .. n - (at + 1) + 1 : SubSeq(f, at + 1, n)[i] = f[(at + 1) + i - 1]
    BY <2>1, <2>2, SubSeqProperties
  <2>4. c = SubSeq(f, at + 1, n) BY <1>1, <1>4
  <2>5. (IF at + 1 <= n THEN n - (at + 1) + 1 ELSE 0) = n - at /\ n - (at + 1) + 1 = n - at BY <1>2
  <2>6. ASSUME NEW i \in 1 .. n - at PROVE c[i] = f[at + i]
    <3>1. (at + 1) + i - 1 = at + i BY <1>2
    <3> QED BY <2>3, <2>4, <2>5, <3>1
  <2> QED BY <2>3, <2>4, <2>5, <2>6
<1>7. b \in Seq(S) /\ Len(b) = 1 /\ b[1] = e BY <1>4
<1>8. PICK d : d = a \o b OBVIOUS
<1>9. /\ d \in Seq(S) /\ Len(d) = at + 1
      /\ \A i \in 1 .. at + 1 : d[i] = IF i <= at THEN a[i] ELSE b[i - at]
  <2>1. /\ a \o b \in Seq(S) /\ Len(a \o b) = Len(a) + Len(b)
        /\ \A i \in 1 .. Len(a) + Len(b) : (a \o b)[i] = IF i <= Len(a) THEN a[i] ELSE b[i - Len(a)]
    BY <1>5, <1>7, ConcatProperties
  <2>2. Len(a) = at /\ Len(b) = 1 BY <1>5, <1>7
  <2> QED BY <1>8, <2>1, <2>2
<1>10. PICK h : h = d \o c OBVIOUS
<1>11. /\ h \in Seq(S) /\ Len(h) = (at + 1) + (n - at)
       /\ \A i \in 1 .. (at + 1) + (n - at) : h[i] = IF i <= at + 1 THEN d[i] ELSE c[i - (at + 1)]
  <2>1. /\ d \o c \in Seq(S) /\ Len(d \o c) = Len(d) + Len(c)
        /\ \A i \in 1 .. Len(d) + Len(c) : (d \o c)[i] = IF i <= Len(d) THEN d[i] ELSE c[i - Len(d)]
    BY <1>6, <1>9, ConcatProperties
  <2>2. Len(d) = at + 1 /\ Len(c) = n - at BY <1>6, <1>9
  <2> QED BY <1>10, <2>1, <2>2
<1>12. (at + 1) + (n - at) = n + 1 BY <1>2
<1>13. ASSUME NEW k \in 1 .. n + 1 PROVE h[k] = g[k]
  <2>1. CASE k <= at
    <3>1. k \in 1 .. at /\ k <= at + 1 /\ k \in 1 .. at + 1 BY <1>2, <2>1
    <3>2. h[k] = a[k] BY <1>9, <1>11, <1>12, <3>1
    <3> QED BY <1>1, <1>5, <2>1, <3>1, <3>2
  <2>2. CASE k = at + 1
    <3>1. ~(k <= at) /\ k <= at + 1 /\ k \in 1 .. at + 1 /\ k - at = 1 BY <1>2, <2>2
    <3>2. h[k] = e BY <1>7, <1>9, <1>11, <1>12, <3>1
    <3> QED BY <1>1, <2>2, <3>1, <3>2
  <2>3. CASE k > at + 1
    <3>1. ~(k <= at) /\ ~(k <= at + 1) /\ k # at + 1 /\ k - (at + 1) \in 1 .. n - at /\ at + (k - (at + 1)) = k - 1
      BY <1>2, <2>3
    <3>2. h[k] = c[k - (at + 1)] BY <1>11, <1>12, <3>1
    <3>3. h[k] = f[k - 1] BY <1>6, <3>1, <3>2
    <3> QED BY <1>1, <3>1, <3>3
  <2> QED BY <1>2, <2>1, <2>2, <2>3
<1>14. h = g BY <1>1, <1>11, <1>12, <1>13, SeqEqual
<1> QED BY <1>4, <1>8, <1>10, <1>14 DEF InsertAt

\* No group gets nodes, and the new one has none.
LEMMA OwnInserted ==
  ASSUME NEW t, NEW w, NEW r, NEW wk, Consistent(t, w, r, wk),
         NEW u, NEW w2, NEW r2, NEW wk2, Consistent(u, w2, r2, wk2), NEW key, Inserted(t, w, u, w2, key)
  PROVE  /\ \A x \in 0 .. Count(t) - 1 :
              Own(u, w2, IF x < t.groupGapStart THEN x ELSE x + 1) = Own(t, w, x)
         /\ Own(u, w2, t.groupGapStart) = 0
<1>1. PICK n \in Nat, gs \in Nat : n = Count(t) /\ gs = t.groupGapStart
  <2>1. Count(t) \in Nat /\ t.groupGapStart \in Nat BY TreeIs
  <2> QED BY <2>1
<1>a. PICK up, up2, end, end2, open, parent :
        /\ up = UpOf(t) /\ up2 = UpOf(u) /\ end = EndsOf(t, w) /\ end2 = EndsOf(u, w2) /\ open = OpenIn(w)
        /\ parent = IF Len(w) = 0 THEN None ELSE w[Len(w)]
  OBVIOUS
<1>2. /\ Inserts(n, up, end, gs, open, parent, up2, end2)
      /\ Count(u) = n + 1 /\ OpenIn(w2) = open \union {gs}
  BY <1>1, <1>a DEF Inserted
<1>3. gs <= n /\ None \in Nat /\ None > n + 1 BY <1>1, <1>2, TreeIs, GapTableAssumption DEF Inserts, None
<1>4. /\ \A i \in gs .. n - 1 : up[i] = None \/ up[i] >= gs
      /\ \A i \in 0 .. gs - 1 : up[i] = None \/ up[i] < gs
  BY <1>2, InsertNested
<1>5. /\ \A i \in 0 .. n - 1 : up[i] \in Nat
      /\ \A i \in 0 .. n : up2[i] = IF i < gs THEN up[i]
                                 ELSE IF i = gs THEN parent
                                 ELSE IF up[i - 1] = None THEN None ELSE up[i - 1] + 1
      /\ open \subseteq 0 .. gs - 1
  BY <1>2 DEF Inserts, Nested
<1>6. Typed(t) /\ Typed(u) BY DEF Consistent
<1>7. (n + 1) - 1 = n OBVIOUS
<1>8. /\ \A j \in 0 .. n - 1 : G(t, j).parentIndex = up[j]
      /\ \A j \in 0 .. n : G(u, j).parentIndex = up2[j]
  BY <1>1, <1>a, <1>2, <1>7 DEF UpOf
<1>9. ASSUME NEW x \in 0 .. n - 1 PROVE Own(u, w2, IF x < gs THEN x ELSE x + 1) = Own(t, w, x)
  <2>1. PICK y \in 0 .. n : y = IF x < gs THEN x ELSE x + 1
    <3>1. (IF x < gs THEN x ELSE x + 1) \in 0 .. n OBVIOUS
    <3> QED BY <3>1
  <2>2. PICK a, b : a = Gifts(t, w, x) /\ b = Gifts(u, w2, y) OBVIOUS
  <2>3. /\ Own(t, w, x) = G(t, x).nodeCount - SumOf(a, n) /\ Amounts(n, a)
        /\ \A j \in 0 .. n - 1 : a[j] = IF up[j] = x /\ j \notin open THEN G(t, j).nodeCount ELSE 0
    BY <1>1, <1>a, <1>6, <1>8, <2>2, OwnIs
  <2>4. /\ Own(u, w2, y) = G(u, y).nodeCount - SumOf(b, n + 1) /\ Amounts(n + 1, b)
        /\ \A j \in 0 .. n : b[j] = IF up2[j] = y /\ j \notin open \union {gs} THEN G(u, j).nodeCount ELSE 0
    <3>1. y \in 0 .. Count(u) - 1 BY <1>2, <1>7
    <3> QED BY <1>2, <1>6, <1>7, <1>8, <2>2, <3>1, OwnIs
  <2>5. b[gs] = 0
    <3>1. gs \in 0 .. n /\ gs \in open \union {gs} BY <1>3
    <3> QED BY <2>4, <3>1
  <2>6. ASSUME NEW k \in 0 .. n - 1 PROVE b[IF k < gs THEN k ELSE k + 1] = a[k]
    <3>1. CASE k < gs
      <4>1. k \in 0 .. n /\ k \in 0 .. gs - 1 /\ k # gs BY <3>1
      <4>2. up2[k] = up[k] BY <1>5, <3>1, <4>1
      <4>3. k \in open <=> k \in open \union {gs} BY <4>1
      <4>4. G(u, k).nodeCount = G(t, k).nodeCount BY <1>1, <3>1, <4>1 DEF Inserted
      <4>5. up[k] = x <=> up[k] = y
        <5>1. PICK v \in Nat : v = up[k] BY <1>5
        <5>2. v = None \/ v < gs BY <1>4, <4>1, <5>1
        <5>3. CASE x < gs BY <2>1, <5>3
        <5>4. CASE ~(x < gs)
          <6>1. y = x + 1 BY <2>1, <5>4
          <6> QED BY <1>3, <5>1, <5>2, <5>4, <6>1
        <5> QED BY <5>3, <5>4
      <4> QED BY <2>3, <2>4, <3>1, <4>1, <4>2, <4>3, <4>4, <4>5
    <3>2. CASE ~(k < gs)
      <4>1. /\ k + 1 \in 0 .. n /\ k \in gs .. n - 1 /\ ~(k + 1 < gs) /\ k + 1 # gs /\ (k + 1) - 1 = k /\ k + 1 > gs
            /\ k \notin 0 .. gs - 1 /\ k + 1 \notin 0 .. gs - 1
        BY <3>2
      <4>2. PICK v \in Nat : v = up[k] BY <1>5
      <4>3. up2[k + 1] = IF v = None THEN None ELSE v + 1 BY <1>5, <4>1, <4>2
      <4>4. k \notin open /\ k + 1 \notin open \union {gs} BY <1>5, <4>1
      <4>5. G(u, k + 1).nodeCount = G(t, k).nodeCount BY <1>1, <4>1 DEF Inserted
      <4>6. up2[k + 1] = y <=> up[k] = x
        <5>1. v = None \/ v >= gs BY <1>4, <4>1, <4>2
        <5>2. CASE x < gs
          <6>1. y = x BY <2>1, <5>2
          <6> QED BY <1>3, <4>2, <4>3, <5>1, <5>2, <6>1
        <5>3. CASE ~(x < gs)
          <6>1. y = x + 1 BY <2>1, <5>3
          <6> QED BY <1>3, <4>2, <4>3, <5>1, <5>3, <6>1
        <5> QED BY <5>2, <5>3
      <4> QED BY <2>3, <2>4, <3>2, <4>1, <4>4, <4>5, <4>6
    <3> QED BY <3>1, <3>2
  <2>7. SumOf(b, n + 1) = SumOf(a, n)
    <3>1. gs \in 0 .. n BY <1>3
    <3> QED BY <2>3, <2>4, <2>5, <2>6, <3>1, SumInsert
  <2>8. G(u, y).nodeCount = G(t, x).nodeCount
    <3>1. CASE x < gs
      <4>1. x \in 0 .. n BY <3>1
      <4> QED BY <1>1, <2>1, <3>1, <4>1 DEF Inserted
    <3>2. CASE ~(x < gs)
      <4>1. x + 1 \in 0 .. n /\ x + 1 > gs /\ (x + 1) - 1 = x BY <3>2
      <4> QED BY <1>1, <2>1, <3>2, <4>1 DEF Inserted
    <3> QED BY <3>1, <3>2
  <2> QED BY <2>1, <2>3, <2>4, <2>7, <2>8
<1>10. Own(u, w2, gs) = 0
  <2>1. gs \in 0 .. Count(u) - 1 /\ gs \in 0 .. n BY <1>2, <1>3
  <2>2. PICK b : b = Gifts(u, w2, gs) OBVIOUS
  <2>3. /\ Own(u, w2, gs) = G(u, gs).nodeCount - SumOf(b, n + 1)
        /\ \A j \in 0 .. n : b[j] = IF up2[j] = gs /\ j \notin open \union {gs} THEN G(u, j).nodeCount ELSE 0
    BY <1>2, <1>6, <1>7, <1>8, <2>1, <2>2, OwnIs
  <2>4. ASSUME NEW j \in 0 .. n PROVE b[j] = 0
    <3>1. CASE j < gs
      <4>1. j \in 0 .. gs - 1 /\ j \in 0 .. n - 1 BY <1>3, <3>1
      <4>2. up2[j] # gs BY <1>3, <1>4, <1>5, <3>1, <4>1
      <4> QED BY <2>3, <4>2
    <3>2. CASE j = gs BY <2>3, <3>2
    <3>3. CASE j > gs
      <4>1. j - 1 \in gs .. n - 1 /\ j - 1 \in 0 .. n - 1 /\ ~(j < gs) /\ j # gs BY <1>3, <3>3
      <4>2. PICK v \in Nat : v = up[j - 1] BY <1>5, <4>1
      <4>3. v = None \/ v >= gs BY <1>4, <4>1, <4>2
      <4>4. up2[j] = IF v = None THEN None ELSE v + 1 BY <1>5, <4>1, <4>2
      <4>5. up2[j] # gs BY <1>3, <4>3, <4>4
      <4> QED BY <2>3, <4>5
    <3> QED BY <3>1, <3>2, <3>3
  <2>5. SumOf(b, n + 1) = 0
    <3>1. n + 1 \in Nat BY <1>7
    <3> QED BY <1>7, <2>4, <3>1, SumZero
  <2>6. G(u, gs).nodeCount = 0 BY <1>1, <2>1 DEF Inserted
  <2> QED BY <2>3, <2>5, <2>6
<1> QED BY <1>1, <1>a, <1>9, <1>10

LEMMA StartsAGroup ==
  ASSUME TableInv, NEW key \in Keys, GroupStart(key) PROVE TableInv' /\ Abstract!Insert(key)
<1>1. PICK t, w, u, w2 : t = table /\ w = writer /\ u = table' /\ w2 = writer' OBVIOUS
<1>2. TableInv' /\ Count(t) < GroupCapacity /\ Depth < MaxDepth /\ Inserted(t, w, u, w2, key)
  BY <1>1, GroupStartStep
<1>3. /\ Forest = View(t, w) /\ Forest' = View(u, w2) /\ Depth = Len(w) /\ Depth' = Len(w2)
      /\ Consistent(t, w, reader, walk) /\ Consistent(u, w2, reader', walk') /\ Typed(t) /\ Typed(u)
      /\ Count(t) \in Nat /\ Len(w) \in Nat
  BY <1>1, <1>2, Stands
<1>4. PICK n \in Nat, gs \in Nat, D \in Nat : n = Count(t) /\ gs = t.groupGapStart /\ D = Len(w)
  BY <1>3, TreeIs
<1>a. PICK L, L2, f, g : /\ L = Level(UpOf(t)) /\ L2 = Level(UpOf(u))
                         /\ f = View(t, w) /\ g = View(u, w2) OBVIOUS
<1>5. gs \in 0 .. n /\ Count(u) = n + 1 /\ (n + 1) - 1 = n /\ Len(w2) = D + 1 /\ u.groupGapStart = gs + 1
  BY <1>2, <1>3, <1>4, TreeIs DEF Inserted
<1>6. /\ \A x \in 0 .. n - 1 : Own(u, w2, IF x < gs THEN x ELSE x + 1) = Own(t, w, x)
      /\ Own(u, w2, gs) = 0
  BY <1>2, <1>3, <1>4, OwnInserted
<1>7. /\ \A i \in 0 .. n : i < gs => L2[i] = L[i]
      /\ \A i \in 0 .. n : i > gs => L2[i] = L[i - 1]
      /\ L2[gs] = D
  <2>1. Levels(n, UpOf(t), L) BY <1>3, <1>4, <1>a, LevelsOf
  <2>2. Levels(n + 1, UpOf(u), L2) BY <1>3, <1>4, <1>a, <1>5, LevelsOf
  <2>3. PICK parent : parent = IF Len(w) = 0 THEN None ELSE w[Len(w)] OBVIOUS
  <2>4. Inserts(n, UpOf(t), EndsOf(t, w), gs, OpenIn(w), parent, UpOf(u), EndsOf(u, w2))
    BY <1>2, <1>4, <2>3 DEF Inserted
  <2>5. /\ \A i \in 0 .. n : i < gs => L2[i] = L[i]
        /\ \A i \in 0 .. n : i > gs => L2[i] = L[i - 1]
        /\ L2[gs] = IF parent = None THEN 0 ELSE L[parent] + 1
    BY <2>1, <2>2, <2>4, LevelsInserted
  <2>6. L2[gs] = D
    <3>1. CASE D = 0 BY <1>4, <2>3, <2>5, <3>1
    <3>2. CASE D # 0
      <4>1. D > 0 BY <3>2
      <4>2. parent = w[D] BY <1>4, <2>3, <3>2
      <4>3. parent \in 0 .. n - 1 /\ L[parent] = D - 1 BY <1>3, <1>4, <1>a, <4>1, <4>2, WriterAt
      <4>4. parent # None
        <5>1. None > n /\ None \in Nat BY <1>3, <1>4, TreeIs
        <5> QED BY <4>3, <5>1
      <4> QED BY <2>5, <4>3, <4>4
    <3> QED BY <3>1, <3>2
  <2> QED BY <2>5, <2>6
<1>8. /\ \A k \in 1 .. n : f[k] = Entry(t, w, k - 1)
      /\ \A k \in 1 .. n + 1 : g[k] = Entry(u, w2, k - 1)
  <2>1. Count(u) \in Nat BY <1>4, <1>5
  <2> QED BY <1>3, <1>4, <1>a, <1>5, <2>1, ViewIs
<1>9. PICK e : e = [key |-> key, depth |-> D, nodes |-> 0, values |-> <<>>] OBVIOUS
<1>10. ASSUME NEW k \in 1 .. n + 1
       PROVE  g[k] = IF k <= gs THEN f[k] ELSE IF k = gs + 1 THEN e ELSE f[k - 1]
  <2>1. CASE k <= gs
    <3>1. PICK i : i = k - 1 OBVIOUS
    <3>2. i \in 0 .. n /\ i < gs /\ i \in 0 .. n - 1 /\ k \in 1 .. n BY <1>5, <2>1, <3>1
    <3>3. G(u, i).key = G(t, i).key /\ G(u, i).slotCount = G(t, i).slotCount /\ Place(u, i) = Place(t, i)
      BY <1>2, <1>4, <3>2 DEF Inserted
    <3>4. \A j : W(u, j) = W(t, j) BY <1>2 DEF Inserted
    <3>5. WordsOf(u, i) = WordsOf(t, i) BY <3>3, <3>4 DEF WordsOf
    <3>6. Own(u, w2, i) = Own(t, w, i) BY <1>6, <3>2
    <3>7. L2[i] = L[i] BY <1>7, <3>2
    <3>8. Entry(u, w2, i) = Entry(t, w, i) BY <1>4, <1>a, <3>3, <3>5, <3>6, <3>7 DEF Entry
    <3> QED BY <1>8, <2>1, <3>1, <3>2, <3>8
  <2>2. CASE k = gs + 1
    <3>1. ~(k <= gs) /\ k - 1 = gs /\ gs \in 0 .. n BY <1>5, <2>2
    <3>2. G(u, gs).key = key /\ G(u, gs).slotCount = 0 BY <1>2, <1>4, <3>1 DEF Inserted
    <3>3. WordsOf(u, gs) = <<>>
      <4>1. 1 .. 0 = {} OBVIOUS
      <4>2. WordsOf(u, gs) = [i \in {} |-> W(u, Place(u, gs) + i - 1)] BY <3>2, <4>1 DEF WordsOf
      <4>3. <<>> = [i \in {} |-> W(u, Place(u, gs) + i - 1)] OBVIOUS
      <4> QED BY <4>2, <4>3
    <3>4. Entry(u, w2, gs) = e BY <1>4, <1>a, <1>6, <1>7, <1>9, <3>2, <3>3 DEF Entry
    <3> QED BY <1>8, <2>2, <3>1, <3>4
  <2>3. CASE k > gs + 1
    <3>1. PICK i : i = k - 1 OBVIOUS
    <3>2. /\ i \in 0 .. n /\ i > gs /\ i - 1 \in 0 .. n - 1 /\ i \in 1 .. n
          /\ ~(i - 1 < gs) /\ (i - 1) + 1 = i /\ ~(k <= gs) /\ k # gs + 1
      BY <1>5, <2>3, <3>1
    <3>3. /\ G(u, i).key = G(t, i - 1).key /\ G(u, i).slotCount = G(t, i - 1).slotCount
          /\ Place(u, i) = Place(t, i - 1)
      BY <1>2, <1>4, <3>2 DEF Inserted
    <3>4. \A j : W(u, j) = W(t, j) BY <1>2 DEF Inserted
    <3>5. WordsOf(u, i) = WordsOf(t, i - 1) BY <3>3, <3>4 DEF WordsOf
    <3>6. Own(u, w2, i) = Own(t, w, i - 1) BY <1>6, <3>2
    <3>7. L2[i] = L[i - 1] BY <1>7, <3>2
    <3>8. Entry(u, w2, i) = Entry(t, w, i - 1) BY <1>4, <1>a, <3>3, <3>5, <3>6, <3>7 DEF Entry
    <3> QED BY <1>8, <3>1, <3>2, <3>8
  <2> QED BY <1>5, <2>1, <2>2, <2>3
<1>11. PICK S : S = {f[k] : k \in 1 .. n} \union {e} OBVIOUS
<1>12. f \in Seq(S) /\ Len(f) = n
  <2>1. f = [k \in 1 .. n |-> f[k]] BY <1>4, <1>a, ViewFun
  <2>2. f \in [1 .. n -> S] BY <1>11, <2>1
  <2>3. f \in Seq(S) BY <2>2
  <2> QED BY <1>3, <1>4, <1>a, <2>3, ViewIs
<1>13. g \in Seq(S) /\ Len(g) = n + 1
  <2>1. g = [k \in 1 .. n + 1 |-> g[k]] BY <1>4, <1>a, <1>5, ViewFun
  <2>2. ASSUME NEW k \in 1 .. n + 1 PROVE g[k] \in S
    <3>1. CASE k <= gs
      <4>1. k \in 1 .. n BY <1>5, <3>1
      <4> QED BY <1>10, <1>11, <3>1, <4>1
    <3>2. CASE k = gs + 1
      <4>1. ~(k <= gs) BY <3>2
      <4> QED BY <1>10, <1>11, <3>2, <4>1
    <3>3. CASE k > gs + 1
      <4>1. ~(k <= gs) /\ k # gs + 1 /\ k - 1 \in 1 .. n BY <1>5, <3>3
      <4> QED BY <1>10, <1>11, <4>1
    <3> QED BY <1>5, <3>1, <3>2, <3>3
  <2>3. g \in [1 .. n + 1 -> S] BY <2>1, <2>2
  <2>4. n + 1 \in Nat /\ g \in Seq(S) BY <2>3
  <2> QED BY <1>3, <1>4, <1>a, <1>5, <2>4, ViewIs
<1>14. g = InsertAt(f, gs + 1, e)
  <2>1. e \in S BY <1>11
  <2>2. gs \in 0 .. Len(f) /\ Len(g) = Len(f) + 1 BY <1>5, <1>12, <1>13
  <2>3. \A k \in 1 .. Len(g) : g[k] = IF k <= gs THEN f[k] ELSE IF k = gs + 1 THEN e ELSE f[k - 1]
    BY <1>10, <1>13
  <2> QED BY <1>12, <1>13, <2>1, <2>2, <2>3, InsertAtIs
<1>15. Len(Forest) < GroupCapacity /\ Depth < MaxDepth BY <1>2, <1>3, <1>4, <1>a, <1>12
<1>16. Forest' = InsertAt(Forest, table.groupGapStart + 1,
                         [key |-> key, depth |-> Depth, nodes |-> 0, values |-> <<>>])
  BY <1>1, <1>3, <1>4, <1>a, <1>9, <1>14
<1>17. table'.groupGapStart = table.groupGapStart + 1 /\ Depth' = Depth + 1 BY <1>1, <1>3, <1>4, <1>5
<1>18. Abstract!Insert(key) BY <1>15, <1>16, <1>17 DEF Abstract!Insert, Abstract!InsertAt, InsertAt
<1> QED BY <1>2, <1>18

-----------------------------------------------------------------------------
(* Words are written.                                                      *)

\* Every word has a group.
LEMMA HolderIs ==
  ASSUME NEW t, Typed(t), Laid(t), NEW i \in 0 .. Words(t) - 1
  PROVE  \E x \in 0 .. Count(t) - 1 : Place(t, x) <= i /\ i < Place(t, x + 1)
<1>1. PICK n \in Nat, m \in Nat : n = Count(t) /\ m = Words(t) BY TypedIs
<1> DEFINE Held == \E x \in 0 .. n - 1 : Place(t, x) <= i /\ i < Place(t, x + 1)
           P == {k \in 0 .. n : i < Place(t, k) => Held}
<1>2. i \in Nat /\ i < m BY <1>1
<1>3. 0 \in P /\ P \in SUBSET Nat
  <2>1. Place(t, 0) = 0 BY DEF Laid
  <2>2. ~(i < Place(t, 0)) BY <1>2, <2>1
  <2> QED BY <2>2
<1>4. ASSUME NEW k \in 0 .. n - 1, k \in P PROVE k + 1 \in P
  <2>1. Place(t, k) \in Nat BY <1>1 DEF Laid
  <2>2. CASE i < Place(t, k) BY <1>4, <2>2
  <2>3. CASE ~(i < Place(t, k))
    <3>1. Place(t, k) <= i BY <1>2, <2>1, <2>3
    <3> QED BY <3>1
  <2> QED BY <2>2, <2>3
<1> HIDE DEF P, Held
<1>5. \A k \in 0 .. n : k \in P BY <1>3, <1>4, UpTo
<1>6. Place(t, n) = m BY <1>1 DEF Place
<1>7. i < Place(t, n) BY <1>2, <1>6
<1>8. Held
  <2>1. n \in P BY <1>5
  <2> QED BY <1>7, <2>1 DEF P
<1> QED BY <1>1, <1>8 DEF Held

\* A sequence by its length and its elements.
ListOf(c, f) == f = [k \in 1 .. c |-> f[k]]

\* Where the words of group x are.
LEMMA WordsAre ==
  ASSUME NEW t, Typed(t), Laid(t), NEW x \in 0 .. Count(t) - 1
  PROVE  /\ G(t, x).slotCount \in Nat /\ Place(t, x) \in Nat /\ Place(t, x + 1) \in Nat
         /\ Place(t, x + 1) = Place(t, x) + G(t, x).slotCount /\ Place(t, x + 1) <= Words(t)
         /\ DOMAIN WordsOf(t, x) = 1 .. G(t, x).slotCount /\ Len(WordsOf(t, x)) = G(t, x).slotCount
         /\ \A k \in 1 .. G(t, x).slotCount : WordsOf(t, x)[k] = W(t, Place(t, x) + k - 1)
         /\ ListOf(G(t, x).slotCount, WordsOf(t, x))
<1>1. PICK n \in Nat, c \in Nat, p \in Nat : n = Count(t) /\ c = G(t, x).slotCount /\ p = Place(t, x)
  <2>1. Count(t) \in Nat /\ G(t, x).slotCount \in Nat /\ Place(t, x) \in Nat BY TypedIs, GroupFields DEF Laid
  <2> QED BY <2>1
<1>a. PICK f : f = WordsOf(t, x) OBVIOUS
<1>2. Place(t, x + 1) = p + c BY <1>1 DEF Laid
<1>3. Place(t, x + 1) <= Words(t)
  <2>1. x + 1 \in 0 .. n /\ n \in 0 .. n BY <1>1
  <2>2. Place(t, n) = Words(t) BY <1>1 DEF Place
  <2> QED BY <1>1, <2>1, <2>2, LaidUp
<1>4. DOMAIN f = 1 .. c /\ \A k \in 1 .. c : f[k] = W(t, p + k - 1) BY <1>1, <1>a DEF WordsOf
<1>5. f = [k \in 1 .. c |-> f[k]] BY <1>1, <1>a, <1>4 DEF WordsOf
<1>6. f \in [1 .. c -> {f[k] : k \in 1 .. c}] BY <1>5
<1>7. f \in Seq({f[k] : k \in 1 .. c}) BY <1>6
<1>8. Len(f) = c BY <1>4, <1>7
<1>9. Place(t, x + 1) \in Nat /\ Place(t, x + 1) = Place(t, x) + G(t, x).slotCount BY <1>1, <1>2
<1>10. WordsOf(t, x) = [k \in 1 .. G(t, x).slotCount |-> WordsOf(t, x)[k]] BY <1>1, <1>a, <1>5
<1>11. \A k \in 1 .. G(t, x).slotCount : WordsOf(t, x)[k] = W(t, Place(t, x) + k - 1) BY <1>1, <1>a, <1>4
<1>12. DOMAIN WordsOf(t, x) = 1 .. G(t, x).slotCount /\ Len(WordsOf(t, x)) = G(t, x).slotCount
  BY <1>1, <1>a, <1>4, <1>8
<1>13. ListOf(G(t, x).slotCount, WordsOf(t, x)) BY <1>10 DEF ListOf
<1>14. G(t, x).slotCount \in Nat /\ Place(t, x) \in Nat BY <1>1
<1> QED BY <1>3, <1>9, <1>11, <1>12, <1>13, <1>14

LEMMA WordsGiven ==
  ASSUME NEW t, Typed(t), Laid(t), NEW x \in 0 .. Count(t) - 1,
         NEW c, c = G(t, x).slotCount, NEW p, p = Place(t, x), NEW f, f = WordsOf(t, x)
  PROVE  ListOf(c, f) /\ \A k \in 1 .. c : f[k] = W(t, p + k - 1)
BY WordsAre

LEMMA AppendIs ==
  ASSUME NEW c \in Nat, NEW f, ListOf(c, f), NEW g, ListOf(c + 1, g), \A k \in 1 .. c : g[k] = f[k]
  PROVE  g = Append(f, g[c + 1])
<1>1. PICK S, v : S = {g[k] : k \in 1 .. c + 1} /\ v = g[c + 1] OBVIOUS
<1>2. c + 1 \in 1 .. c + 1 /\ \A k \in 1 .. c : k \in 1 .. c + 1 OBVIOUS
<1>3. v \in S BY <1>1, <1>2
<1>4. g \in [1 .. c + 1 -> S] BY <1>1 DEF ListOf
<1>5. f \in [1 .. c -> S]
  <2>1. \A k \in 1 .. c : f[k] \in S BY <1>1, <1>2
  <2> QED BY <2>1 DEF ListOf
<1>6. g \in Seq(S) /\ f \in Seq(S)
  <2>1. c + 1 \in Nat OBVIOUS
  <2> QED BY <1>4, <1>5, <2>1
<1>7. Len(g) = c + 1 /\ Len(f) = c
  <2>1. DOMAIN g = 1 .. c + 1 /\ DOMAIN f = 1 .. c BY <1>4, <1>5
  <2> QED BY <1>6, <2>1
<1>8. PICK h : h = Append(f, v) OBVIOUS
<1>9. h \in Seq(S) /\ Len(h) = c + 1 /\ \A k \in 1 .. c : h[k] = f[k] BY <1>3, <1>6, <1>7, <1>8, AppendProperties
<1>10. h[c + 1] = v BY <1>3, <1>6, <1>7, <1>8, AppendProperties
<1>11. \A k \in 1 .. c + 1 : h[k] = g[k]
  <2> TAKE k \in 1 .. c + 1
  <2>1. k \in 1 .. c \/ k = c + 1 OBVIOUS
  <2> QED BY <1>1, <1>9, <1>10, <2>1
<1>12. h = g BY <1>6, <1>7, <1>9, <1>11, SeqEqual
<1> QED BY <1>1, <1>8, <1>12

\* The words of the groups are all that there are.
LEMMA SlotsAre ==
  ASSUME NEW t, NEW w, Typed(t), Laid(t), Forest = View(t, w)
  PROVE  Abstract!Slots = Words(t)
<1>1. PICK n \in Nat : n = Count(t) BY TypedIs
<1>a. PICK F : F = Forest OBVIOUS
<1>2. Len(F) = n /\ \A k \in 1 .. n : F[k] = Entry(t, w, k - 1) BY <1>1, <1>a, ViewIs
<1>3. \A k \in 0 .. n : Place(t, k) \in Nat BY <1>1, LaidUp
<1>4. ASSUME NEW k \in 1 .. n PROVE Place(t, k) = Place(t, k - 1) + Len(F[k].values)
  <2>1. PICK i : i = k - 1 OBVIOUS
  <2>2. i \in 0 .. n - 1 /\ i + 1 = k BY <2>1
  <2>3. Len(WordsOf(t, i)) = G(t, i).slotCount /\ Place(t, i + 1) = Place(t, i) + G(t, i).slotCount
    BY <1>1, <2>2, WordsAre
  <2>4. F[k].values = WordsOf(t, i) BY <1>2, <2>1 DEF Entry
  <2> QED BY <2>1, <2>2, <2>3, <2>4
<1> DEFINE Is(s) == s = [k \in 0 .. Len(F) |-> IF k = 0 THEN 0 ELSE s[k - 1] + Len(F[k].values)]
           r == [k \in 0 .. n |-> Place(t, k)]
<1>5. Is(r)
  <2>1. Place(t, 0) = 0 BY DEF Laid
  <2>2. ASSUME NEW k \in 0 .. n PROVE r[k] = IF k = 0 THEN 0 ELSE r[k - 1] + Len(F[k].values)
    <3>1. CASE k = 0 BY <2>1, <3>1
    <3>2. CASE k # 0
      <4>1. k \in 1 .. n /\ k - 1 \in 0 .. n BY <3>2
      <4>2. r[k] = Place(t, k) /\ r[k - 1] = Place(t, k - 1) BY <4>1
      <4> QED BY <1>4, <3>2, <4>1, <4>2
    <3> QED BY <3>1, <3>2
  <2>3. r = [k \in 0 .. n |-> r[k]] OBVIOUS
  <2> HIDE DEF r
  <2>4. r = [k \in 0 .. n |-> IF k = 0 THEN 0 ELSE r[k - 1] + Len(F[k].values)] BY <2>2, <2>3
  <2> QED BY <1>2, <2>4
<1> HIDE DEF r
<1>6. Is(CHOOSE s : Is(s))
  <2> HIDE DEF Is
  <2> QED BY <1>5
<1> DEFINE a == CHOOSE s : Is(s)
<1>7. Abstract!Slots = a[Len(F)] BY <1>1, <1>a DEF Abstract!Slots
<1> HIDE DEF a
<1>8. Is(a) BY <1>6 DEF a
<1>9. a[0] = 0 /\ \A k \in 1 .. n : a[k] = a[k - 1] + Len(F[k].values)
  <2>1. a = [k \in 0 .. n |-> IF k = 0 THEN 0 ELSE a[k - 1] + Len(F[k].values)] BY <1>2, <1>8
  <2> HIDE DEF Is
  <2>2. \A k \in 0 .. n : a[k] = IF k = 0 THEN 0 ELSE a[k - 1] + Len(F[k].values) BY ONLY <2>1
  <2>3. 0 \in 0 .. n /\ \A k \in 1 .. n : k \in 0 .. n /\ k # 0 OBVIOUS
  <2> QED BY <2>2, <2>3
<1> HIDE DEF Is
<1> DEFINE P == {k \in 0 .. n : a[k] = Place(t, k)}
<1>10. 0 \in P /\ P \in SUBSET Nat BY <1>9 DEF Laid
<1>11. ASSUME NEW k \in 0 .. n - 1, k \in P PROVE k + 1 \in P
  <2>1. k + 1 \in 1 .. n /\ (k + 1) - 1 = k /\ k + 1 \in 0 .. n OBVIOUS
  <2>2. a[k + 1] = a[k] + Len(F[k + 1].values) BY <1>9, <2>1
  <2>3. Place(t, k + 1) = Place(t, k) + Len(F[k + 1].values) BY <1>4, <2>1
  <2> QED BY <1>11, <2>1, <2>2, <2>3
<1> HIDE DEF P
<1>12. \A k \in 0 .. n : k \in P BY <1>10, <1>11, UpTo
<1>13. a[n] = Place(t, n)
  <2>1. n \in P BY <1>12
  <2> QED BY <2>1 DEF P
<1>14. Place(t, n) = Words(t) BY <1>1 DEF Place
<1> QED BY <1>2, <1>7, <1>13, <1>14

\* A step that leaves links and nodes as they are leaves everything but values.
LEMMA SameButWords ==
  ASSUME NEW t, NEW u, NEW w, Count(u) = Count(t),
         \A j \in 0 .. Count(t) - 1 :
           /\ G(u, j).key = G(t, j).key /\ G(u, j).parentIndex = G(t, j).parentIndex
           /\ G(u, j).nodeCount = G(t, j).nodeCount,
         NEW x \in 0 .. Count(t) - 1
  PROVE  Entry(u, w, x) = [Entry(t, w, x) EXCEPT !.values = WordsOf(u, x)]
<1>1. UpOf(u) = UpOf(t) BY DEF UpOf
<1>2. Gifts(u, w, x) = Gifts(t, w, x) BY DEF Gifts
<1>3. Own(u, w, x) = Own(t, w, x) BY <1>2 DEF Own
<1> QED BY <1>1, <1>3 DEF Entry

LEMMA WordsExtended ==
  ASSUME NEW t, NEW u, NEW value, Typed(t), Laid(t), Typed(u), Laid(u), Extended(t, u, value),
         NEW x \in 0 .. Count(t) - 1
  PROVE  WordsOf(u, x) = IF x = t.groupGapStart - 1 THEN Append(WordsOf(t, x), value) ELSE WordsOf(t, x)
<1>1. PICK n \in Nat, gs \in Nat, sgs \in Nat, m \in Nat, c \in Nat, p \in Nat :
        /\ n = Count(t) /\ gs = t.groupGapStart /\ sgs = t.slotGapStart /\ m = Words(t)
        /\ c = G(t, x).slotCount /\ p = Place(t, x)
  <2>1. /\ Count(t) \in Nat /\ t.groupGapStart \in Nat /\ t.slotGapStart \in Nat /\ Words(t) \in Nat
    BY TypedIs
  <2>2. G(t, x).slotCount \in Nat /\ Place(t, x) \in Nat BY WordsAre
  <2> QED BY <2>1, <2>2
<1>2. Place(t, x + 1) = p + c /\ p + c <= m BY <1>1, WordsAre
<1>3. Place(t, gs) = sgs /\ gs <= n BY <1>1, TypedIs DEF Laid
<1>4. \A k \in 0 .. m : W(u, k) = IF k < sgs THEN W(t, k) ELSE IF k = sgs THEN value ELSE W(t, k - 1)
  BY <1>1 DEF Extended
<1>5. PICK f, g : f = WordsOf(t, x) /\ g = WordsOf(u, x) OBVIOUS
<1>6. ListOf(c, f) /\ \A k \in 1 .. c : f[k] = W(t, p + k - 1) BY <1>1, <1>5, WordsGiven
<1>7. Count(u) = n /\ x \in 0 .. Count(u) - 1 BY <1>1 DEF Extended
<1>8. CASE x = gs - 1
  <2>1. x + 1 = gs /\ ~(x >= gs) BY <1>8
  <2>2. p + c = sgs BY <1>2, <1>3, <2>1
  <2>3. G(u, x).slotCount = c + 1 /\ Place(u, x) = p BY <1>1, <1>8, <2>1 DEF Extended
  <2>4. ListOf(c + 1, g) /\ \A k \in 1 .. c + 1 : g[k] = W(u, p + k - 1)
    <3>1. PICK c2 : c2 = c + 1 OBVIOUS
    <3>2. c2 = G(u, x).slotCount /\ p = Place(u, x) /\ g = WordsOf(u, x) BY <1>5, <2>3, <3>1
    <3>3. ListOf(c2, g) /\ \A k \in 1 .. c2 : g[k] = W(u, p + k - 1) BY <1>7, <3>2, WordsGiven
    <3> QED BY <3>1, <3>3
  <2>5. ASSUME NEW k \in 1 .. c PROVE g[k] = f[k]
    <3>1. p + k - 1 \in 0 .. m /\ p + k - 1 < sgs /\ k \in 1 .. c + 1 BY <1>2, <2>2
    <3> QED BY <1>4, <1>6, <2>4, <3>1
  <2>6. g[c + 1] = value
    <3>1. /\ c + 1 \in 1 .. c + 1 /\ p + (c + 1) - 1 = sgs /\ sgs \in 0 .. m /\ ~(sgs < sgs)
      BY <1>2, <2>2
    <3> QED BY <1>4, <2>4, <3>1
  <2>7. g = Append(f, value)
    <3>1. g = Append(f, g[c + 1]) BY <1>6, <2>4, <2>5, AppendIs
    <3> QED BY <2>6, <3>1
  <2> QED BY <1>1, <1>5, <1>8, <2>7
<1>9. CASE x # gs - 1
  <2>1. G(u, x).slotCount = c BY <1>1, <1>9 DEF Extended
  <2>2. PICK q \in Nat : q = Place(u, x) BY <1>1, <1>7, WordsAre
  <2>3. ListOf(c, g) /\ \A k \in 1 .. c : g[k] = W(u, q + k - 1)
    BY <1>5, <1>7, <2>1, <2>2, WordsGiven
  <2>4. ASSUME NEW k \in 1 .. c PROVE g[k] = f[k]
    <3>1. CASE x >= gs
      <4>1. q = p + 1 BY <1>1, <2>2, <3>1 DEF Extended
      <4>2. sgs <= p
        <5>1. gs \in 0 .. x /\ x \in 0 .. n BY <1>1, <3>1
        <5> QED BY <1>1, <1>3, <5>1, LaidUp
      <4>3. /\ q + k - 1 \in 0 .. m /\ ~(q + k - 1 < sgs) /\ q + k - 1 # sgs
            /\ (q + k - 1) - 1 = p + k - 1
        BY <1>2, <4>1, <4>2
      <4> QED BY <1>4, <1>6, <2>3, <4>3
    <3>2. CASE ~(x >= gs)
      <4>1. q = p BY <1>1, <2>2, <3>2 DEF Extended
      <4>2. p + c <= sgs
        <5>1. x + 1 \in 0 .. gs /\ gs \in 0 .. n BY <1>1, <1>3, <3>2
        <5>2. Place(t, x + 1) <= Place(t, gs) BY <1>1, <5>1, LaidUp
        <5> QED BY <1>2, <1>3, <5>2
      <4>3. q + k - 1 \in 0 .. m /\ q + k - 1 < sgs /\ q + k - 1 = p + k - 1 BY <1>2, <4>1, <4>2
      <4> QED BY <1>4, <1>6, <2>3, <4>3
    <3> QED BY <3>1, <3>2
  <2>5. g = f BY <1>6, <2>3, <2>4 DEF ListOf
  <2> QED BY <1>1, <1>5, <1>9, <2>5
<1> QED BY <1>8, <1>9

LEMMA WritesAWord ==
  ASSUME TableInv, NEW value \in Values, SlotWrite(value) PROVE TableInv' /\ Abstract!Write(value)
<1>1. PICK t, w, u : t = table /\ w = writer /\ u = table' OBVIOUS
<1>2. TableInv' /\ writer' = w /\ Depth \in 1 .. Depth /\ w[Depth] = t.groupGapStart - 1 /\ Extended(t, u, value)
  BY <1>1, SlotWriteStep
<1>3. /\ Forest = View(t, w) /\ Forest' = View(u, w) /\ Depth = Len(w) /\ Depth' = Len(w)
      /\ Consistent(t, w, reader, walk) /\ Typed(t) /\ Laid(t) /\ Typed(u) /\ Laid(u)
      /\ Count(t) \in Nat /\ Len(w) \in Nat
  BY <1>1, <1>2, Stands
<1>4. PICK n \in Nat, gs \in Nat, D \in Nat : n = Count(t) /\ gs = t.groupGapStart /\ D = Len(w)
  BY <1>3, TreeIs
<1>a. PICK x, f, g, e : x = gs - 1 /\ f = View(t, w) /\ g = View(u, w) /\ e = Entry(u, w, x) OBVIOUS
<1>5. D > 0 /\ w[D] = x BY <1>2, <1>3, <1>4, <1>a
<1>6. x \in 0 .. n - 1 /\ Level(UpOf(t))[x] = D - 1 BY <1>3, <1>4, <1>a, <1>5, WriterAt
<1>7. gs \in 1 .. n BY <1>4, <1>a, <1>6
<1>8. Count(u) = n /\ u.groupGapStart = gs BY <1>2, <1>4 DEF Extended
<1>9. ASSUME NEW y \in 0 .. n - 1
      PROVE  Entry(u, w, y) = [Entry(t, w, y) EXCEPT !.values = WordsOf(u, y)]
  <2>1. Count(u) = Count(t) BY <1>4, <1>8
  <2>2. \A j \in 0 .. Count(t) - 1 :
          /\ G(u, j).key = G(t, j).key /\ G(u, j).parentIndex = G(t, j).parentIndex
          /\ G(u, j).nodeCount = G(t, j).nodeCount
    BY <1>2 DEF Extended
  <2>3. y \in 0 .. Count(t) - 1 BY <1>4
  <2> QED BY <2>1, <2>2, <2>3, SameButWords
<1>10. \A k \in 1 .. n : f[k] = Entry(t, w, k - 1) /\ g[k] = Entry(u, w, k - 1)
  BY <1>3, <1>4, <1>a, <1>8, ViewIs
<1>11. f[gs] = Entry(t, w, x) /\ g[gs] = e BY <1>4, <1>a, <1>7, <1>10
<1>12. e = [f[gs] EXCEPT !.values = Append(f[gs].values, value)]
  <2>1. WordsOf(u, x) = Append(WordsOf(t, x), value) BY <1>2, <1>3, <1>4, <1>a, <1>6, WordsExtended
  <2>2. f[gs].values = WordsOf(t, x) BY <1>11 DEF Entry
  <2>3. Entry(u, w, x) = [Entry(t, w, x) EXCEPT !.values = WordsOf(u, x)] BY <1>6, <1>9
  <2> QED BY <1>4, <1>a, <1>11, <2>1, <2>2, <2>3
<1>13. ASSUME NEW k \in 1 .. n, k # gs PROVE g[k] = f[k]
  <2>1. PICK y : y = k - 1 OBVIOUS
  <2>2. y \in 0 .. n - 1 /\ y # gs - 1 BY <1>13, <2>1
  <2>3. WordsOf(u, y) = WordsOf(t, y) BY <1>2, <1>3, <1>4, <2>2, WordsExtended
  <2>4. Entry(u, w, y) = Entry(t, w, y) BY <1>9, <2>2, <2>3 DEF Entry
  <2> QED BY <1>10, <2>1, <2>4
<1>14. g = [f EXCEPT ![gs] = e]
  <2>1. f = [k \in 1 .. n |-> f[k]] /\ g = [k \in 1 .. n |-> g[k]] BY <1>4, <1>a, <1>8, ViewFun
  <2> QED BY <1>7, <1>11, <1>13, <2>1, OneChanged
<1>15. g = [f EXCEPT ![gs].values = Append(@, value)] BY <1>12, <1>14
<1>16. f[gs].depth = D - 1 BY <1>6, <1>11 DEF Entry
<1>17. Abstract!Slots < SlotCapacity
  <2>1. Abstract!Slots = Words(t) BY <1>3, SlotsAre
  <2> QED BY <1>2, <2>1 DEF Extended
<1>18. Abstract!Write(value)
  BY <1>1, <1>2, <1>3, <1>4, <1>a, <1>5, <1>8, <1>15, <1>16, <1>17 DEF Abstract!Write
<1> QED BY <1>2, <1>18

LEMMA SetsAWord ==
  ASSUME TableInv, NEW i \in 0 .. SlotCapacity - 1, NEW value \in Values, SlotSet(i, value)
  PROVE  /\ TableInv'
         /\ \E y \in DOMAIN Forest : \E k \in DOMAIN Forest[y].values : Abstract!Overwrite(y, k, value)
<1>1. PICK t, w, u : t = table /\ w = writer /\ u = table' OBVIOUS
<1>2. /\ TableInv' /\ writer' = w /\ u.groupGapStart = t.groupGapStart /\ Count(u) = Count(t)
      /\ \A j \in 0 .. Count(t) - 1 : G(u, j) = G(t, j) /\ Place(u, j) = Place(t, j)
      /\ i \in 0 .. Words(t) - 1
      /\ \A k \in 0 .. Words(t) - 1 : W(u, k) = IF k = i THEN value ELSE W(t, k)
  BY <1>1, SlotSetStep
<1>3. /\ Forest = View(t, w) /\ Forest' = View(u, w) /\ Depth = Len(w) /\ Depth' = Len(w)
      /\ Typed(t) /\ Laid(t) /\ Typed(u) /\ Laid(u) /\ Count(t) \in Nat
  BY <1>1, <1>2, Stands
<1>4. PICK x \in 0 .. Count(t) - 1 : Place(t, x) <= i /\ i < Place(t, x + 1) BY <1>2, <1>3, HolderIs
<1>5. PICK n \in Nat, m \in Nat, p \in Nat, c \in Nat :
        n = Count(t) /\ m = Words(t) /\ p = Place(t, x) /\ c = G(t, x).slotCount
  <2>1. G(t, x).slotCount \in Nat /\ Place(t, x) \in Nat BY <1>3, WordsAre
  <2>2. Words(t) \in Nat BY <1>3, TypedIs
  <2> QED BY <1>3, <2>1, <2>2
<1>a. PICK f, g, e : f = View(t, w) /\ g = View(u, w) /\ e = Entry(u, w, x) OBVIOUS
<1>6. Place(t, x + 1) = p + c /\ p + c <= m /\ p <= i /\ i < p + c BY <1>3, <1>4, <1>5, WordsAre
<1>7. PICK k, at : k = i - p + 1 /\ at = x + 1 OBVIOUS
<1>8. k \in 1 .. c /\ p + k - 1 = i /\ at \in 1 .. n /\ at - 1 = x BY <1>2, <1>5, <1>6, <1>7
<1>9. ASSUME NEW y \in 0 .. n - 1
      PROVE  Entry(u, w, y) = [Entry(t, w, y) EXCEPT !.values = WordsOf(u, y)]
  BY <1>2, <1>5, SameButWords
<1>10. \A j \in 1 .. n : f[j] = Entry(t, w, j - 1) /\ g[j] = Entry(u, w, j - 1)
  BY <1>2, <1>3, <1>5, <1>a, ViewIs
<1>11. f[at] = Entry(t, w, x) /\ g[at] = e BY <1>5, <1>a, <1>8, <1>10
<1>12. ASSUME NEW y \in 0 .. n - 1
       PROVE  /\ G(u, y).slotCount = G(t, y).slotCount /\ Place(u, y) = Place(t, y)
              /\ \A j \in 1 .. G(t, y).slotCount : Place(t, y) + j - 1 \in 0 .. m - 1
  <2>1. G(t, y).slotCount \in Nat /\ Place(t, y) \in Nat /\ Place(t, y) + G(t, y).slotCount <= m
    BY <1>3, <1>5, WordsAre
  <2>2. PICK a \in Nat, b \in Nat : a = Place(t, y) /\ b = G(t, y).slotCount BY <2>1
  <2>3. \A j \in 1 .. b : a + j - 1 \in 0 .. m - 1 BY <2>1, <2>2
  <2> QED BY <1>2, <1>5, <2>2, <2>3
<1>13. WordsOf(u, x) = [WordsOf(t, x) EXCEPT ![k] = value]
  <2>1. PICK a, b : a = WordsOf(t, x) /\ b = WordsOf(u, x) OBVIOUS
  <2>2. ListOf(c, a) /\ \A j \in 1 .. c : a[j] = W(t, p + j - 1) BY <1>3, <1>5, <2>1, WordsGiven
  <2>3. ListOf(c, b) /\ \A j \in 1 .. c : b[j] = W(u, p + j - 1)
    <3>1. c = G(u, x).slotCount /\ p = Place(u, x) /\ x \in 0 .. Count(u) - 1 BY <1>2, <1>5
    <3> QED BY <1>3, <2>1, <3>1, WordsGiven
  <2>4. \A j \in 1 .. c : p + j - 1 \in 0 .. m - 1 BY <1>5, <1>12
  <2>5. b[k] = value BY <1>2, <1>5, <1>8, <2>3, <2>4
  <2>6. ASSUME NEW j \in 1 .. c, j # k PROVE b[j] = a[j]
    <3>1. p + j - 1 # i BY <1>8, <2>6
    <3> QED BY <1>2, <1>5, <2>2, <2>3, <2>4, <3>1
  <2>7. b = [a EXCEPT ![k] = value]
    <3>1. a = [j \in 1 .. c |-> a[j]] /\ b = [j \in 1 .. c |-> b[j]] BY <2>2, <2>3 DEF ListOf
    <3> QED BY <1>8, <2>5, <2>6, <3>1, OneChanged
  <2> QED BY <2>1, <2>7
<1>14. e = [f[at] EXCEPT !.values = [f[at].values EXCEPT ![k] = value]]
  <2>1. f[at].values = WordsOf(t, x) BY <1>11 DEF Entry
  <2> QED BY <1>5, <1>a, <1>9, <1>11, <1>13, <2>1
<1>15. ASSUME NEW j \in 1 .. n, j # at PROVE g[j] = f[j]
  <2>1. PICK y : y = j - 1 OBVIOUS
  <2>2. y \in 0 .. n - 1 /\ y # x BY <1>8, <1>15, <2>1
  <2>3. PICK a \in Nat, b \in Nat : a = Place(t, y) /\ b = G(t, y).slotCount
    <3>1. G(t, y).slotCount \in Nat /\ Place(t, y) \in Nat BY <1>3, <1>5, <2>2, WordsAre
    <3> QED BY <3>1
  <2>4. Place(t, y + 1) = a + b BY <1>3, <1>5, <2>2, <2>3, WordsAre
  <2>5. a + b <= i \/ i < a
    <3>1. CASE y < x
      <4>1. y + 1 \in 0 .. x /\ x \in 0 .. n BY <1>5, <2>2, <3>1
      <4>2. Place(t, y + 1) <= Place(t, x) BY <1>3, <1>5, <4>1, LaidUp
      <4>3. a + b <= p BY <1>5, <2>4, <4>2
      <4> QED BY <1>2, <1>6, <4>3
    <3>2. CASE ~(y < x)
      <4>1. x + 1 \in 0 .. y /\ y \in 0 .. n BY <1>5, <2>2, <3>2
      <4>2. Place(t, x + 1) <= Place(t, y) BY <1>3, <1>5, <4>1, LaidUp
      <4>3. p + c <= a BY <1>6, <2>3, <4>2
      <4> QED BY <1>2, <1>6, <4>3
    <3> QED BY <3>1, <3>2
  <2>6. ASSUME NEW d \in 1 .. b PROVE W(u, a + d - 1) = W(t, a + d - 1)
    <3>1. a + d - 1 # i BY <1>2, <2>5
    <3>2. a + d - 1 \in 0 .. m - 1 BY <1>12, <2>2, <2>3
    <3> QED BY <1>2, <1>5, <3>1, <3>2
  <2>7. WordsOf(u, y) = WordsOf(t, y) BY <1>12, <2>2, <2>3, <2>6 DEF WordsOf
  <2>8. Entry(u, w, y) = Entry(t, w, y) BY <1>9, <2>2, <2>7 DEF Entry
  <2> QED BY <1>10, <2>1, <2>8
<1>16. g = [f EXCEPT ![at] = e]
  <2>1. f = [j \in 1 .. n |-> f[j]] /\ g = [j \in 1 .. n |-> g[j]] BY <1>2, <1>5, <1>a, ViewFun
  <2> QED BY <1>8, <1>11, <1>15, <2>1, OneChanged
<1>17. g = [f EXCEPT ![at].values[k] = value] BY <1>14, <1>16
<1>18. Abstract!Overwrite(at, k, value)
  BY <1>1, <1>2, <1>3, <1>5, <1>a, <1>17 DEF Abstract!Overwrite
<1>19. at \in DOMAIN Forest BY <1>3, <1>5, <1>8, ViewIs
<1>20. k \in DOMAIN Forest[at].values
  <2>1. Forest[at].values = WordsOf(t, x) BY <1>3, <1>5, <1>a, <1>11 DEF Entry
  <2>2. DOMAIN WordsOf(t, x) = 1 .. c BY <1>3, <1>5, WordsAre
  <2> QED BY <1>8, <2>1, <2>2
<1> QED BY <1>2, <1>18, <1>19, <1>20

-----------------------------------------------------------------------------
(* The table implements the forest.                                        *)

\* A step that leaves the table and the writer alone.
LEMMA Aside == ASSUME TableInv, TableInv', UNCHANGED <<table, writer>> PROVE UNCHANGED Abstract!forestVars
<1>1. PICK t : t = table OBVIOUS
<1>2. table' = t /\ writer' = writer BY <1>1
<1>3. SameShow(t, t) BY HeadChanged
<1>4. Unseen BY <1>1, <1>2, <1>3 DEF Unseen
<1> QED BY <1>4, Stutter

LEMMA StepRefines ==
  ASSUME TableInv, [CarefulNext]_tableVars PROVE [Abstract!ForestNext]_(Abstract!forestVars)
<1>0. TableInv' BY StepKeepsTable
<1>1. CASE Reset BY <1>1, ResetClears DEF Abstract!ForestNext
<1>2. ASSUME Unseen PROVE [Abstract!ForestNext]_(Abstract!forestVars) BY <1>0, <1>2, Stutter
<1>3. ASSUME UNCHANGED <<table, writer>> PROVE [Abstract!ForestNext]_(Abstract!forestVars) BY <1>0, <1>3, Aside
<1>4. ASSUME SameTable(table, table'), writer' = writer, writer = <<>>
      PROVE  [Abstract!ForestNext]_(Abstract!forestVars)
  BY <1>0, <1>4, GapsMoveOn DEF Abstract!ForestNext
<1>5. CASE Writing
  <2>1. CASE WriterOpen BY <1>2, <2>1, WriterOpenStep
  <2>2. CASE WriterClose BY <1>2, <2>2, WriterCloseStep
  <2>5. CASE \E key \in Keys : GroupStart(key)
    <3>1. PICK key \in Keys : GroupStart(key) BY <2>5
    <3>2. Abstract!Insert(key) BY <3>1, StartsAGroup
    <3> QED BY <3>2 DEF Abstract!ForestNext
  <2>6. CASE GroupEnd BY <2>6, EndsAGroup DEF Abstract!ForestNext
  <2>7. CASE NodeEmit BY <2>7, EmitsANode DEF Abstract!ForestNext
  <2>8. CASE \E value \in Values : SlotWrite(value)
    <3>1. PICK value \in Values : SlotWrite(value) BY <2>8
    <3>2. Abstract!Write(value) BY <3>1, WritesAWord
    <3> QED BY <3>2 DEF Abstract!ForestNext
  <2>9. CASE \E value \in Values : \E i \in 0 .. SlotCapacity - 1 : SlotSet(i, value)
    <3>1. PICK value \in Values, i \in 0 .. SlotCapacity - 1 : SlotSet(i, value) BY <2>9
    <3>2. PICK y \in DOMAIN Forest : \E k \in DOMAIN Forest[y].values : Abstract!Overwrite(y, k, value)
      BY <3>1, SetsAWord
    <3> QED BY <3>2 DEF Abstract!ForestNext
  <2> QED BY <1>5, <2>1, <2>2, <2>5, <2>6, <2>7, <2>8, <2>9 DEF Writing
<1>9. CASE CarefulGapMove BY <1>4, <1>9, CarefulGapMoveStep
<1>6. CASE Reading
  <2>1. CASE ReaderOpen BY <1>2, <2>1, ReaderOpenStep
  <2>2. CASE ReaderClose BY <1>2, <2>2, ReaderCloseStep
  <2>3. CASE ReaderGroupStart \/ ReaderGroupEnd \/ ReaderGroupSkip \/ SlotRead
    <3>1. UNCHANGED <<table, writer>>
      BY <2>3 DEF ReaderGroupStart, ReaderGroupEnd, ReaderGroupSkip, SlotRead
    <3> QED BY <1>3, <3>1
  <2> QED BY <1>6, <2>1, <2>2, <2>3 DEF Reading
<1>7. CASE Invalidating
  <2>1. CASE \E i \in 0 .. GroupCapacity - 1 : GroupInvalidate(i) BY <1>2, <2>1, GroupInvalidateStep
  <2>2. CASE ClearAllFlags BY <1>2, <2>2, ClearAllFlagsStep
  <2>3. CASE WalkEnter BY <1>2, <2>3, WalkEnterStep
  <2>4. CASE WalkBegin \/ WalkSkip \/ WalkEnd
    <3>1. UNCHANGED <<table, writer>> BY <2>4 DEF WalkBegin, WalkSkip, WalkEnd
    <3> QED BY <1>3, <3>1
  <2> QED BY <1>7, <2>1, <2>2, <2>3, <2>4 DEF Invalidating
<1>8. CASE UNCHANGED tableVars
  <2>1. UNCHANGED <<table, writer>> BY <1>8 DEF tableVars
  <2> QED BY <1>3, <2>1
<1> QED BY <1>1, <1>5, <1>6, <1>7, <1>8, <1>9 DEF CarefulNext

\* As long as the gaps move between trees and past no more than fits, which the
\* code does not ask, the two gap buffers with their links, sizes and indices
\* implement a plain list of groups with their depths, nodes and words: such a
\* move changes only where the writer is, an insertion changes no other group,
\* a word or a node goes to the group it was meant for, and nothing else in
\* slot_table.c, neither reading nor invalidating, changes what the table
\* stands for.
THEOREM TableRefinesForest == CarefulSpec => ImplementsSlotForest
<1>1. TableInit => Abstract!ForestInit BY EmptyForest
<1>2. TableInv /\ [CarefulNext]_tableVars => [Abstract!ForestNext]_(Abstract!forestVars) BY StepRefines
<1> QED BY <1>1, <1>2, TableInvariant, PTL DEF CarefulSpec, ImplementsSlotForest, Abstract!ForestSpec
=============================================================================
