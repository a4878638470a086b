---------------------------- MODULE Transactions ----------------------------
(***************************************************************************)
(* The transaction batches of a CELS session (src/runtime/session.c, from  *)
(* CelsSessionStageSet on, and include/cels/runtime/transaction.h).        *)
(*                                                                         *)
(* Composables stage operations into the active one of two batches.  They  *)
(* leave it in one of two ways, chosen by the post-recompose hook of the   *)
(* host: the hook commits them on the spot through a handler, or it swaps  *)
(* the batches and a worker thread works the other one off and clears it.  *)
(*                                                                         *)
(* Nothing keeps the two threads in step.  A swap takes the batch away     *)
(* from a worker that is not done with it; the history variable overrun    *)
(* tells when that has happened.  What one thread does between two steps   *)
(* here is what a data race could tear further.                            *)
(*                                                                         *)
(* An operation is known by its number in the order in which operations    *)
(* were accepted; a byte of a batch by the number of the operation that    *)
(* wrote it.  What a handler itself stages while the session commits is    *)
(* numbered 0: CelsSessionCommitTransactions empties the batch afterwards, *)
(* so those operations are accepted and never handed to anybody.           *)
(***************************************************************************)
EXTENDS Naturals, Sequences

CONSTANTS
  MaxTransactions, \* CELS_MAX_TRANSACTIONS
  DataSize,        \* CELS_TRANSACTION_DATA_SIZE
  MaxOps           \* bound of the model: operations ever accepted

ASSUME TransactionsAssumption ==
  MaxTransactions \in Nat /\ DataSize \in Nat /\ MaxOps \in Nat

VARIABLES
  transactionBatches, \* the two batches of the session
  activeBatchIndex,   \* the one that operations are staged into
  hook,               \* what the post-recompose hook does
  wanted,             \* would CelsSessionRecompose run a pass?
  phase,              \* what the host thread is doing
  committing,         \* the loop of CelsSessionCommitTransactions
  worker,             \* the loop of the worker thread
  accepted,           \* history: operations accepted outside handlers
  applied,            \* history: operations handed over, in that order
  overrun             \* history: was a batch taken from a busy worker?

batches == <<transactionBatches, activeBatchIndex>>
host == <<hook, wanted, phase, committing>>
history == <<accepted, applied, overrun>>
vars == <<batches, host, worker, history>>

BatchIds == {0, 1}

\* CelsTransactionOp, without its code and its target: nothing here looks at
\* them.
Op == [id : Nat, size : Nat, dataOffset : Nat]

\* What a worker holds that holds no operation.
NoOp == [holds |-> "nothing"]

\* CelsTransactionBatch: opCount is the length of ops.
Batch == [ops : Seq(Op), data : [0 .. DataSize - 1 -> Nat], dataSize : Nat]

\* The batch the worker is given.
ReadyIndex == 1 - activeBatchIndex

(* Mutant: only dataSize is reset.                                         *)
EmptiedBytes(batch) == [batch EXCEPT !.dataSize = 0]

\* opCount and dataSize are reset; the bytes stay.
Emptied(batch) == [ops |-> <<>>, data |-> batch.data, dataSize |-> 0]

TypeOK ==
  /\ transactionBatches \in [BatchIds -> Batch]
  /\ \A b \in BatchIds :
       /\ Len(transactionBatches[b].ops) <= MaxTransactions
       /\ transactionBatches[b].dataSize <= DataSize
  /\ activeBatchIndex \in BatchIds
  /\ hook \in {"none", "commit", "swap"}
  /\ wanted \in BOOLEAN
  /\ phase \in {"idle", "composing", "committing"}
  /\ committing \in [next : Nat, count : Nat]
  /\ worker \in [reading : BOOLEAN, batch : BatchIds, next : Nat,
                 held : {NoOp} \cup Op]
  /\ accepted \in Nat
  /\ applied \in Seq(Nat)
  /\ overrun \in BOOLEAN

\* CelsSessionInit zeroes both batches; no worker has been given one.
Init ==
  /\ transactionBatches =
       [b \in BatchIds |->
          [ops |-> <<>>, data |-> [k \in 0 .. DataSize - 1 |-> 0],
           dataSize |-> 0]]
  /\ activeBatchIndex = 0
  /\ hook = "none"
  /\ wanted = TRUE
  /\ phase = "idle"
  /\ committing = [next |-> 1, count |-> 0]
  /\ worker = [reading |-> FALSE, batch |-> 0, next |-> 1, held |-> NoOp]
  /\ accepted = 0
  /\ applied = <<>>
  /\ overrun = FALSE

-----------------------------------------------------------------------------
(* Staging, from a body of a composable, from the host between frames, or  *)
(* from a handler.                                                         *)

(* Mutant: one operation too many is let in.                               *)
HasRoomLate(batch, size) ==
  /\ Len(batch.ops) <= MaxTransactions
  /\ batch.dataSize + size <= DataSize

\* The two tests that make a staging call return false.
HasRoom(batch, size) ==
  /\ Len(batch.ops) < MaxTransactions
  /\ batch.dataSize + size <= DataSize

(* Mutant: the offset is taken after dataSize has been moved on.           *)
WithOpAfter(batch, id, size) ==
  [ops |-> Append(batch.ops, [id |-> id, size |-> size,
                              dataOffset |-> batch.dataSize + size]),
   data |-> [k \in 0 .. DataSize - 1 |->
               IF batch.dataSize <= k /\ k < batch.dataSize + size
               THEN id ELSE batch.data[k]],
   dataSize |-> batch.dataSize + size]

\* The batch with the operation appended and its payload copied in.
WithOp(batch, id, size) ==
  [ops |-> Append(batch.ops, [id |-> id, size |-> size,
                              dataOffset |-> batch.dataSize]),
   data |-> [k \in 0 .. DataSize - 1 |->
               IF batch.dataSize <= k /\ k < batch.dataSize + size
               THEN id ELSE batch.data[k]],
   dataSize |-> batch.dataSize + size]

Stage(size) ==
  /\ HasRoom(transactionBatches[activeBatchIndex], size)
  /\ \/ /\ phase # "committing"
        /\ accepted < MaxOps
        /\ accepted' = accepted + 1
     \/ /\ phase = "committing"
        /\ accepted' = accepted
  /\ transactionBatches' =
       [transactionBatches EXCEPT ![activeBatchIndex] =
          WithOp(@, IF phase = "committing" THEN 0 ELSE accepted + 1, size)]
  /\ UNCHANGED <<activeBatchIndex, host, worker, applied, overrun>>

\* A removal carries no bytes, so its offset, 0 in the code, addresses none.
StageSet(size) == Stage(size)
StageRemove == Stage(0)
StageDelete == Stage(0)
StageCustom(size) == Stage(size)

-----------------------------------------------------------------------------
(* Frames of the host thread.                                              *)

\* CelsSessionSetPostRecomposeHook.  A host keeps one way of emptying the
\* batches: it never mixes a worker with commits of its own.
SetPostRecomposeHook(h) ==
  /\ phase = "idle" /\ hook = "none"
  /\ hook' = h
  /\ UNCHANGED <<batches, wanted, phase, committing, worker, history>>

\* A group is queued, state is written, or the code is reloaded.
Invalidate ==
  /\ ~wanted
  /\ wanted' = TRUE
  /\ UNCHANGED <<batches, hook, phase, committing, worker, history>>

\* CelsSessionRecompose of a session with something to do.  An idle one is
\* left at once, before any body, and its hook is not called.
BeginRecompose ==
  /\ phase = "idle" /\ wanted
  /\ phase' = "composing"
  /\ wanted' = FALSE
  /\ UNCHANGED <<batches, hook, committing, worker, history>>

\* A pass that does not converge returns before the hook, with keys queued.
AbandonRecompose ==
  /\ phase = "composing"
  /\ phase' = "idle"
  /\ wanted' = TRUE
  /\ UNCHANGED <<batches, hook, committing, worker, history>>

\* The end of a pass whose hook is unset.
FinishRecompose ==
  /\ phase = "composing" /\ hook = "none"
  /\ phase' = "idle"
  /\ UNCHANGED <<batches, hook, wanted, committing, worker, history>>

\* CelsSessionCommitTransactions, from the hook: the count is taken first.
BeginCommit ==
  /\ phase = "composing" /\ hook = "commit"
  /\ phase' = "committing"
  /\ committing' =
       [next |-> 1, count |-> Len(transactionBatches[activeBatchIndex].ops)]
  /\ UNCHANGED <<batches, hook, wanted, worker, history>>

\* One call of the handler.
CommitOp ==
  /\ phase = "committing" /\ committing.next <= committing.count
  /\ applied' =
       Append(applied,
              transactionBatches[activeBatchIndex].ops[committing.next].id)
  /\ committing' = [committing EXCEPT !.next = @ + 1]
  /\ UNCHANGED <<batches, hook, wanted, phase, worker, accepted, overrun>>

\* After the loop the whole batch is emptied, and the pass ends.
EndCommit ==
  /\ phase = "committing" /\ committing.next > committing.count
  /\ transactionBatches' =
       [transactionBatches EXCEPT ![activeBatchIndex] = Emptied(@)]
  /\ phase' = "idle"
  /\ UNCHANGED <<activeBatchIndex, hook, wanted, committing, worker, history>>

\* The worker holds no batch, and the one it is to be given is empty.
WorkerDone ==
  /\ ~worker.reading
  /\ transactionBatches[ReadyIndex].ops = <<>>

(* Mutant: the batch that was active is emptied.                           *)
SwappedWrong == [transactionBatches EXCEPT ![activeBatchIndex] = Emptied(@)]

\* The batch that becomes active is emptied, whatever it holds.
Swapped == [transactionBatches EXCEPT ![ReadyIndex] = Emptied(@)]

\* CelsSessionSwapTransactionBatches, from the hook: nobody asks what the
\* worker is doing.
SwapTransactionBatches ==
  /\ phase = "composing" /\ hook = "swap"
  /\ activeBatchIndex' = ReadyIndex
  /\ transactionBatches' = Swapped
  /\ phase' = "idle"
  /\ overrun' = (overrun \/ ~WorkerDone)
  /\ UNCHANGED <<hook, wanted, committing, worker, accepted, applied>>

-----------------------------------------------------------------------------
(* The worker thread.                                                      *)

\* CelsSessionGetReadyBatch, empty or not: the worker keeps the pointer.
GetReadyBatch ==
  /\ hook = "swap" /\ ~worker.reading
  /\ worker' = [reading |-> TRUE, batch |-> ReadyIndex, next |-> 1,
                held |-> NoOp]
  /\ UNCHANGED <<batches, host, history>>

\* The worker's loop reads opCount again for each operation, and then the
\* operation.
FetchOp ==
  /\ worker.reading /\ worker.held = NoOp
  /\ worker.next <= Len(transactionBatches[worker.batch].ops)
  /\ worker' = [worker EXCEPT
                  !.held = transactionBatches[worker.batch].ops[worker.next]]
  /\ UNCHANGED <<batches, host, history>>

\* It hands the operation over with the bytes at its offset.
WorkOp ==
  /\ worker.held # NoOp
  /\ applied' = Append(applied, worker.held.id)
  /\ worker' = [worker EXCEPT !.next = @ + 1, !.held = NoOp]
  /\ UNCHANGED <<batches, host, accepted, overrun>>

\* CelsSessionClearReadyBatch: it computes the index of the batch again.
ClearReadyBatch ==
  /\ worker.reading /\ worker.held = NoOp
  /\ worker.next > Len(transactionBatches[worker.batch].ops)
  /\ transactionBatches' =
       [transactionBatches EXCEPT ![ReadyIndex] = Emptied(@)]
  /\ worker' = [worker EXCEPT !.reading = FALSE]
  /\ UNCHANGED <<activeBatchIndex, host, history>>

-----------------------------------------------------------------------------

Work == GetReadyBatch \/ FetchOp \/ WorkOp \/ ClearReadyBatch

EndOfFrame == FinishRecompose \/ BeginCommit \/ SwapTransactionBatches

Next ==
  \/ \E size \in 0 .. DataSize : StageSet(size) \/ StageCustom(size)
  \/ StageRemove \/ StageDelete
  \/ \E h \in {"commit", "swap"} : SetPostRecomposeHook(h)
  \/ Invalidate \/ BeginRecompose \/ AbandonRecompose \/ EndOfFrame
  \/ CommitOp \/ EndCommit
  \/ Work

Spec == Init /\ [][Next]_vars

\* The host's loop goes on recomposing, and passes that converge keep coming;
\* a handler returns; the worker thread runs.
FairSpec ==
  /\ Spec
  /\ WF_vars(BeginRecompose)
  /\ SF_vars(BeginCommit)
  /\ SF_vars(SwapTransactionBatches)
  /\ WF_vars(CommitOp)
  /\ WF_vars(EndCommit)
  /\ WF_vars(Work)

-----------------------------------------------------------------------------
(* Properties.                                                             *)

\* The operations of batch b that somebody is still to be handed: those the
\* loop over it, if there is one, has not reached, and none that a handler
\* staged behind that loop.
FirstOwed(b) ==
  IF phase = "committing" /\ b = activeBatchIndex THEN committing.next
  ELSE IF worker.reading /\ b = worker.batch THEN worker.next
  ELSE 1
LastOwed(b) ==
  IF phase = "committing" /\ b = activeBatchIndex THEN committing.count
  ELSE Len(transactionBatches[b].ops)
Owed(b) == LastOwed(b) + 1 - FirstOwed(b)

\* The owed operations of batch b are numbered from n + 1 on.
NumberedFrom(b, n) ==
  \A i \in FirstOwed(b) .. LastOwed(b) :
    transactionBatches[b].ops[i].id = n + (i + 1 - FirstOwed(b))

\* As long as no batch was taken from a busy worker, and always where the
\* hook commits, nothing is lost, handed over twice or out of order: what has
\* been handed over is 1, 2, 3 and so on, and what was accepted after that is
\* owed by the batches, in the same order and the batch of the worker first.
\* About the resets in Swap, Commit and ClearReadyBatch, and the index each
\* of them picks.
AppliedInOrder ==
  ~overrun =>
    /\ \A i \in DOMAIN applied : applied[i] = i
    /\ NumberedFrom(ReadyIndex, Len(applied))
    /\ NumberedFrom(activeBatchIndex, Len(applied) + Owed(ReadyIndex))
    /\ accepted = Len(applied) + Owed(ReadyIndex) + Owed(activeBatchIndex)

Carries(batch, op) ==
  \A k \in op.dataOffset .. op.dataOffset + op.size - 1 :
    k < DataSize /\ batch.data[k] = op.id

\* The payload of an operation that a batch still owes is the one it was
\* staged with: no later operation wrote over its bytes.  That of the one the
\* worker holds is, as long as no batch was taken from it.  About dataOffset
\* and dataSize across the resets.
PayloadsIntact ==
  /\ \A b \in BatchIds : \A i \in FirstOwed(b) .. LastOwed(b) :
       Carries(transactionBatches[b], transactionBatches[b].ops[i])
  /\ ~overrun /\ worker.held # NoOp =>
       Carries(transactionBatches[worker.batch], worker.held)

\* An accepted operation is handed over once a pass is due or running, if no
\* batch is taken from a busy worker.  An idle session keeps what was staged
\* between frames until something invalidates it (session.c:858-860, 935).
EventuallyApplied ==
  \A n \in 1 .. MaxOps :
    (accepted >= n /\ hook # "none" /\ (wanted \/ phase # "idle"))
      ~> (Len(applied) >= n \/ overrun)

=============================================================================
