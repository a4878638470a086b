---------------------------- MODULE TasksProofs ----------------------------
(***************************************************************************)
(* For any finite number of tasks, of places for waiters and of ticks of   *)
(* the clock: the run of a task ends once, and its fiber lives as long as  *)
(* the run, unless the table of hooks was full from its mount to its       *)
(* unmount.                                                                *)
(***************************************************************************)
EXTENDS Tasks, Integers, FiniteSetTheorems, TLAPS

\* A pass runs mounted groups only: what it unmounts it does not run later.
LeftMounted == pass.left \subseteq mounted

Inv == TypeOK /\ EndsOnce /\ LeftMounted

-----------------------------------------------------------------------------

LEMMA NewTaskType ==
  ASSUME TasksAssumption
  PROVE  /\ NewTask \in TaskState
         /\ ~NewTask.isCancelled /\ ~NewTask.isDone /\ ~NewTask.taskFiber
  BY DEF TasksAssumption, NewTask, TaskState, Times

LEMMA WaiterType ==
  ASSUME TasksAssumption, NEW w \in Waiter
  PROVE  WaitOver(w) \in Waiter /\ WaitOver(w).used = w.used
<1>1. 0 \in Times
  BY DEF TasksAssumption, Times
<1> QED
  BY <1>1 DEF Waiter, WaitOver

LEMMA CleanedFacts ==
  ASSUME NEW task \in TaskState
  PROVE  /\ Cleaned(task) \in TaskState
         /\ ~Cleaned(task).taskFiber /\ Over(Cleaned(task))
         /\ Cleaned(task).isDone = task.isDone
         /\ Over(task) => Cleaned(task).isCancelled = task.isCancelled
         /\ ~Over(task) => Cleaned(task).isCancelled
<1>1. CASE Over(task)
  BY <1>1 DEF Over, Cleaned, TaskState
<1>2. CASE ~Over(task)
  BY <1>2 DEF Over, Cleaned, TaskState
<1> QED
  BY <1>1, <1>2

\* An entry of the waiters changes, and the table has room for it.
LEMMA WaiterPlaced ==
  ASSUME TasksAssumption, TypeOK, NEW n \in Names, NEW w \in Waiter,
         w.used => WaiterLeft(n),
         waiters' = [waiters EXCEPT ![n] = w]
  PROVE  /\ waiters' \in [Names -> Waiter]
         /\ Cardinality({k \in Names : waiters'[k].used}) <= MaxWaiters
<1> DEFINE before == {k \in Names : waiters[k].used}
           after == {k \in Names : waiters'[k].used}
<1>1. /\ waiters \in [Names -> Waiter] /\ waiters' \in [Names -> Waiter]
      /\ Cardinality(before) <= MaxWaiters /\ MaxWaiters \in Nat
      /\ \A k \in Names : waiters'[k] = IF k = n THEN w ELSE waiters[k]
  BY DEF TypeOK, TasksAssumption
<1>2. IsFiniteSet(before) /\ Cardinality(before) \in Nat
  BY FS_Subset, FS_CardinalityType DEF TasksAssumption
<1>3. IsFiniteSet(after) /\ Cardinality(after) \in Nat
  BY FS_Subset, FS_CardinalityType DEF TasksAssumption
<1>4. CASE waiters[n].used \/ ~w.used
  <2>1. after \subseteq before
    BY <1>1, <1>4
  <2>2. Cardinality(after) <= Cardinality(before)
    BY <1>2, <2>1, FS_Subset
  <2> QED
    BY <1>1, <1>2, <1>3, <2>2
<1>5. CASE ~waiters[n].used /\ w.used
  <2>1. after \subseteq before \union {n} /\ n \notin before
    BY <1>1, <1>5
  <2>2. /\ IsFiniteSet(before \union {n})
        /\ Cardinality(before \union {n}) = Cardinality(before) + 1
    BY <1>2, <2>1, FS_AddElement
  <2>3. Cardinality(after) <= Cardinality(before) + 1
    BY <2>1, <2>2, FS_Subset
  <2>4. Cardinality(before) < MaxWaiters
    BY <1>5 DEF WaiterLeft
  <2> QED
    BY <1>1, <1>2, <1>3, <2>3, <2>4
<1> QED
  BY <1>4, <1>5

-----------------------------------------------------------------------------
(* What a step of task n does to the task, its fiber and its waiter.       *)

Stepped(n) ==
  /\ memory' \in [Names -> TaskState]
  /\ fibers' \in [Names -> Places]
  /\ waiters' \in [Names -> Waiter]
  /\ Cardinality({k \in Names : waiters'[k].used}) <= MaxWaiters
  /\ queued' \subseteq Names
  /\ torn' \in [Names -> Nat]
  /\ \A k \in Names : k # n =>
       memory'[k] = memory[k] /\ fibers'[k] = fibers[k] /\ torn'[k] = torn[k]
  /\ torn'[n] = IF memory'[n].isCancelled THEN 1 ELSE 0
  /\ ~(memory'[n].isDone /\ memory'[n].isCancelled)
  /\ memory'[n].taskFiber <=> fibers'[n] # "none"
  /\ memory'[n].taskFiber => ~Over(memory'[n])

\* The run is not over, and none of its cancel blocks has been executed.
Ongoing(n, task) ==
  /\ task \in TaskState /\ ~Over(task) /\ RunsBefore(n) = 0

LEMMA SuspendSteps ==
  ASSUME TasksAssumption, TypeOK, NEW n \in Names, NEW task,
         Ongoing(n, task), NEW place \in Places \ {"none"},
         NEW waiter \in Waiter, waiter.used => WaiterLeft(n),
         NEW requeue, Suspend(n, task, place, waiter, requeue)
  PROVE  Stepped(n)
<1> DEFINE new == [task EXCEPT !.taskFiber = TRUE]
<1>1. /\ new \in TaskState /\ new.taskFiber /\ ~new.isCancelled /\ ~Over(new)
  BY DEF Ongoing, TaskState, Over
<1>2. /\ memory' = [memory EXCEPT ![n] = new]
      /\ fibers' = [fibers EXCEPT ![n] = place]
      /\ waiters' = [waiters EXCEPT ![n] = waiter]
      /\ torn' = [torn EXCEPT ![n] = 0]
      /\ queued' \subseteq Names
  BY DEF Suspend, Ongoing, TypeOK
<1> HIDE DEF new
<1>3. /\ waiters' \in [Names -> Waiter]
      /\ Cardinality({k \in Names : waiters'[k].used}) <= MaxWaiters
  BY <1>2, WaiterPlaced
<1>4. /\ memory' \in [Names -> TaskState] /\ memory'[n] = new
      /\ fibers' \in [Names -> Places] /\ fibers'[n] = place
      /\ torn' \in [Names -> Nat] /\ torn'[n] = 0
      /\ \A k \in Names : k # n =>
           memory'[k] = memory[k] /\ fibers'[k] = fibers[k] /\ torn'[k] = torn[k]
  BY <1>1, <1>2 DEF TypeOK
<1> QED
  BY <1>1, <1>2, <1>3, <1>4 DEF Stepped, Over

LEMMA EndSteps ==
  ASSUME TasksAssumption, TypeOK, NEW n \in Names, NEW task \in TaskState,
         NEW waiter \in Waiter, waiter.used => WaiterLeft(n),
         NEW blocks \in Nat, RunsBefore(n) = 0,
         blocks = IF task.isCancelled THEN 1 ELSE 0,
         ~(task.isDone /\ task.isCancelled),
         EndStep(n, task, waiter, blocks)
  PROVE  Stepped(n)
<1> DEFINE new == [task EXCEPT !.isRunning = FALSE, !.taskFiber = FALSE]
<1>1. /\ new \in TaskState /\ ~new.taskFiber
      /\ new.isCancelled = task.isCancelled /\ new.isDone = task.isDone
  BY DEF TaskState
<1>2. /\ memory' = [memory EXCEPT ![n] = new]
      /\ fibers' = [fibers EXCEPT ![n] = "none"]
      /\ waiters' = [waiters EXCEPT ![n] = waiter]
      /\ torn' = [torn EXCEPT ![n] = blocks]
      /\ queued' \subseteq Names
  BY DEF EndStep, TypeOK
<1> HIDE DEF new
<1>3. /\ waiters' \in [Names -> Waiter]
      /\ Cardinality({k \in Names : waiters'[k].used}) <= MaxWaiters
  BY <1>2, WaiterPlaced
<1>4. /\ memory' \in [Names -> TaskState] /\ memory'[n] = new
      /\ fibers' \in [Names -> Places] /\ fibers'[n] = "none"
      /\ torn' \in [Names -> Nat] /\ torn'[n] = blocks
      /\ \A k \in Names : k # n =>
           memory'[k] = memory[k] /\ fibers'[k] = fibers[k] /\ torn'[k] = torn[k]
  BY <1>1, <1>2 DEF TypeOK, Places
<1> QED
  BY <1>1, <1>2, <1>3, <1>4 DEF Stepped

\* The body of the task runs up to its next suspension, or to its end.
LEMMA BodySteps ==
  ASSUME TasksAssumption, TypeOK, NEW n \in Names, NEW task,
         Ongoing(n, task), NEW waiter \in Waiter,
         waiter.used => waiters[n].used, Body(n, task, waiter)
  PROVE  Stepped(n)
<1>1. waiter.used => WaiterLeft(n)
  BY DEF WaiterLeft
<1>2. task \in TaskState /\ RunsBefore(n) = 0
      /\ ~task.isDone /\ ~task.isCancelled
  BY DEF Ongoing, Over
<1>3. /\ now \in Nat /\ MaxTime \in Nat
  BY DEF TypeOK, Times, TasksAssumption
<1>4. CASE Yield(n, task, waiter)
  BY <1>1, <1>4, SuspendSteps DEF Yield, Places
<1>5. CASE \E delay \in 0 .. 2 : Wait(n, task, waiter, delay)
  <2>1. PICK delay \in 0 .. 2 : Wait(n, task, waiter, delay)
    BY <1>5
  <2> DEFINE asleep == [task EXCEPT !.waitTimerMs = now + delay]
  <2>2. now + delay \in Times
    BY <1>3, <2>1 DEF Wait, Times
  <2>3. asleep \in TaskState /\ ~Over(asleep)
    BY <1>2, <2>2 DEF TaskState, Over
  <2>4. Suspend(n, asleep, "timer", waiter, Requeues(n))
    BY <2>1 DEF Wait
  <2> HIDE DEF asleep
  <2> QED
    BY <1>1, <1>2, <2>3, <2>4, SuspendSteps DEF Ongoing, Places
<1>6. CASE \E timeout \in 0 .. 2 : WaitFor(n, task, waiter, timeout)
  <2>1. PICK timeout \in 0 .. 2 : WaitFor(n, task, waiter, timeout)
    BY <1>6
  <2>2. CASE Suspend(n, task, "found", waiter, FALSE)
    BY <1>1, <2>2, SuspendSteps DEF Places
  <2>3. CASE Suspend(n, task, "refused", waiter, FALSE)
    BY <1>1, <2>3, SuspendSteps DEF Places
  <2> DEFINE entry == [used |-> TRUE, isWaiting |-> TRUE,
                       deadline |-> IF timeout > 0 THEN now + timeout ELSE 0]
  <2>4. CASE WaiterLeft(n)
               /\ Suspend(n, task, "event", entry, timeout > 0)
    <3>1. (IF timeout > 0 THEN now + timeout ELSE 0) \in Times
      BY <1>3, <2>1 DEF WaitFor, Times
    <3>2. entry \in Waiter
      BY <3>1 DEF Waiter
    <3> HIDE DEF entry
    <3> QED
      BY <2>4, <3>2, SuspendSteps DEF Places
  <2> QED
    BY <2>1, <2>2, <2>3, <2>4 DEF WaitFor
<1>7. CASE Finish(n, task, waiter)
  <2> DEFINE done == [task EXCEPT !.isDone = TRUE]
  <2>1. done \in TaskState /\ ~done.isCancelled
    BY <1>2 DEF TaskState
  <2>2. EndStep(n, done, waiter, 0)
    BY <1>7 DEF Finish
  <2> HIDE DEF done
  <2> QED
    BY <1>1, <1>2, <2>1, <2>2, EndSteps
<1>8. CASE CancelSelf(n, task, waiter)
  <2> DEFINE cancelled == [task EXCEPT !.isCancelled = TRUE]
  <2>1. cancelled \in TaskState /\ cancelled.isCancelled /\ ~cancelled.isDone
    BY <1>2 DEF TaskState
  <2>2. EndStep(n, cancelled, waiter, 1)
    BY <1>8 DEF CancelSelf
  <2> HIDE DEF cancelled
  <2> QED
    BY <1>1, <1>2, <2>1, <2>2, EndSteps
<1> QED
  BY <1>4, <1>5, <1>6, <1>7, <1>8 DEF Body

\* CelsTaskStep, for the state a mount or a rerun finds.
LEMMA TaskSteps ==
  ASSUME TasksAssumption, TypeOK, NEW n \in Names, NEW task \in TaskState,
         RunsBefore(n) = IF task.isCancelled THEN 1 ELSE 0,
         ~(task.isDone /\ task.isCancelled),
         task.taskFiber <=> FiberOf(n) # "none",
         task.taskFiber => ~Over(task),
         TaskStep(n, task)
  PROVE  Stepped(n)
<1>1. /\ memory \in [Names -> TaskState] /\ fibers \in [Names -> Places]
      /\ waiters \in [Names -> Waiter] /\ torn \in [Names -> Nat]
      /\ queued \subseteq Names /\ waiters[n] \in Waiter
      /\ Cardinality({k \in Names : waiters[k].used}) <= MaxWaiters
  BY DEF TypeOK
\* The task stays where it is, and nothing else changes but the queue and,
\* maybe, its waiter.
<1>2. ASSUME NEW new \in TaskState, new.taskFiber = task.taskFiber,
             new.isDone = task.isDone, new.isCancelled = task.isCancelled,
             Stays(n, new), queued' \subseteq Names,
             waiters' \in [Names -> Waiter],
             Cardinality({k \in Names : waiters'[k].used}) <= MaxWaiters
      PROVE  Stepped(n)
  <2>1. FiberOf(n) \in Places
    BY <1>1 DEF FiberOf, Places
  <2>2. RunsBefore(n) \in Nat
    BY <1>1 DEF RunsBefore
  <2>3. /\ memory' \in [Names -> TaskState] /\ memory'[n] = new
        /\ torn' \in [Names -> Nat] /\ torn'[n] = RunsBefore(n)
        /\ fibers' \in [Names -> Places] /\ fibers'[n] = FiberOf(n)
        /\ \A k \in Names : k # n =>
             memory'[k] = memory[k] /\ fibers'[k] = fibers[k] /\ torn'[k] = torn[k]
    BY <1>1, <1>2, <2>1, <2>2 DEF Stays
  <2> QED
    BY <1>2, <2>3 DEF Stepped, Over
<1>3. CASE Stays(n, task) /\ queued' \subseteq Names /\ UNCHANGED waiters
  BY <1>1, <1>2, <1>3
<1> DEFINE rested == [task EXCEPT !.waitTimerMs = 0]
<1>4. /\ rested \in TaskState /\ rested.taskFiber = task.taskFiber
      /\ rested.isDone = task.isDone /\ rested.isCancelled = task.isCancelled
  <2>1. 0 \in Times
    BY DEF TasksAssumption, Times
  <2> QED
    BY <2>1 DEF TaskState
<1> HIDE DEF rested
<1>5. CASE Stays(n, rested) /\ queued' \subseteq Names
             /\ UNCHANGED waiters
  BY <1>1, <1>2, <1>4, <1>5
<1>7. CASE Stays(n, rested) /\ UNCHANGED queued
             /\ waiters' = [waiters EXCEPT ![n] = WaitOver(@)]
  <2>1. WaitOver(waiters[n]) \in Waiter
        /\ WaitOver(waiters[n]).used = waiters[n].used
    BY <1>1, WaiterType
  <2>2. waiters' = [waiters EXCEPT ![n] = WaitOver(waiters[n])]
    BY <1>7
  <2>3. /\ waiters' \in [Names -> Waiter]
        /\ Cardinality({k \in Names : waiters'[k].used}) <= MaxWaiters
    BY <2>1, <2>2, WaiterPlaced DEF WaiterLeft
  <2> QED
    BY <1>1, <1>2, <1>4, <1>7, <2>3
<1>6. CASE ~Over(task)
             /\ Body(n, [task EXCEPT !.waitTimerMs = 0, !.isRunning = TRUE],
                     WaitOver(waiters[n]))
  <2> DEFINE new == [task EXCEPT !.waitTimerMs = 0, !.isRunning = TRUE]
  <2>1. 0 \in Times
    BY DEF TasksAssumption, Times
  <2>2. new \in TaskState /\ ~Over(new)
    BY <1>6, <2>1 DEF TaskState, Over
  <2>3. Body(n, new, WaitOver(waiters[n]))
    BY <1>6
  <2> HIDE DEF new
  <2>4. Ongoing(n, new)
    BY <1>6, <2>2 DEF Ongoing, Over
  <2> QED
    BY <1>1, <2>3, <2>4, WaiterType, BodySteps
<1>8. queued \subseteq Names /\ queued \union {n} \subseteq Names
  BY <1>1
<1> QED
  BY <1>3, <1>5, <1>6, <1>7, <1>8 DEF TaskStep, rested

-----------------------------------------------------------------------------

LEMMA InitInv == ASSUME TasksAssumption PROVE Init => Inv
<1> SUFFICES ASSUME Init PROVE Inv
  OBVIOUS
<1>1. 0 \in Times /\ MaxWaiters \in Nat
  BY DEF TasksAssumption, Times
<1>2. {n \in Names : waiters[n].used} = {}
  BY DEF Init, NoWaiter
<1>3. Cardinality({n \in Names : waiters[n].used}) <= MaxWaiters
  <2>1. Cardinality({n \in Names : waiters[n].used}) = 0
    BY <1>2, FS_EmptySet, Zenon
  <2> QED
    BY <1>1, <2>1
<1>4. NoWaiter \in Waiter
  BY <1>1 DEF NoWaiter, Waiter
<1>5. /\ hooks \in [Names -> 0 .. 2] /\ torn \in [Names -> Nat]
      /\ fibers \in [Names -> Places]
  BY DEF Init, Places
<1>6. TypeOK
  BY <1>1, <1>3, <1>4, <1>5, NewTaskType DEF Init, TypeOK
<1>7. EndsOnce
  BY NewTaskType DEF Init, EndsOnce
<1> QED
  BY <1>6, <1>7 DEF Init, Inv, LeftMounted

\* What the invariant says of a task that was mounted at some time.
LEMMA TaskFacts ==
  ASSUME Inv, NEW n \in last
  PROVE  /\ n \in Names /\ memory[n] \in TaskState
         /\ torn[n] = IF memory[n].isCancelled THEN 1 ELSE 0
         /\ ~(memory[n].isDone /\ memory[n].isCancelled)
         /\ n \notin mounted \union orphans => Over(memory[n])
         /\ memory[n].taskFiber <=> fibers[n] # "none"
         /\ memory[n].taskFiber =>
              n \in mounted \union orphans /\ ~Over(memory[n])
  BY DEF Inv, TypeOK, EndsOnce

\* A step of a mounted task leaves the invariant to the others.
LEMMA SteppedInv ==
  ASSUME Inv, NEW n \in Names, Stepped(n), n \in mounted',
         mounted' = mounted \union {n}, last' = last \union {n},
         hooks' \in [Names -> 0 .. 2], orphans' = orphans \ {n},
         UNCHANGED <<now, posted>>, pass'.left \subseteq mounted',
         pass' \in [running : BOOLEAN, left : SUBSET Names]
  PROVE  Inv'
<1>1. TypeOK'
  BY DEF Inv, TypeOK, Stepped
<1>2. EndsOnce'
  <2>1. ASSUME NEW k \in last'
        PROVE  (/\ torn[k] = IF memory[k].isCancelled THEN 1 ELSE 0
                /\ ~(memory[k].isDone /\ memory[k].isCancelled)
                /\ k \notin mounted \union orphans => Over(memory[k]))'
    <3>1. CASE k = n
      BY <3>1 DEF Stepped
    <3>2. CASE k # n
      <4>1. k \in last /\ k \in Names
        BY <2>1, <3>2 DEF Inv, TypeOK
      <4>2. memory'[k] = memory[k] /\ torn'[k] = torn[k]
        BY <3>2, <4>1 DEF Stepped
      <4> QED
        BY <3>2, <4>1, <4>2, TaskFacts DEF Over
    <3> QED
      BY <3>1, <3>2
  <2>2. ASSUME NEW k \in Names
        PROVE  (/\ memory[k].taskFiber <=> fibers[k] # "none"
                /\ memory[k].taskFiber =>
                     k \in mounted \union orphans /\ ~Over(memory[k]))'
    <3>1. CASE k = n
      BY <3>1 DEF Stepped
    <3>2. CASE k # n
      <4>1. memory'[k] = memory[k] /\ fibers'[k] = fibers[k]
        BY <3>2 DEF Stepped
      <4>2. /\ memory[k].taskFiber <=> fibers[k] # "none"
            /\ memory[k].taskFiber =>
                 k \in mounted \union orphans /\ ~Over(memory[k])
        BY DEF Inv, EndsOnce
      <4> QED
        BY <4>1, <4>2 DEF Over
    <3> QED
      BY <3>1, <3>2
  <2> QED
    BY <2>1, <2>2 DEF EndsOnce
<1> QED
  BY <1>1, <1>2 DEF Inv, LeftMounted

LEMMA MountInv ==
  ASSUME TasksAssumption, Inv, NEW n \in Names, Mount(n)
  PROVE  Inv'
<1>1. FiberOf(n) = "none" /\ RunsBefore(n) = 0
  BY DEF Mount, FiberOf, RunsBefore
<1>2. TaskStep(n, NewTask)
  BY DEF Mount
<1>3. ~Over(NewTask)
  BY NewTaskType DEF Over
<1>4. Stepped(n)
  BY <1>1, <1>2, <1>3, NewTaskType, TaskSteps DEF Inv
<1>5. /\ mounted' = mounted \union {n} /\ last' = last \union {n}
      /\ UNCHANGED <<now, posted>>
      /\ pass'.left \subseteq mounted'
      /\ pass' \in [running : BOOLEAN, left : SUBSET Names]
      /\ orphans' = orphans \ {n} /\ hooks' \in [Names -> 0 .. 2]
  BY DEF Mount, Inv, LeftMounted, TypeOK
<1> QED
  BY <1>4, <1>5, SteppedInv

LEMMA RerunInv ==
  ASSUME TasksAssumption, Inv, NEW n \in Names, Rerun(n)
  PROVE  Inv'
<1>1. n \in mounted /\ n \in last
  BY DEF Rerun, Inv, LeftMounted, TypeOK
<1>2. TaskStep(n, memory[n]) /\ memory[n] \in TaskState
  BY DEF Rerun, Inv, TypeOK
<1>3. /\ RunsBefore(n) = IF memory[n].isCancelled THEN 1 ELSE 0
      /\ FiberOf(n) = fibers[n]
  BY <1>1, TaskFacts DEF RunsBefore, FiberOf
<1>4. Stepped(n)
  BY <1>1, <1>2, <1>3, TaskFacts, TaskSteps DEF Inv
<1>5. /\ mounted' = mounted \union {n} /\ last' = last \union {n}
      /\ UNCHANGED <<now, posted>>
      /\ pass'.left \subseteq mounted'
      /\ pass' \in [running : BOOLEAN, left : SUBSET Names]
      /\ orphans' = orphans \ {n} /\ hooks' \in [Names -> 0 .. 2]
  BY <1>1 DEF Rerun, Inv, LeftMounted, TypeOK
<1> QED
  BY <1>1, <1>4, <1>5, SteppedInv

\* A task is ended from outside, or started again: one task changes, and the
\* waiters do not.
LEMMA ReplacedInv ==
  ASSUME Inv, NEW n \in last, NEW new \in TaskState, NEW place \in Places,
         new.taskFiber <=> place # "none",
         new.taskFiber => n \in mounted' \union orphans' /\ ~Over(new),
         NEW count \in Nat,
         count = IF new.isCancelled THEN 1 ELSE 0,
         ~(new.isDone /\ new.isCancelled),
         memory' = [memory EXCEPT ![n] = new],
         fibers' = [fibers EXCEPT ![n] = place],
         torn' = [torn EXCEPT ![n] = count],
         mounted' \subseteq mounted, mounted \subseteq mounted' \union {n},
         n \notin mounted' \union orphans' => Over(new),
         orphans' \subseteq last \ mounted',
         orphans \ {n} \subseteq orphans',
         hooks' \in [Names -> 0 .. 2],
         pass' \in [running : BOOLEAN, left : SUBSET mounted'],
         queued' \subseteq Names,
         UNCHANGED <<now, last, waiters, posted>>
  PROVE  Inv'
<1>1. n \in Names
  BY TaskFacts
<1>2. /\ memory' \in [Names -> TaskState] /\ memory'[n] = new
      /\ fibers' \in [Names -> Places] /\ fibers'[n] = place
      /\ torn' \in [Names -> Nat] /\ torn'[n] = count
      /\ \A k \in Names : k # n =>
           memory'[k] = memory[k] /\ fibers'[k] = fibers[k] /\ torn'[k] = torn[k]
  BY <1>1 DEF Inv, TypeOK
<1>3. /\ mounted' \subseteq last' /\ last' \subseteq Names
      /\ pass' \in [running : BOOLEAN, left : SUBSET Names]
      /\ pass'.left \subseteq mounted'
  BY DEF Inv, TypeOK
<1>4. TypeOK'
  BY <1>2, <1>3 DEF Inv, TypeOK
<1>5. EndsOnce'
  <2>1. ASSUME NEW k \in last'
        PROVE  (/\ torn[k] = IF memory[k].isCancelled THEN 1 ELSE 0
                /\ ~(memory[k].isDone /\ memory[k].isCancelled)
                /\ k \notin mounted \union orphans => Over(memory[k]))'
    <3>1. CASE k = n
      BY <1>2, <3>1
    <3>2. CASE k # n
      <4>1. k \in last /\ k \in Names
        BY <2>1 DEF Inv, TypeOK
      <4> QED
        BY <1>2, <3>2, <4>1, TaskFacts DEF Over
    <3> QED
      BY <3>1, <3>2
  <2>2. ASSUME NEW k \in Names
        PROVE  (/\ memory[k].taskFiber <=> fibers[k] # "none"
                /\ memory[k].taskFiber =>
                     k \in mounted \union orphans /\ ~Over(memory[k]))'
    <3>1. CASE k = n
      BY <1>2, <3>1
    <3>2. CASE k # n
      <4>1. /\ memory[k].taskFiber <=> fibers[k] # "none"
            /\ memory[k].taskFiber =>
                 k \in mounted \union orphans /\ ~Over(memory[k])
        BY DEF Inv, EndsOnce
      <4> QED
        BY <1>2, <3>2, <4>1 DEF Over
    <3> QED
      BY <3>1, <3>2
  <2> QED
    BY <2>1, <2>2 DEF EndsOnce
<1> QED
  BY <1>3, <1>4, <1>5 DEF Inv, LeftMounted

\* The cleanup may run twice, and the second call finds nothing to do.
LEMMA ReleasedFacts ==
  ASSUME NEW task \in TaskState, NEW hooked \in 0 .. 2,
         ~(task.isDone /\ task.isCancelled)
  PROVE  /\ Released(task, hooked) \in TaskState
         /\ ~(Released(task, hooked).isDone /\ Released(task, hooked).isCancelled)
         /\ BlocksRun(task, hooked) \in Nat
         /\ (IF task.isCancelled THEN 1 ELSE 0) + BlocksRun(task, hooked)
              = IF Released(task, hooked).isCancelled THEN 1 ELSE 0
         /\ IF hooked = 0 THEN Released(task, hooked) = task
            ELSE Over(Released(task, hooked))
                   /\ ~Released(task, hooked).taskFiber
<1> DEFINE once == Cleaned(task)
           twice == Cleaned(once)
<1>1. /\ once \in TaskState /\ Over(once) /\ once.isDone = task.isDone
      /\ ~once.taskFiber
      /\ Over(task) => once.isCancelled = task.isCancelled
      /\ ~Over(task) => once.isCancelled
  BY CleanedFacts
<1>2. /\ twice \in TaskState /\ Over(twice) /\ ~twice.taskFiber
      /\ twice.isDone = once.isDone
      /\ twice.isCancelled = once.isCancelled
  <2> HIDE DEF once
  <2> QED
    BY <1>1, CleanedFacts
<1>3. CASE hooked = 0
  BY <1>3 DEF Released, BlocksRun
<1>4. CASE hooked = 1
  <2>1. Released(task, hooked) = once /\ BlocksRun(task, hooked) = CancelBlocks(task)
    BY <1>4 DEF Released, BlocksRun
  <2> HIDE DEF once
  <2> QED
    BY <1>1, <1>4, <2>1 DEF CancelBlocks, Over
<1>5. CASE hooked = 2
  <2>1. /\ Released(task, hooked) = twice
        /\ BlocksRun(task, hooked) = CancelBlocks(task) + CancelBlocks(once)
    BY <1>5 DEF Released, BlocksRun
  <2>2. CancelBlocks(once) = 0
    BY <1>1 DEF CancelBlocks
  <2> HIDE DEF once, twice
  <2> QED
    BY <1>1, <1>2, <1>5, <2>1, <2>2 DEF CancelBlocks, Over
<1> QED
  BY <1>3, <1>4, <1>5

LEMMA UnmountInv == ASSUME Inv, NEW n \in Names, Unmount(n) PROVE Inv'
<1> DEFINE task == Released(memory[n], hooks[n])
           place == IF task.taskFiber THEN fibers[n] ELSE "none"
           count == torn[n] + BlocksRun(memory[n], hooks[n])
<1>1. n \in mounted /\ n \in last /\ n \notin orphans
  BY DEF Unmount, Inv, TypeOK
<1>2. /\ memory[n] \in TaskState
      /\ ~(memory[n].isDone /\ memory[n].isCancelled)
      /\ torn[n] = IF memory[n].isCancelled THEN 1 ELSE 0
      /\ memory[n].taskFiber <=> fibers[n] # "none"
      /\ memory[n].taskFiber => ~Over(memory[n])
  BY <1>1, TaskFacts
<1>3. hooks[n] \in 0 .. 2 /\ fibers[n] \in Places
  BY DEF Inv, TypeOK
<1>4. /\ task \in TaskState /\ ~(task.isDone /\ task.isCancelled)
      /\ count = IF task.isCancelled THEN 1 ELSE 0
      /\ IF hooks[n] = 0 THEN task = memory[n]
         ELSE Over(task) /\ ~task.taskFiber
  BY <1>2, <1>3, ReleasedFacts
<1>5. /\ memory' = [memory EXCEPT ![n] = task]
      /\ fibers' = [fibers EXCEPT ![n] = place]
      /\ torn' = [torn EXCEPT ![n] = count]
      /\ orphans' = IF hooks[n] = 0 THEN orphans \union {n} ELSE orphans
      /\ hooks' = [hooks EXCEPT ![n] = 0]
      /\ mounted' = mounted \ {n}
      /\ pass' = [pass EXCEPT !.left = @ \ {n}]
      /\ UNCHANGED <<now, last, waiters, posted, queued>>
  BY DEF Unmount
<1> HIDE DEF task, count
<1>6. /\ place \in Places /\ (task.taskFiber <=> place # "none")
      /\ task.taskFiber => n \in orphans' /\ ~Over(task)
      /\ n \notin orphans' => Over(task)
      /\ count \in Nat
  BY <1>2, <1>3, <1>4, <1>5 DEF Places
<1> HIDE DEF place
<1>7. pass' \in [running : BOOLEAN, left : SUBSET mounted']
  BY <1>5 DEF Inv, TypeOK, LeftMounted
<1>8. /\ queued' \subseteq Names /\ hooks' \in [Names -> 0 .. 2]
      /\ orphans' \subseteq last \ mounted' /\ orphans \ {n} \subseteq orphans'
      /\ mounted' \subseteq mounted /\ mounted \subseteq mounted' \union {n}
  BY <1>1, <1>5 DEF Inv, TypeOK
<1>9. /\ task.taskFiber => n \in mounted' \union orphans' /\ ~Over(task)
      /\ n \notin mounted' \union orphans' => Over(task)
      /\ UNCHANGED <<now, last, waiters, posted>>
  BY <1>5, <1>6
<1> QED
  BY <1>1, <1>4, <1>5, <1>6, <1>7, <1>8, <1>9, ReplacedInv

LEMMA CancelTaskInv == ASSUME Inv, NEW n \in Names, CancelTask(n) PROVE Inv'
<1> DEFINE new == Cleaned(memory[n])
<1>1. /\ n \in last /\ n \in mounted /\ ~Over(memory[n])
      /\ memory[n] \in TaskState
      /\ torn[n] = 0 /\ ~memory[n].isDone
  BY TaskFacts DEF CancelTask, Over
<1>2. /\ new \in TaskState /\ ~new.taskFiber /\ Over(new)
      /\ new.isCancelled /\ ~new.isDone
  BY <1>1, CleanedFacts
<1>3. /\ memory' = [memory EXCEPT ![n] = new]
      /\ fibers' = [fibers EXCEPT ![n] = "none"]
      /\ torn' = [torn EXCEPT ![n] = 1]
      /\ UNCHANGED <<now, mounted, last, waiters, posted, queued, pass, hooks,
                     orphans>>
  BY <1>1, <1>2 DEF CancelTask
<1> HIDE DEF new
<1>4. /\ pass' \in [running : BOOLEAN, left : SUBSET mounted']
      /\ queued' \subseteq Names /\ hooks' \in [Names -> 0 .. 2]
      /\ orphans' \subseteq last \ mounted' /\ "none" \in Places
  BY <1>3 DEF Inv, TypeOK, LeftMounted, Places
<1> QED
  BY <1>1, <1>2, <1>3, <1>4, ReplacedInv

LEMMA RestartInv ==
  ASSUME TasksAssumption, Inv, NEW n \in Names, Restart(n)
  PROVE  Inv'
<1>1. /\ n \in last /\ n \in mounted
      /\ memory' = [memory EXCEPT ![n] = NewTask]
      /\ fibers' = [fibers EXCEPT ![n] = "none"]
      /\ torn' = [torn EXCEPT ![n] = 0]
      /\ UNCHANGED <<now, mounted, last, waiters, posted, pass, hooks, orphans>>
  BY DEF Restart
<1>2. /\ pass' \in [running : BOOLEAN, left : SUBSET mounted']
      /\ queued' \subseteq Names /\ hooks' \in [Names -> 0 .. 2]
      /\ orphans' \subseteq last \ mounted' /\ "none" \in Places
  BY DEF Restart, Inv, TypeOK, LeftMounted, Places
<1> QED
  BY <1>1, <1>2, NewTaskType, ReplacedInv

\* An event answers waiters; their entries stay.
LEMMA EmitInv == ASSUME TasksAssumption, Inv, Emit PROVE Inv'
<1>1. waiters \in [Names -> Waiter] /\ queued \subseteq Names
  BY DEF Inv, TypeOK
<1>2. /\ waiters' \in [Names -> Waiter]
      /\ \A n \in Names : waiters'[n].used = waiters[n].used
  BY <1>1, WaiterType DEF Emit
<1>3. {n \in Names : waiters'[n].used} = {n \in Names : waiters[n].used}
  BY <1>2
<1>4. TypeOK'
  BY <1>2, <1>3 DEF Emit, Inv, TypeOK
<1> QED
  BY <1>4 DEF Emit, Inv, EndsOnce, LeftMounted, Over

LEMMA NextInv == ASSUME TasksAssumption, Inv, [Next]_vars PROVE Inv'
<1>1. CASE \E n \in Names : Call(n)
  BY <1>1, MountInv, RerunInv, UnmountInv DEF Call
<1>2. CASE \E n \in Names : CancelTask(n) \/ Restart(n)
  BY <1>2, CancelTaskInv, RestartInv
<1>3. CASE Emit
  BY <1>3, EmitInv
<1>4. CASE BeginPass \/ EndPass \/ HotReload \/ Tick
  <2>1. UNCHANGED <<mounted, last, memory, fibers, waiters, hooks, torn, orphans>>
    BY <1>4 DEF BeginPass, EndPass, HotReload, Tick
  <2>2. now' \in Times /\ posted' \in BOOLEAN /\ queued' \subseteq Names
    <3>1. CASE BeginPass
      BY <3>1 DEF BeginPass, Inv, TypeOK
    <3>2. CASE EndPass
      BY <3>2 DEF EndPass, Inv, TypeOK
    <3>3. CASE HotReload
      BY <3>3 DEF HotReload, Inv, TypeOK
    <3>4. CASE Tick
      BY <3>4 DEF Tick, Inv, TypeOK, Times, TasksAssumption
    <3> QED
      BY <1>4, <3>1, <3>2, <3>3, <3>4
  <2>3. /\ pass' \in [running : BOOLEAN, left : SUBSET Names]
        /\ pass'.left \subseteq mounted'
    <3>1. /\ pass \in [running : BOOLEAN, left : SUBSET Names]
          /\ mounted \subseteq Names /\ pass.left \subseteq mounted
      BY DEF Inv, TypeOK, LeftMounted
    <3>2. CASE BeginPass
      BY <3>1, <3>2 DEF BeginPass
    <3>3. CASE EndPass
      BY <3>1, <3>3 DEF EndPass
    <3>4. CASE HotReload
      BY <3>1, <3>4 DEF HotReload
    <3>5. CASE Tick
      BY <3>1, <3>5 DEF Tick
    <3> QED
      BY <1>4, <3>2, <3>3, <3>4, <3>5
  <2>4. TypeOK'
    BY <2>1, <2>2, <2>3 DEF Inv, TypeOK
  <2>5. EndsOnce'
    BY <2>1 DEF Inv, EndsOnce, Over
  <2> QED
    BY <2>3, <2>4, <2>5 DEF Inv, LeftMounted
<1>5. CASE UNCHANGED vars
  BY <1>5 DEF vars, Inv, TypeOK, EndsOnce, LeftMounted, Over
<1> QED
  BY <1>1, <1>2, <1>3, <1>4, <1>5 DEF Next

-----------------------------------------------------------------------------

\* Inv is inductive.  EndsOnce needs nothing but the types and that a pass
\* runs mounted groups only.
THEOREM TasksInvariance == Spec => []Inv
<1>1. Init => Inv
  BY InitInv, TasksAssumption
<1>2. Inv /\ [Next]_vars => Inv'
  BY NextInv, TasksAssumption
<1> QED
  BY <1>1, <1>2, PTL DEF Spec

\* However many tasks there are and however their timers, waits, restarts,
\* cancels and unmounts meet, CelsTaskStep and _cels_task_clean_ end each run
\* once and free its fiber, but for the tasks that got no hook.
THEOREM RunsEndOnce == Spec => []EndsOnce
<1>1. Inv => EndsOnce
  BY DEF Inv
<1> QED
  BY <1>1, TasksInvariance, PTL

\* The table of waiters never holds more than CELS_MAX_EVENT_LISTENERS.
THEOREM TasksTyped == Spec => []TypeOK
<1>1. Inv => TypeOK
  BY DEF Inv
<1> QED
  BY <1>1, TasksInvariance, PTL
=============================================================================
