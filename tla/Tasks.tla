------------------------------- MODULE Tasks --------------------------------
(***************************************************************************)
(* The cooperative tasks of CELS (src/runtime/task.c and the macros of     *)
(* include/cels/runtime/task.h): a composable that owns a fiber, which it  *)
(* resumes each time its group is run, until the task is done or           *)
(* cancelled.  What happens around a task is modelled as far as it touches *)
(* one: the passes that run groups, the hooks of an unmount, the waiters   *)
(* of the event queue, the clock and the reload of the code.               *)
(*                                                                         *)
(* A resumed fiber runs up to its next suspension in one step, and what it *)
(* does there is any of the things that the body of a task may do.         *)
(***************************************************************************)
EXTENDS Naturals, Sequences, FiniteSets

CONSTANTS
  Names,      \* the tasks, one group of the tree each
  MaxWaiters, \* CELS_MAX_EVENT_LISTENERS
  MaxTime     \* bound of the model: the clock

ASSUME TasksAssumption ==
  /\ IsFiniteSet(Names)
  /\ {MaxWaiters, MaxTime} \subseteq Nat

VARIABLES
  now,     \* CelsGetTimeMs
  mounted, \* the tasks whose groups are mounted
  last,    \* those whose _cels_task_last_ pointer is set
  memory,  \* CelsTaskState of each task, where that pointer points
  fibers,  \* where the fiber of each task stands
  waiters, \* the entry of each task in the waiters of the event queue
  posted,  \* is an event of the awaited type in the queue?
  queued,  \* the keys queued for the next pass
  pass,    \* is a pass running, and the groups marked to run
  hooks,   \* the cleanup hooks of each task in s->cleanups
  torn,    \* history: how often the cancel block of each run was executed
  orphans  \* history: the tasks that unmounted without a hook

vars == <<now, mounted, last, memory, fibers, waiters, posted, queued, pass,
          hooks, torn, orphans>>

Times == 0 .. MaxTime

\* CelsTaskState.  Its step is only ever written, and callerFiber is the
\* thread that makes the call.
TaskState == [waitTimerMs : Times, isRunning : BOOLEAN, isCancelled : BOOLEAN,
              isDone : BOOLEAN, taskFiber : BOOLEAN]

\* Where a fiber stands: suspended at a timer, a yield, a wait for an event,
\* a wait that found its event in the queue, or one that found no room.
Places == {"none", "timer", "yield", "event", "found", "refused"}

\* CelsTaskEventWaiter: used tells whether the entry exists.  What came of the
\* wait is left to module Events, and so is the deadline of a wait that is over,
\* which nobody looks at.
Waiter == [used : BOOLEAN, isWaiting : BOOLEAN, deadline : Times]

NoWaiter == [used |-> FALSE, isWaiting |-> FALSE, deadline |-> 0]

WaitOver(w) == [w EXCEPT !.isWaiting = FALSE, !.deadline = 0]

\* CelsTaskInit
NewTask == [waitTimerMs |-> 0, isRunning |-> TRUE, isCancelled |-> FALSE,
            isDone |-> FALSE, taskFiber |-> FALSE]

TypeOK ==
  /\ now \in Times
  /\ mounted \subseteq last /\ last \subseteq Names
  /\ memory \in [Names -> TaskState]
  /\ fibers \in [Names -> Places]
  /\ waiters \in [Names -> Waiter]
  /\ Cardinality({n \in Names : waiters[n].used}) <= MaxWaiters
  /\ posted \in BOOLEAN
  /\ queued \subseteq Names
  /\ pass \in [running : BOOLEAN, left : SUBSET Names]
  /\ hooks \in [Names -> 0 .. 2]
  /\ torn \in [Names -> Nat]
  /\ orphans \subseteq last \ mounted

Init ==
  /\ now = 0
  /\ mounted = {} /\ last = {}
  /\ memory = [n \in Names |-> NewTask]
  /\ fibers = [n \in Names |-> "none"]
  /\ waiters = [n \in Names |-> NoWaiter]
  /\ posted = FALSE
  /\ queued = {}
  /\ pass = [running |-> FALSE, left |-> {}]
  /\ hooks = [n \in Names |-> 0]
  /\ torn = [n \in Names |-> 0]
  /\ orphans = {}

-----------------------------------------------------------------------------
(* A step of a task.                                                       *)

Over(task) == task.isDone \/ task.isCancelled

\* CelsTaskShouldWait: the timer has not run out.
TimerHolds(task) == task.waitTimerMs > 0 /\ now < task.waitTimerMs

Expired(w) == w.deadline > 0 /\ now >= w.deadline

\* CelsTaskEventShouldWait: there is a waiter, and its deadline is not over.
WaiterHolds(n) == waiters[n].isWaiting /\ ~Expired(waiters[n])

\* The cancel blocks that this run has executed: none if it is a new one.
RunsBefore(n) == IF n \in mounted THEN torn[n] ELSE 0

\* Its fiber: a mount knows nothing of one that an unmount left alive.
FiberOf(n) == IF n \in mounted THEN fibers[n] ELSE "none"

\* The task suspends at place; the group is queued or not.
Suspend(n, task, place, waiter, requeue) ==
  /\ memory' = [memory EXCEPT ![n] = [task EXCEPT !.taskFiber = TRUE]]
  /\ fibers' = [fibers EXCEPT ![n] = place]
  /\ waiters' = [waiters EXCEPT ![n] = waiter]
  /\ queued' = IF requeue THEN queued \union {n} ELSE queued
  /\ torn' = [torn EXCEPT ![n] = RunsBefore(n)]

(* Mutant: a sleeping task is not queued again.                            *)
SleepsUnqueued(n) == FALSE

\* CelsTaskYield and CelsTaskWait queue the group for the next frame.
Requeues(n) == TRUE

\* cel_yield
Yield(n, task, waiter) == Suspend(n, task, "yield", waiter, Requeues(n))

\* cel_wait: a delay of nothing leaves no timer at time zero.  Nobody sleeps
\* where the clock of the model stands still.
Wait(n, task, waiter, delay) ==
  /\ now < MaxTime /\ now + delay <= MaxTime
  /\ Suspend(n, [task EXCEPT !.waitTimerMs = now + delay], "timer", waiter,
             Requeues(n))

(* Mutant: the bound is tested one waiter late.                            *)
WaiterLeftLate(n) ==
  waiters[n].used
    \/ Cardinality({k \in Names : waiters[k].used}) <= MaxWaiters

WaiterLeft(n) ==
  waiters[n].used
    \/ Cardinality({k \in Names : waiters[k].used}) < MaxWaiters

\* cel_wait_for, with a timeout or without (timeout 0).
WaitFor(n, task, waiter, timeout) ==
  /\ now + timeout <= MaxTime
  /\ \/ /\ posted
        /\ Suspend(n, task, "found", waiter, FALSE)
     \/ /\ ~posted /\ WaiterLeft(n)
        /\ Suspend(n, task, "event",
                   [used |-> TRUE, isWaiting |-> TRUE,
                    deadline |-> IF timeout > 0 THEN now + timeout ELSE 0],
                   timeout > 0)
     \/ /\ ~posted /\ ~WaiterLeft(n)
        /\ Suspend(n, task, "refused", waiter, FALSE)

\* The end of the body: CelsTaskFinishFiber, then CelsTaskStep destroys the
\* fiber.
EndStep(n, task, waiter, blocks) ==
  /\ memory' = [memory EXCEPT ![n] =
       [task EXCEPT !.isRunning = FALSE, !.taskFiber = FALSE]]
  /\ fibers' = [fibers EXCEPT ![n] = "none"]
  /\ waiters' = [waiters EXCEPT ![n] = waiter]
  /\ torn' = [torn EXCEPT ![n] = RunsBefore(n) + blocks]
  /\ UNCHANGED queued

Finish(n, task, waiter) ==
  EndStep(n, [task EXCEPT !.isDone = TRUE], waiter, 0)

\* cel_cancel jumps to the cancel block.
CancelSelf(n, task, waiter) ==
  EndStep(n, [task EXCEPT !.isCancelled = TRUE], waiter, 1)

Body(n, task, waiter) ==
  \/ Yield(n, task, waiter)
  \/ \E delay \in 0 .. 2 : Wait(n, task, waiter, delay)
  \/ \E timeout \in 0 .. 2 : WaitFor(n, task, waiter, timeout)
  \/ Finish(n, task, waiter)
  \/ CancelSelf(n, task, waiter)

\* The task stays where it is.
Stays(n, task) ==
  /\ memory' = [memory EXCEPT ![n] = task]
  /\ fibers' = [fibers EXCEPT ![n] = FiberOf(n)]
  /\ torn' = [torn EXCEPT ![n] = RunsBefore(n)]

\* CelsTaskStep, for a task whose state is task.  A task without a fiber may
\* get none, and then nobody queues it.
TaskStep(n, task) ==
  \/ /\ Over(task)
     /\ Stays(n, task)
     /\ UNCHANGED <<waiters, queued>>
  \/ /\ ~Over(task) /\ TimerHolds(task)
     /\ Stays(n, task)
     /\ queued' = queued \union {n}
     /\ UNCHANGED waiters
  \/ /\ ~Over(task) /\ ~TimerHolds(task) /\ WaiterHolds(n)
     /\ Stays(n, [task EXCEPT !.waitTimerMs = 0])
     /\ queued' = queued \union {n}
     /\ UNCHANGED waiters
  \/ /\ ~Over(task) /\ ~TimerHolds(task) /\ ~WaiterHolds(n)
     /\ \/ Body(n, [task EXCEPT !.waitTimerMs = 0, !.isRunning = TRUE],
                WaitOver(waiters[n]))
        \/ /\ ~task.taskFiber
           /\ Stays(n, [task EXCEPT !.waitTimerMs = 0])
           /\ waiters' = [waiters EXCEPT ![n] = WaitOver(@)]
           /\ UNCHANGED queued

-----------------------------------------------------------------------------
(* The composable of a task, in a pass.                                    *)

\* A mount registers the cleanup of the task twice, in a table that others
\* may have filled.
Mount(n) ==
  /\ pass.running /\ n \notin mounted
  /\ mounted' = mounted \union {n}
  /\ last' = last \union {n}
  /\ hooks' \in {[hooks EXCEPT ![n] = count] : count \in 0 .. 2}
  /\ orphans' = orphans \ {n}
  /\ TaskStep(n, NewTask)
  /\ UNCHANGED <<now, posted, pass>>

\* A later run of the group, which registers the cleanup if no hook is there.
Rerun(n) ==
  /\ pass.running /\ n \in pass.left
  /\ pass' = [pass EXCEPT !.left = @ \ {n}]
  /\ \/ UNCHANGED hooks
     \/ hooks[n] = 0 /\ hooks' = [hooks EXCEPT ![n] = 1]
  /\ TaskStep(n, memory[n])
  /\ UNCHANGED <<now, mounted, last, posted, orphans>>

(* Mutant: the fiber of a task that is over is not looked at.              *)
CleanedIfRunning(task) ==
  IF Over(task) THEN task
  ELSE [task EXCEPT !.isCancelled = TRUE, !.isRunning = FALSE]

\* _cels_task_clean_: cancel, if the task is not over, and CelsTaskCleanup.
Cleaned(task) ==
  IF Over(task) THEN [task EXCEPT !.taskFiber = FALSE]
  ELSE [task EXCEPT !.isCancelled = TRUE, !.isRunning = FALSE,
                    !.taskFiber = FALSE]

CancelBlocks(task) == IF Over(task) THEN 0 ELSE 1

\* What the hooks leave of the task.
Released(task, count) ==
  CASE count = 0 -> task
    [] count = 1 -> Cleaned(task)
    [] OTHER -> Cleaned(Cleaned(task))

BlocksRun(task, count) ==
  CASE count = 0 -> 0
    [] count = 1 -> CancelBlocks(task)
    [] OTHER -> CancelBlocks(task) + CancelBlocks(Cleaned(task))

\* The pass unmounts the group and calls its hooks.
Unmount(n) ==
  /\ pass.running /\ n \in mounted
  /\ LET task == Released(memory[n], hooks[n])
     IN /\ memory' = [memory EXCEPT ![n] = task]
        /\ fibers' = [fibers EXCEPT
             ![n] = IF task.taskFiber THEN @ ELSE "none"]
        /\ torn' = [torn EXCEPT ![n] = @ + BlocksRun(memory[n], hooks[n])]
  /\ orphans' = IF hooks[n] = 0 THEN orphans \union {n} ELSE orphans
  /\ hooks' = [hooks EXCEPT ![n] = 0]
  /\ mounted' = mounted \ {n}
  /\ pass' = [pass EXCEPT !.left = @ \ {n}]
  /\ UNCHANGED <<now, last, waiters, posted, queued>>

\* cel_cancel_task, from the host or another composable.  The pointer that it
\* and cel_restart_task follow is left dangling by an unmount: they are called
\* for mounted tasks.
CancelTask(n) ==
  /\ n \in last /\ n \in mounted /\ ~Over(memory[n])
  /\ memory' = [memory EXCEPT ![n] = Cleaned(@)]
  /\ fibers' = [fibers EXCEPT
       ![n] = IF Cleaned(memory[n]).taskFiber THEN @ ELSE "none"]
  /\ torn' = [torn EXCEPT ![n] = @ + 1]
  /\ UNCHANGED <<now, mounted, last, waiters, posted, queued, pass, hooks,
                 orphans>>

\* CelsTaskRestart
Restart(n) ==
  /\ n \in last /\ n \in mounted
  /\ memory' = [memory EXCEPT ![n] = NewTask]
  /\ fibers' = [fibers EXCEPT ![n] = "none"]
  /\ torn' = [torn EXCEPT ![n] = 0]
  /\ queued' = queued \union {n}
  /\ UNCHANGED <<now, mounted, last, waiters, posted, pass, hooks, orphans>>

-----------------------------------------------------------------------------
(* Around the tasks.                                                       *)

\* CelsEventEmit with CheckTaskWaiters.
Emit ==
  /\ posted' = TRUE
  /\ waiters' =
       [n \in Names |->
          IF waiters[n].isWaiting THEN WaitOver(waiters[n]) ELSE waiters[n]]
  /\ queued' = queued \union {n \in Names : waiters[n].isWaiting}
  /\ UNCHANGED <<now, mounted, last, memory, fibers, pass, hooks, torn,
                 orphans>>

\* CelsSessionRecompose: the queued keys mark their groups.
BeginPass ==
  /\ ~pass.running
  /\ pass' = [running |-> TRUE,
              left |-> (pass.left \union queued) \intersect mounted]
  /\ queued' = {}
  /\ UNCHANGED <<now, mounted, last, memory, fibers, waiters,
                 posted, hooks, torn, orphans>>

\* The end of a frame; the event is retired once somebody has read it.
EndPass ==
  /\ pass.running /\ pass.left = {}
  /\ pass' = [pass EXCEPT !.running = FALSE]
  /\ posted' \in {posted, FALSE}
  /\ UNCHANGED <<now, mounted, last, memory, fibers, waiters,
                 queued, hooks, torn, orphans>>

\* CelsSessionHotReload marks every group.
HotReload ==
  /\ ~pass.running
  /\ pass' = [pass EXCEPT !.left = mounted]
  /\ UNCHANGED <<now, mounted, last, memory, fibers, waiters, posted, queued,
                 hooks, torn, orphans>>

Tick ==
  /\ now < MaxTime
  /\ now' = now + 1
  /\ UNCHANGED <<mounted, last, memory, fibers, waiters, posted,
                 queued, pass, hooks, torn, orphans>>

-----------------------------------------------------------------------------

Call(n) == Mount(n) \/ Rerun(n) \/ Unmount(n)

Next ==
  \/ \E n \in Names : Call(n) \/ CancelTask(n) \/ Restart(n)
  \/ Emit \/ BeginPass \/ EndPass \/ HotReload \/ Tick

Spec == Init /\ [][Next]_vars

\* The host goes on with its frames, a pass runs what is marked, and time
\* passes.
FairSpec ==
  /\ Spec
  /\ WF_vars(BeginPass)
  /\ WF_vars(EndPass)
  /\ \A n \in Names : WF_vars(Rerun(n))
  /\ WF_vars(Tick)

-----------------------------------------------------------------------------
(* Properties.                                                             *)

\* A run of a task ends once.  Its cancel block is executed once if it was
\* cancelled, by itself, from outside or by the unmount, and never if it was
\* completed, although an unmount may call the cleanup twice; an unmounted task
\* is over.  And its fiber lives until then: none is leaked by a remount or a
\* restart, and none is resumed after the end.  Only the task whose hooks found
\* the table full from its mount to its unmount goes without an end, and keeps
\* its fiber.
EndsOnce ==
  /\ \A n \in last :
       /\ torn[n] = IF memory[n].isCancelled THEN 1 ELSE 0
       /\ ~(memory[n].isDone /\ memory[n].isCancelled)
       /\ n \notin mounted \union orphans => Over(memory[n])
  /\ \A n \in Names :
       /\ memory[n].taskFiber <=> fibers[n] # "none"
       /\ memory[n].taskFiber =>
            n \in mounted \union orphans /\ ~Over(memory[n])

Overdue(n) ==
  /\ n \in mounted /\ ~Over(memory[n])
  /\ memory[n].waitTimerMs > 0 /\ now >= memory[n].waitTimerMs

\* No task is overdue for ever: one whose timer has run out is resumed, or
\* ended.
SleeperWakes == \A n \in Names : []<>~Overdue(n)
=============================================================================
