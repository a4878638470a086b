# CELS runtime: specification, model checking and proofs

CELS is a reactive composition runtime in C. An application declares a tree of
*composables*; the runtime keeps one *group* per mounted composable in a flat
slot table, remembers data and state cells for it, and on every frame runs
again only what has been invalidated. This directory holds TLA+ modules
translated from `src/src/runtime` and `src/src/host`, TLC configurations that
check them on small instances, and TLAPS proofs, for any sizes, of the safety
properties of the reconciler, the part everything else stands on, and of the
eight components around it.

Line numbers below are those of the repository; `session.c`, `state.c`,
`event.c` and `task.c` are in `src/src/runtime`, `engine.c` and `module.c` in
`src/src/host`. `PROJECT.json` maps every definition to the lines it models and
lists the hazards, findings and theorems one by one.

## The system

| Component | State it keeps | Operations | What makes it correct |
|---|---|---|---|
| Reconciler (`session.c`) | group table in preorder with `parentIndex`, `groupSize` and two flags; stack of open groups; `logicalCursor`; active and next-frame invalidation queues; attached roots | attach, detach, recompose (drain iterations over the attached roots), enter, relocate, insert, skip, exit with pruning, invalidate, hot reload, prune from the host | the table is a tree, the walk and the table agree on where the walk is, skipping loses no invalidation, an invalidated group runs |
| Reactive state (`state.c`) | registry of cells with a front and a back buffer, a dirty flag and a list of watching keys | create, watch, mutate, publish, unsubscribe a group, free | one live cell an identifier, subscriptions end with their group, each write reaches each subscriber |
| Remembered slots (`session.c`) | slots sorted by offset in an arena, allocated from its low end by first fit; state data allocated from its high end; cleanup hooks | resolve a slot, with or without cleanup, release a group's slots, fire its hooks, reset a group whose struct changed size | a live slot overlaps nothing and never moves, each call finds its slot, each resource is released once |
| Events (`event.c`, `engine.c`) | per session: pending records with the readers each has had, registered listeners, waiters with deadlines; for the engine: the staged broadcasts | emit, signal, broadcast, drain, poll, next, retire, wait with a timeout | at most one delivery to a listener, in order, none retired unheard, an answered waiter goes on |
| Engine and sessions (`engine.c`, `session.c:250-390, 940-1080`) | primary and named sessions, staged broadcasts under a mutex, module bindings; global registry of sessions; the thread's ambient engine and session | start, frame, end, destroy; create, look up, recompose all and destroy sessions; bind and resolve modules | a frame runs whenever one is needed; nothing a callback can reach has been freed; each module is released once |
| Tasks (`task.c`, `fiber.c`) | a fiber per task, timer, end flags; its waiter in the event queue | step, yield, wait, wait for an event, cancel, restart, clean up | a run ends once and frees its fiber, a sleeper wakes |
| Transactions (`session.c:1600-1900`) | two batches of staged operations, one being written and one ready | stage, commit, swap, read, clear | each accepted operation is handed over once, in order, with its payload |
| Application modules (`module.c`, `app.h`) | loaded libraries, their copies on the disk, the registry of active modules | load, bind statically, start, reload, unload, clean up at exit | no body of an unmapped library is attached, no copy is left behind, the newest build runs |
| Dual gap buffer (`slot_table.c`) | groups and words in two arrays with a gap each; used by its tests only | write, skip, move the gap, read, invalidate, walk | equals an ordered forest |
| Transitions (`transition.c`) | current, start and target value, elapsed time | step, retarget | settles on the last target |
| Platform, macros, examples, tests | | | not part of the runtime's own logic |

How they interact. The host calls the engine once a frame; the engine drains
the staged broadcasts into every session and recomposes each session. A pass
publishes the state cells, moves next-frame keys to the active queue, then
repeats *drain iterations*: flag the queued groups, walk the attached roots,
stop when nothing has been queued meanwhile. In the walk the bodies of the
application call back into the session: they enter children, remember slots,
create, watch and mutate cells, poll events, stage operations. A group that
leaves the tree releases its slots, fires its hooks (one of them frees the
cells it remembered, one cancels its task) and loses its subscriptions. Events,
mutations and tasks come back to the reconciler only as keys in the
invalidation queues. A pass that converges ends with the host's hook, which
commits the staged operations or hands them to a worker. A reload swaps the
code under a session and marks all its groups; a session that is destroyed
fires the hooks of all its groups while its modules still answer lookups.

What is hard. All of it is index arithmetic over one flat table that is
changed *while* a walk holds indices into it; every callback may change what
the caller has read, and destroy the session next to the one that runs;
invalidations arrive between passes, during a pass and from inside the body
that is running; other threads broadcast while the host drains, work off a
batch while it stages, write the library that it loads; tables, queues and lists are of fixed size and refuse silently. The 40
places where this bites are the hazards of `PROJECT.json`, each with the
properties that would catch it, or with the reason why none does yet.

## Modules

| Module | Models | Lines of code |
|---|---|---|
| `Reconciler` | one session's table and its recompose loop | `session.c:150-200, 560-760, 840-1390` |
| `CompositionTree` | what the reconciler promises: a tree of identities | abstract |
| `StateCells` | the registry of cells and the passes that publish it | `state.c`, `session.c:830-940` |
| `SlotArena` | slots, arena and hooks of the composables of a session | `session.c:360-400, 640-800, 1395-1560` |
| `Events` | events, waiters and frames of an engine with two sessions | `event.c`, `engine.c:200-420`, `task.c` |
| `Transactions` | the two batches, the host's frames and the worker thread | `session.c:1600-1900` |
| `Tasks` | the tasks of a session and what resumes and ends them | `task.c`, `task.h`, `event.c:85-130` |
| `SlotForest` | what the standalone table promises: an ordered forest | abstract |
| `GapTable` | the standalone table, its writer, reader and walk | `slot_table.c` |
| `AppModules` | libraries, copies, linker and host processes | `module.c`, `app.h` |
| `Sessions` | engine, sessions, ambient pointers and module bindings | `engine.c`, `session.c:250-390, 940-1080` |
| `ReconcilerProofs`, `StateCellsProofs`, `SlotArenaProofs`, `EventsProofs`, `TasksProofs` | theorems about the module each is named after | |
| `BufferProofs` | theorems about `Transactions` and about `GapTable`, the two buffers beside the reconciler | |
| `HostProofs` | theorems about `Sessions` and about `AppModules`, what a host has running | |
| `Induction` | induction and recursion over numbers, for the proofs about loops | |
| `MCReconciler`, `MCStateCells`, `MCSlotArena`, `MCEvents`, `MCTransactions`, `MCTasks`, `MCGapTable`, `MCAppModules`, `MCSessions` | the instances TLC checks | |

`CompositionTree` is composed with `Reconciler` by a refinement mapping
(`AbstractTree` at the end of `Reconciler`). `StateCells` and `Events` each
repeat the part of the recompose loop their component depends on (queue, flags,
drain iterations) and leave the order in which the bodies run open, which
admits every order `Reconciler` can produce; `SlotArena` keeps only the
nesting of the running bodies. `GapTable` implements `SlotForest` in the same
way. `Tasks` repeats the waiters of `Events` as far as they hold a task back or
resume it. `Sessions` and `AppModules` stand above a session: a pass is to them
a stretch of user code.

### Reconciler

`groups` is the table in logical order: the gap of the buffer
(`MoveGroupGap`) is abstracted, indices are the logical indices of the code
plus 1. A group has its key, identity (`nextGroupId`), parent index, subtree
size and the flags `inv` (`CELS_FLAG_INVALIDATED`) and `cont`
(`CELS_FLAG_CONTAINS_INVALIDATED`). `stack` is `activeStack` with
`groupIndexStack`; a frame that was refused or skipped has `active` FALSE, and
`end` is the `expectedEnd` of the pruning loop once the body has closed.

Each early return is an action. `CelsSessionRecompose` is split where it calls
a body: `Recompose`, `SkipDetached`, `EnterComposition`,
`EnterCompositionFull`, `EndComposition`, `NextIteration`, `Converge`,
`DidNotConverge`. `CelsEnterComposable` has one action per outcome: `EnterTooDeep`,
`EnterClean` (relocate if needed, skip), `EnterDirty` (relocate if needed, clear the
flags, run), `EnterFull`, `EnterNew`. `CelsExitGroup` is one step per pruned
child (`PruneUnvisited`, since hooks run in between) and `ExitGroup`. The
host may do everything else between passes: `Attach`, `Detach`, `HostPrune`,
`HotReload`, `InvalidateKey`, `InvalidateKeyImmediate`; bodies may invalidate
at any point of theirs. The C loops over the table are set comprehensions:
`OpenAt`, `Grow`, `CloseUp`, `Shrink`, `MovedTo`, `Drained`.

Assumptions. A pass may be started at any time, as the first mount, a hot
reload or a dirty cell make the code do. Hooks fired by a prune invalidate
nothing. A frame past `CELS_MAX_DEPTH` overwrites what lies behind
`activeStack` in the session; the model takes this write as harmless. The
capacities of the attached list (16) and of the queues (2048) and the 16 bits
of `groupSize` are not modelled.

### CompositionTree

Mounted identities with their parents and keys, which of them are due, which
are open, which the walk has seen. No indices, no sizes, no order of siblings.
`ImplementsCompositionTree` says that every step of the table is a step of
this tree or none: a relocation changes nobody's parent, an insertion adds one
leaf under the innermost open body, a prune removes exactly the subtree of an unvisited
child, a body runs only if it is due or new, and closing a body requires that
all its children were visited or dropped. The mapping forgets the places: `UpOf`,
`LabelOf`, `DueOf`, `OpenOf` and `SeenOf` read each group by its identity.

### StateCells

`cells` is the registry in order; `front` and `back` hold the number of the
write each buffer carries. `Create` is `CelsStateGetOrCreateCell`,
`RememberState` and `ResolveStateInstance` the two ways a cell is obtained (by a
shared identifier, by a mounted composable), `Watch` and `WatchOutside` the two
outcomes of `CelsStateWatch`, `Mutate` is `CelsStateMutate`, `Publish` is
`CelsStatePublishDirty`, `Drop` is the unmount with its hook
(`CelsStateInstanceCleanup`) and `CelsStateRegistryUnsubscribeKey`. `seen` (what a group's last run read) and
`missed` (reads no subscription covered when the write came) are history
variables; no guard depends on them. The assertion on a full registry
(`state.c:81`) leads to `phase = "overflow"`. Keys of mounted groups are
distinct here.

### SlotArena

Sizes are in units of the arena's alignment. A body makes `Calls` remember
calls in order, each of the size the loaded code asks for (`sizeOf`);
`AllocateSlot`, `RefuseSlot`, `FindSlot`, `ResizedSlot` and `LostSlot` are the
outcomes of `CelsResolveSlotWithCleanup`, `Registered` and `Updated` the two
hook registrations, `Prune` the release of a group, `AllocData` the other end
of the arena, `HotReload` a library that asks for other sizes. Any group that
is not running may run again or be pruned, which admits more than the reconciler
does. `broken` remembers the groups that were refused memory or reset.
`WithoutUpTo` and `BytesUpTo` are the loops of `ReleaseSlotsForGroup` that
compact the table and lower `dataGapStart`, turn by turn.
`CallsRemembered` says that for each group not in `broken` one assignment of
slots answers all the calls its body has made, and that only a group in
`broken` can meet the assertion on the order of slots.

### Events

Two sessions under one engine in retained mode. A record has an identity, a
scope and its readers (`seen`, at most `MaxConsumers`); `handed` is history.
`Emit`, `Signal` and `Broadcast` are the senders and may run at any time
(`Soon` is the branch for a session that is composing); `StartFrame`,
`SkipPass`, `BeginPass`, `NextIteration`, `DidNotConverge` and `Finish` are
the frame; `Poll` and `NextEvent` the listen loop of a listener; `KeepWaiting`,
`Resume`, `WaitFound` and `WaitRegistered` the outcomes of `CelsTaskWaitForEvent`
and of the step around it; `Expire` is a deadline that passes. Threads other
than the host's only broadcast, under the engine's mutex, so `Broadcast` is one
step.

`FloodedUpTo` is the loop of `CelsEngineDrainBroadcasts` over the staged
broadcasts, `KeptUpTo` that of `CelsEventRetireConsumed` over a queue, turn by turn.

One type of event and one root per session. The order in which bodies and
sessions run is left open. A task that runs here is a composable with a fiber;
what ends one is in `Tasks`. Nested listen loops that share `pollCursor`,
`CelsEventQueueClear` and the broadcast of a session without an engine are left out.

### Transactions

Two threads. The host thread stages (`StageSet`, `StageRemove`, `StageDelete`,
`StageCustom`), runs passes (`BeginRecompose`, `AbandonRecompose` for one that
does not converge, `FinishRecompose`) and ends them with the hook it has set:
`BeginCommit`, `CommitOp`, `EndCommit` are the loop of
`CelsSessionCommitTransactions` with a step for each call of the handler, which
may stage more; `SwapTransactionBatches` is the other hook. The worker thread
does `GetReadyBatch`, `WorkOp` for each operation, `ClearReadyBatch`. An
operation is known by the number it was accepted with, a byte by the operation
that wrote it; what is staged by a handler is numbered 0, since the commit empties
the batch behind it and the operation is never handed over.

`Lockstep` is what a correct host adds to the code: it ends a frame without a
swap (`SkipSwap`) while the worker has not cleared its batch. With `Lockstep =
FALSE` the swap empties the batch that the worker reads, and `AppliedInOrder`
fails within one frame (see *Known exceptions*).

### Tasks

A task is a group with a `CelsTaskState`, a fiber and perhaps a waiter.
`TaskStep` is `CelsTaskStep`: over, timer, waiter, or resume, in the order of the
code, and a resumed fiber runs to its next suspension in one step: `Yield`,
`Wait`, the three outcomes of `WaitFor`, `Finish`, `CancelSelf`. `Mount` and
`Rerun` are the two ways a pass reaches it, `Unmount` fires the cleanup hook
twice, as the registration in `CEL_Task` makes it, `CancelTask` and `Restart`
come from anywhere. `torn` counts the cancel blocks of the present run. An
entry of `waiters` outlives its run, as in the code.

### SlotForest and GapTable

`GapTable` keeps the arrays with their gaps: `MovedLeft` and `MovedRight` are the
two branches of `CelsSlotTableMoveGapTo` with its memmove, memset and the
correction of `slotIndex`; `GroupStart`, `GroupEnd`, `SlotWrite`, `NodeEmit`,
`SlotSet`, `WriterGroupSkip` are the writer, `ReaderGroupStart`, `ReaderGroupEnd`,
`ReaderGroupSkip`, `SlotRead` the reader, `GroupInvalidate`, `ClearAllFlags` the
flags. `WalkEnter` and `WalkSkip` are the walk that the header describes for
the flags (`slot_table.h`), which the file leaves to its caller. The guards
name what a caller has to see to: links are renumbered before an insertion
(`ShiftParents`), trees are inserted between trees, and the gap moves no further
than fits (`Fits`). `SlotForest` is the list of groups in preorder with depths;
`Forest` reads it off the arrays. The loops whose result a proof needs at every
turn are recursive functions of the number of turns: `SumOf` (the count of words in
front of a target) and `Above` (the climb of the parent links).

### AppModules

Two applications from one library file, a linker that writes it, and the
processes of a host one after the other. `AppLoad` and `EngineLoadApp` begin a
load, `CheckReload` and `AppReload` a reload; both go on with `Copy` (Windows
only), then `LoadOpen`, `OpenRefused`, `OpenForeign` or `Swap`, then `Release` of
the old library. Between two of these the linker may take a step (`LinkStart`,
`LinkEnd`), and the process may end (`Crash`). `AppDestroy` is the unload,
`Exit` the handler at exit. A file is a build number and how far it is written;
the loader (external) maps a path once and counts how often it was opened.
`Windows` chooses the branch of the platform helpers.

### Sessions

One host thread, whose C stack is `calls`: bodies, cleanup hooks, `onStart`, `onEnd` and
`onDestroy` are user code in the middle of a call, and make calls of their own.
A session is a piece of memory that is used again after it is freed, so that a
dangling pointer is seen. `SessionCreate` and `EngineCreateSession` are the two
kinds of sessions, `Recompose`, `RecomposeAllSessions` with `RecomposeAllTurn`,
and `EngineRecompose` with `EngineTurn` the three ways to run them, one turn of the
loop a step; `EndPass` restores the ambient session as the code does, which
differs between a pass that converges and one that does not. `SessionDestroy`, `HooksFired`, `CallOnDestroy`,
`NextModule`, `EndDestroy` are `CelsSessionDestroy`; `EngineDestroy`,
`ModulesGone`, `DestroyOwned`, `EndEngineDestroy` the engine's.

Assumptions. User code destroys no session that a call in progress runs or has saved as
the ambient one (`Held`). Code that runs in a teardown looks things up and
closes other sessions, and neither creates nor binds. A module struct is bound once.

## Runs

Passing runs:

| Run | Instance | Distinct states | Shows |
|---|---|---|---|
| `Reconciler` | root and two kinds of children (interchangeable), 4 groups, depth 3, 5 identities, 2 drain iterations, at most one queued key | 534,186 | `TreeOK`: parents and sizes describe one preorder tree; `WalkOK`: open groups are a chain of parents and the cursor is between two children of the innermost; `SkipSound`: an unflagged group hides no flagged one; `VisitedClean`: behind the cursor nothing is flagged; `NoSizeMismatch`: the assertion at `session.c:1376` holds |
| `ReconcilerRefines` | the same with 5 groups and 4 identities | 201,919 | `ImplementsCompositionTree` |
| `StateCells` | one composable with its own cell, one shared cell, 2 watchers, 2 queued keys, 3 cells, 2 writes, 2 drain iterations | 470,072 | `RegistryOK`: cells, holders and subscriptions match the mounted groups; `SubscribersPending`: a subscriber that shows an old value is queued or flagged; `SubscribersRefreshed`: and is shown the new one in the end |
| `SlotArena` | 3 identities of one composable, 2 remember calls of sizes 1 or 2, arena of 6, 4 slots, 2 hooks, one reload | 1,527,659 | `SlotsDisjoint`: slots are sorted, apart and accounted for; `CallsRemembered`: what a body remembered it finds again; `PointersPinned`: a slot keeps its address while it lives |
| `Events` | session `main` with two listeners of different scopes, session `tool` with one task, queues and tables of 2, 3 events | 150,693 | `HandedOnce`, `BroadcastsInOrder`, `OneOutcome` (a waiter is answered or timed out, not both), `WakeupPending` (an answered waiter or one past its deadline has its key scheduled), `RetiredOnceHeard` (an event leaves the queue only once it was read and every composable listening when it was queued has been handed it, signals sent into a running pass excepted), `EventuallyHanded` (an event queued for a listener is handed to it in the end) |
| `Transactions` | batches of 2 operations and 2 bytes, 4 operations | 155,387 | `AppliedInOrder`: what has been handed over is 1, 2, 3 and so on, and what was accepted after that is in the batches, in order; `PayloadsIntact`: the bytes of an operation are those it was staged with; `EventuallyApplied`: each accepted operation is handed over |
| `Tasks` | 2 tasks, 1 waiter, clock up to 3 | 103,808 | `EndsOnce`: the cancel block of a run is executed once or, if it completed, never, and its fiber lives exactly as long as the run; `SleeperWakes`: no task sleeps past its timer for ever |
| `GapTable` | 4 groups, 2 words, depth 3 | 493,002 | `ReaderNested`: links and sizes tell one tree, and a reader is in the subtree it thinks it is; `NoneSkipped`: no invalidated group is jumped over; `ImplementsSlotForest` |
| `AppModules` | Windows, 2 applications, room for 1, 3 builds, 2 loads in each of 2 processes | 257,045 | `BodiesLoaded`: a session runs the library its application has mapped; `ShadowsOwned`: no copy is left behind by a failed load, a reload or a crash; `NewestRuns`: a loaded application runs the last complete build in the end |
| `Sessions` | one engine with one named session, 3 session memories beside the primary, registry of 2, 2 modules | 1,530,768 | `SessionsLive`: registry, engine, ambient pointers and calls name live sessions only; `ReleasedOnce`: each module is released once, in reverse order of its binding, while those before it still answer |

The bounds. Four groups at depth 3 are the least with a relocation across a
sibling that has a child, and with parent indices in all three ranges that
`MovedTo` renumbers; five groups with four identities add the relocation of a
subtree with a child while the table still has room. Two drain iterations are
the least with both a successful one and one that gives up. Five identities
let a child be dropped and mounted again in one run. Two writes are the least with a
write after a publication. Arena 6 with sizes 1 and 2 has holes that fit
and holes that do not. Two slots of everything in `Events` make each table full.
Four operations fill both batches of `Transactions` and two bytes are used up
by one operation or by two, so that either limit refuses. One waiter for two
tasks refuses the second; a clock of 3 has a timer and a deadline expire in either
order. Four groups of `GapTable` are the least with two trees of which one has a
subtree to skip, and two words let the slot gap lie inside, before and behind a
group's words. Two processes show what a crash leaves to the next; three
builds put a second write into the middle of a reload. Three session memories
are one more than the registry holds, and let a body destroy one session while
it creates another.

`Transactions`, `Tasks`, `GapTable` and `AppModules` are checked for deadlock
too. In the others a host may stop calling, the bounds end every history, and a
failed assertion stops the program.

Runs whose property the code does not satisfy. Each states a sentence of the
repository's documentation, and each is a finding in `PROJECT.json`:

| Run | Property | What TLC finds |
|---|---|---|
| `SlotCollision` | `ArenaEndsApart` | the high end of the arena is compared with the bytes in use, not with where the last slot ends (`session.c:378`) |
| `AppDeletes` | `LibraryKept` | outside Windows there is no copy, and what deletes the copy deletes the library itself (`module.c:763`) |

### Known exceptions

What the code does at these places is in the models, or kept out of them by a
guard that is named here; the properties above are stated so that they hold
besides. Each place is a hazard in `PROJECT.json`.

- A root entered with a full table is not pushed and is exited all the same
  (`session.c:1147, 899`): `EnterCompositionFull` ends the history. What follows
  a pass is therefore explored on tables with at least one free group, and the
  instances have one group more than the trees they are meant for.
- Entering a second attached composition prunes the first (`session.c:1173`).
  `EnterComposition` models it and the proofs cover it; the runs have one root key.
- A group that subscribes after the write of its iteration keeps the old
  value after the publication that ends the pass (`session.c:932`);
  `SubscribersPending` and `SubscribersRefreshed` are about those that were subscribed.
- On a rerun the second remembered resource of a group takes over its first
  hook (`session.c:768`).
- A reset for a changed size loses the slots before it, and the next run meets
  an assertion (`session.c:1503-1513`); `CallsRemembered` excepts such groups.
- A task whose event is queued already is suspended with nothing to resume it
  (`event.c:417`).
- A swap empties a batch whether or not its worker has read it
  (`session.c:1823`, against `docs/architecture/double-buffering-model.md:306`);
  the run assumes `Lockstep`.
- Moving the gap by more than its length wipes part of what was moved
  (`slot_table.c:699`); `Fits` keeps such moves out.
- A converging pass that found no ambient session leaves its own as the ambient
  one; a body that destroys the session a call has saved leaves a dangling one,
  and one that removes an entry before the loop's index makes
  `CelsRecomposeAllSessions` pass over a session (`session.c:945, 354`); `Held` keeps the first out.
- The hooks of an engine's sessions run after its modules are gone
  (`engine.c:117`); `ReleasedOnce` promises modules to the hooks of sessions that own theirs.

### Fairness

`StateCells` assumes `WF_vars(Traverse)`: the host keeps calling the recompose
function, bodies return, and the walk reaches the groups that are due. Only
steps of the runtime are in `Traverse`; what a body or a user does is not
fair, and the order of the steps is not constrained. `Events` assumes
`WF_vars(Host)`: a retained host runs a frame while `NeedsRecompose` is true,
as its loop does, and a body that was started returns. `Host` is disabled when
`NeedsRecompose` is false, so `EventuallyHanded` depends on that predicate
being right. Nothing is assumed of senders or of deadlines.

`Transactions` (`FairSpec`): the host's loop begins frames, a handler returns
and the worker thread is scheduled (weak fairness of `BeginRecompose`,
`CommitOp`, `EndCommit`, `Work`); and not every pass fails to converge or meets a busy
worker (strong fairness of `BeginCommit` and `SwapTransactionBatches`: each is
disabled again and again by frames that are given up). `Tasks`: the host's frames begin
and end, a pass runs each marked group, time passes; nothing is assumed of what
tasks do or of who cancels them, so that `SleeperWakes` rests on the queueing in
`CelsTaskStep`. `AppModules`: a call that was begun goes on, and each
application is checked again and again while its library can be reloaded
(strong, since the linker closes and opens that window); the linker and the user
are free. `Reconciler`, `SlotArena`, `GapTable` and `Sessions` have no liveness property.

## Proofs

`ReconcilerProofs` proves, for every set of keys and root keys and all positive
bounds (the assumption of `Reconciler` on its constants is the only one):

- `Invariance`: `Spec => []Inv`, with `Inv` the conjunction of the six
  invariants the run `Reconciler` checks. No property is inductive alone: that
  a relocation is right needs the cursor to be on a boundary (`WalkOK`), that
  needs the table to be a tree (`TreeOK`), skipping keeps the cursor behind settled
  groups only because of `SkipSound`, which exempts the open groups that
  `WalkOK` describes. Together they are inductive, with no further strengthening.
- `TypeCorrect`, `TableIsATree`, `WalkIsSound`, `SkippingIsSound`,
  `WalkSettles`, `SizesMatch`: each invariant by name.

- `RefinesTree`: `Spec => ImplementsCompositionTree`, the table implements the
  abstract tree.

The argument has four parts. The first is about tables as data.
`InsertTree`, `RemoveTree` and `MoveTree` show, for bare functions of
parents and sizes, that inserting a leaf at a boundary, removing a subtree and
rotating a subtree forward over its elder siblings keep a preorder tree;
`ClimbCovers` shows that the loop that climbs the parent indices visits exactly the
groups whose range covers a place; `InsertFacts`, `PruneFacts`, `MoveFacts`,
`DrainedFacts` and `ReloadedFacts` join these to the operators of
`Reconciler`. The second is about the open path: what a push, a pop, a
prune under the innermost group and a relocation at the cursor do to the chain
and to the boundary (`PushActive`, `PopFrame`, `TrimFrame`, `RelocatedFacts`), and
what inserts and prunes do to skipping (`InsertSafe`, `PruneSafe`). The third
has one lemma per action and the invariants as theorems.

The fourth is the refinement. It needs one invariant beside `Inv`, `Identified`: an
identity is in the table once, and all are below `nextId`. Without it a
group could not be found by its identity, and the maps of the tree would say
nothing. `UnderIs` shows that what is under a group in the abstract tree
(closed under parents) is the interval of the table its size spans.
`CarriedTree` is about a table whose groups are some of another's, in any order,
each with its identity, key and parent: its maps are those of the other,
restricted. A prune (`PruneTree`) and a relocation (`RelocateTree`) are cases of it,
an insertion adds one entry (`InsertTreeMaps`). Then each action of `Reconciler`
has a lemma that it is a step of the tree or leaves it alone and keeps
`Identified`, `NextTree` joins them. A body that is passed over maps to
`PassOver` because `SkipSound` says that nothing below it is due, and
`ExitGroup` to `Close` because `VisitedClean` says so of what lies behind the
cursor: the refinement rests on the invariants.

The climb of the parent indices is a set (the least set closed under parents)
and no recursion, so that these proofs need no induction.

`Induction` is what the proofs about loops stand on. The prover cannot use the
library's induction theorems, which take a predicate as an argument.
`LeastElement` is therefore proved from the well-foundedness of inclusion between
finite sets, `UpTo` (induction up to a number, for the members of a set) from
it, and `Recursion` (a function defined by a step along 0 .. N exists) from that.
A loop is a recursive function of the number of turns made, and a proof about it goes
by the set of numbers of turns after which the claim holds.

`StateCellsProofs` proves, for any composables, identifiers and capacities:

- `RegistryInvariance`: `RegistryInv` is `RegistryOK` with the types, the fact
  that a cell lists a key once, and `Nested` (a running body belongs to a mounted
  group that this iteration has entered, below the root). That list matters:
  unsubscribing removes one place of it. `RegistryFollowsGroups` and
  `StateCellsTyped` follow.
- `WritesRemembered`: `SubscribersPending`, when the invalidation queue has a
  place for every key (`QueueHoldsAll`). Beyond that bound the code drops
  watchers (`state.c:245`), so the premise is the whole difference; `AllEnqueued`
  counts the places, `EnqueuedFacts` shows without it that the queue never
  overruns. The strengthening has three parts. `OutdatedKnown`: a mounted group
  that shows an old value is queued, flagged, or was not subscribed when it
  was written. `LostCellMissed`: the readers of a cell that is gone have missed its
  end, so a new cell with its identifier owes them nothing. `DirtyIsQueued`:
  in a pass, a watcher of a dirty cell is queued or subscribed after the write,
  in a body of this iteration; it holds because every iteration publishes
  first and enters a group at most once.

`BufferProofs` proves, for all sizes of the batches and any number of operations,
with `Lockstep` (a host that waits for its worker) as the premise of each:

- `TransactionsInvariance`: `Inv` is `TypeOK`, the places of the two loops
  (`LoopsOK`) and the order of the operations (`Order`). `AppliedInOrder` alone is
  not inductive: a swap loses nothing only because the worker's loop is over
  and its batch empty, and a commit hands over what comes next only because a
  host that commits leaves the other batch empty. `InvImplies` goes from `Order`
  back to `AppliedInOrder`.
- `OperationsInOrder` (`AppliedInOrder`), `BatchesBounded` (`TypeOK`), and
  `PayloadsSafe` (`PayloadsIntact`), which strengthens the payloads of what is
  owed to those of every operation in a batch (`BatchesIntact`).

It also proves, for any capacities of groups and words, any depth, keys and values,
`TableTypeOK` (`TableTyped`), `ReaderNested` (`ReadersNested`) and `NoneSkipped`
(`NoneJumpedOver`) from `TableInvariant`. The proof never speaks of physical
entries outside its lowest layer: `G(t, i)`, `Place(t, i)` and `W(t, k)` are group,
first word and word by logical index, and `GapLeft` and `GapRight` say that a
memmove whose source and destination are apart (`Fits`), with the memset behind it, leaves what is
seen by logical index as it was. `TableInv` has six parts:

- `Typed` and `Laid`: the places of the groups go up by their numbers of words, from 0
  to the number of all words, and the gap of the words lies where the group behind
  the gap of the groups begins. So `MoveGapTo`, which reads one `slotIndex`
  to go left and adds up `slotCount`s to go right, moves both gaps to the same
  boundary.
- `TreeOK`: with the ends that sizes and the writer's open groups give, the links tell
  a preorder tree, and a root follows the gap. `WriterOK`: the open groups are the path
  from a root to the gap. An insertion renumbers links by a threshold, and an
  open group's size is still 0; only the two together say what the new tree is.
- `ReaderOK`: a reader is between two children of its parent.
- `WalkOK`: whatever is marked has all above it marked, but for the groups a walk is inside
  of, and a walk leaves nothing marked behind. That is what makes the early stop of
  the climb right: `NoneSkipped` says it of invalidated groups only and is not
  inductive.

`TableInv` was checked by TLC on all states of the run before it was proved.

`TableRefinesForest` (`ImplementsSlotForest`) rests on it. `Mapped` reads `Forest` as
`View(t, w)`, which knows neither places in the arrays nor where the gaps are: the
depth of a group (`Level`, one more than that of its parent), its own
nodes (`Own`: its count less what closed groups right below it have handed up)
and its words (`WordsOf`). Then there is a lemma for each way a step shows: `Stutter` for
all that changes flags, reader or walk only, `GapsMoveOn` for the moves of the gaps,
`StartsAGroup`, `EndsAGroup`, `WritesAWord`, `EmitsANode`, `SetsAWord` and `ResetClears` for the
operations of the list. The lemmas that carry them:

- `LevelsInserted` and `OwnInserted`: the renumbering of links by a threshold leaves
  every depth and every sum of nodes as it was, because no link crosses the gap
  from behind (`InsertNested`).
- `OwnKept`: what `GroupEnd` adds to the parent is what the parent's sum
  takes off it from then on, as the group is now closed.
- `WordsExtended`: a word written at the gap lands behind those of the group
  opened last and moves no other; `HolderIs`: each word is some group's.
- `WriterAt`: the innermost open group is the last before the gap at its depth,
  which is how the list, knowing no links, says where a node goes.

`TasksProofs` proves, for any finite set of tasks, any table of waiters and any clock:

- `TasksInvariance`: `TypeOK`, `EndsOnce` and `LeftMounted` (a pass runs mounted
  groups only, without which a rerun could revive a task that its unmount has
  ended) are inductive together; `RunsEndOnce` and `TasksTyped` by name. `TaskSteps` is
  about `CelsTaskStep` as a mount or a rerun calls it, `ReplacedInv` about what
  ends or restarts a task from outside, `WaiterPlaced` about the bound of the table of waiters.

`SlotArenaProofs` proves, for any groups, sizes, capacities and reloads, the
invariant `Inv` (`SlotArenaInvariant`), each of its properties by name
(`SlotArenaTyped`, `SlotsStayDisjoint`, `CallsStayRemembered`) and the action
property `PointersPinned` (`MemoryPinned`). `Inv` has five parts:

- `TypeOK` and `SlotsDisjoint`. First fit keeps the table sorted and apart
  because the gap it returns lies between two neighbours or after the last; that
  `dataGapStart` counts the live bytes is the induction over `BytesUpTo`.
- `GroupsOK`: running groups are distinct, mounted, and only they have calls ahead
  of them; a slot belongs to a mounted group.
- `RecallOK`, the real strengthening of `CallsRemembered`. A body looks for its
  next slot from the offset where the last one ended. So it is not enough that each
  call has a slot: the slots that answer the calls of an unbroken group must be
  all its slots, go up in the order of the calls, each found from the end of
  the one before, and the offset of a running body must be where its last call
  left it (`InStep`). Only then do `FindSlot` and `AllocateSlot` take the slots the
  next run will find.
- `StoppedOK`: the assertion that stops a program was met by a broken group.

`EventsProofs` proves, for any sessions, listeners, tasks and capacities, the
invariant (`EventsInvariant`) and `EventsTyped`, `NobodyHandedTwice`
(`HandedOnce`), `BroadcastsOrdered`, `WaitsEndOneWay` (`OneOutcome`),
`NoWakeupLost` (`WakeupPending`) and the action property `RetirementHeard`
(`RetiredOnceHeard`). Its parts beside the types, `OneOutcome` and `WakeupPending`:

- `PassOK`: the bodies that run or are due are those of the session that is composing.
- `RecordsOK`: a listener among the readers of a record was handed it once; one that
  was handed it and is not among them found the list of readers full. This is what
  `HandedOnce` lacks, which says nothing of a listener before its turn.
- `OrderOK`: what is staged is younger than what was delivered, and staged
  events and those in each queue go up in their numbers.
- `HeardOK`, for `RetiredOnceHeard`: a listener that was promised an event and has
  not been handed it is on its way to it. Its key is due, active or for
  the next pass, or its body runs and the cursor has not come to the record.

The copies of a broadcast into the queues and the compaction of a queue are
inductions over `FloodedUpTo` and `KeptUpTo`.

`HostProofs` proves, on both platforms and for any applications, `TypeOK`
(`AppModulesTyped`), `BodiesLoaded` (`BodiesStayLoaded`) and `ShadowsOwned`
(`NoShadowLeft`) from `AppModulesInvariant`. What makes them inductive is a
count (`ImagesOK`): a library is open exactly as often as applications have it
loaded, once more while a reload holds the old one. So a loaded library is
mapped, and a copy that Windows will not delete because it is still mapped
has another owner. `ShadowsOK` extends `ShadowsOwned` to the calls in progress: from its
first step a load finds a swept disk, or something registered, in which
case the disk was swept before. `CallOK` says what each call may rely on after
the linker has intervened.

It also proves, for any memory of sessions, any tables and keys, and a stack of any
depth, `SessionsTypeOK` (`SessionsTyped`), `SessionsLive` (`SessionsStayLive`)
and `ReleasedOnce` (`ModulesReleasedOnce`) from `SessionsInvariant`. None of them is
inductive: each step depends on what the calls further out still hold. The parts
of `SessionsInv` beside the types and `SessionsLive`:

- `StackOK` describes the C stack. Each kind of call is at one of its own
  stages with the session it must have (`StageOK`), what a call has saved is alive
  (`HoldsOK`), and where a call destroys a session no call further out runs
  or has saved it, and one the engine owns goes within `CelsEngineDestroy`, which
  only the host calls (`GoingOK`). So a return never restores a freed session.
- `OwnersOK`, `RegistryOK`, `EntryOK`, `OwnedOK`: who owns a session. The
  registry has sessions of the user, each once, and loses the entry before the
  hooks run; each session of the engine is its primary one or in an entry, and
  the engine outlives them.
- `BindingsOK`: a bound module is in exactly one place of one live table. A
  teardown has called `onDestroy` for just those of its table that its loop counter
  has passed.

`PushIs`, `GoingIs` and `ReturnedIs` are about a stack that is called into, goes
on, or returns; `WalkKept` is for the steps that change only the stack and the
ambient session, `TeardownGoes` for the turns of a teardown, `DestroyBegins` for a
session that begins to go, `Created` and `Rebinding` for what is created or
bound while nothing is torn down.

Checked by TLC only:

- liveness (`SubscribersRefreshed`, `EventuallyHanded`, `EventuallyApplied`,
  `SleeperWakes`, `NewestRuns`): fairness and ENABLED are beyond the prover;
- that the two findings violate what the documentation says.

## Not modelled

- Transitions and easing (`transition.c`): floating-point interpolation over
  wall-clock time; what could go wrong is in an arithmetic that TLC has not got.
- The gap of the group buffer in the session (`MoveGroupGap`); `GapTable` has
  that of the standalone table.
- Immediate mode, `shouldQuit` and the fixed sequence of
  `CelsEngineRunStandalone`, which calls the modelled operations in a row.
- `CelsEventQueueClear`, the broadcast of a session without an engine
  (`event.c:241-246`), and listen loops nested in one another, which share
  `pollCursor`.
- The path resolution and the `onEnd` hook of `module.c`, and the sizing of the
  slab of a session from its profile: text and arithmetic without a state.
- Dynamic loading, file times, terminal and log output, the switch between
  fibers, mutexes: services of the operating system; a mutex is mutual
  exclusion, a switch is a call that returns.
- Macro expansions other than those of composables, states and tasks, which are
  single calls; examples and the vendored PDCurses.

Three lesser things met in the code that no model is about: the attach macro
for keyed composables drops its further arguments (`cels.h:298`),
`CEL_RegisterModuleWithHooks` drops `onReload` (`session.c:996`), and a session
is marked as allocated on the heap before its initialisation clears it (`engine.c:453`).

## Plan

Done, in this order: `Reconciler`, `CompositionTree`, the reconciler's proofs,
`StateCells`, `SlotArena`, `Events`; then `Transactions`, `SlotForest` and
`GapTable`, `Tasks`, `AppModules`, `Sessions`; then the proofs about
`StateCells`, `Transactions`, `Tasks`, `Events`, `SlotArena`, `AppModules`,
`Sessions` and `GapTable`, that `Reconciler` implements `CompositionTree`, and that
`GapTable` implements `SlotForest`.

Left, in order of what each would add:

1. Nested listen loops and the broadcast without an engine, in `Events`.
2. A reload of `AppModules` composed with the marking of `Reconciler`.
3. The retarget and settle protocol of transitions over integers.
