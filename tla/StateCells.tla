----------------------------- MODULE StateCells -----------------------------
(***************************************************************************)
(* The reactive state of a CELS session (src/runtime/state.c) under the    *)
(* recompose loop (src/runtime/session.c): double-buffered cells, their    *)
(* watchers, and the passes that publish, drain and re-run.                *)
(*                                                                         *)
(* A group is named by its key: keys of mounted groups are distinct here.  *)
(* What the walk does to the tree is Reconciler's; here a pass runs the    *)
(* groups that are due and any others, and mounts and drops groups, one    *)
(* body step at a time.  A value is the number of the write that made it.  *)
(***************************************************************************)
EXTENDS Naturals, Sequences, FiniteSets

CONSTANTS
  Root,         \* key of the composition
  Composables,  \* keys of the groups below it
  Stateful,     \* composables whose body calls cel_state, which owns the
                \* cell its key names
  Shared,       \* identifiers of cells made with cel_remember_state
  MaxWatchers,  \* CELS_MAX_WATCHERS
  MaxQueue,     \* CELS_MAX_QUEUE
  MaxStates,    \* CELS_MAX_STATES
  MaxDrain,     \* s->maxDrainIterations
  MaxWrites     \* bound of the model: writes in a run

Keys == Composables \cup {Root}
Ids  == Stateful \cup Shared

ASSUME StateAssumption ==
  /\ Root \notin Composables
  /\ Stateful \subseteq Composables
  /\ Shared \cap Keys = {}
  /\ {MaxWatchers, MaxQueue, MaxStates, MaxDrain, MaxWrites} \subseteq Nat \ {0}

VARIABLES
  cells,     \* Seq of Cell: s->stateRegistry, never shortened
  queue,     \* keys in s->invalidationQueue
  mounted,   \* keys of the groups in the table
  holds,     \* groups handed their own cell since they were mounted
  hooked,    \* groups whose cleanup hook will free their cell
  due,       \* groups flagged CELS_FLAG_INVALIDATED
  open,      \* running bodies, outermost first
  visited,   \* groups this iteration has entered
  phase,     \* "idle", "walk", or "overflow": an assertion stopped the program
  drains,    \* drain iterations of the running recompose
  composed,  \* s->hasComposedOnce
  reload,    \* s->isHotReloadPending
  writes,    \* values written so far
  seen,      \* what a group's last run read of each cell, 0 when nothing
  missed     \* reads by groups that no subscription told of the last write

registry == <<cells, queue, writes>>
table == <<mounted, holds, hooked>>
asks == <<composed, reload>>
walk == <<due, open, visited, phase, drains, asks>>
shown == <<seen, missed>>
vars == <<registry, table, walk, shown>>

Cell == [id : Ids, front : Nat, back : Nat, dirty : BOOLEAN,
         inUse : BOOLEAN, watchers : Seq(Keys)]

-----------------------------------------------------------------------------
(* The registry.                                                           *)

Least(S) == CHOOSE n \in S : \A m \in S : n <= m

Subscribers(c) == {c.watchers[n] : n \in DOMAIN c.watchers}

(* CelsStateRegistryFindCell.                                              *)
Live(i) == {n \in DOMAIN cells : cells[n].inUse /\ cells[n].id = i}
CellOf(i) == Least(Live(i))

NewCell(i) == [id |-> i, front |-> 1, back |-> 1, dirty |-> FALSE,
               inUse |-> TRUE, watchers |-> <<>>]

Subscribed(c, k) ==
  IF k \in Subscribers(c) \/ Len(c.watchers) >= MaxWatchers THEN c
  ELSE [c EXCEPT !.watchers = Append(@, k)]

(* Mutant: a subscription outlives its group.                              *)
StillSubscribed(c, k) == c

(* A key is listed once: Subscribed looks for it first.                    *)
Unsubscribed(c, k) ==
  IF c.inUse /\ k \in Subscribers(c)
  THEN LET n == CHOOSE m \in DOMAIN c.watchers : c.watchers[m] = k
       IN  [c EXCEPT !.watchers = SubSeq(@, 1, n - 1) \o SubSeq(@, n + 1, Len(@))]
  ELSE c

(* CelsStateInstanceCleanup.                                               *)
Freed(c) == [id |-> c.id, front |-> c.front, back |-> c.back, dirty |-> FALSE,
             inUse |-> FALSE, watchers |-> <<>>]

(* Mutant: the flag is cleared, the buffer is not copied.                  *)
OnlyCleared(c) == [c EXCEPT !.dirty = FALSE]

Published(c) ==
  IF c.inUse /\ c.dirty THEN [c EXCEPT !.front = c.back, !.dirty = FALSE] ELSE c

(* Mutant: the first watcher only.                                         *)
EnqueuedFirst(Q, ws) ==
  IF ws = <<>> \/ Cardinality(Q) >= MaxQueue THEN Q ELSE Q \cup {ws[1]}

(* The watchers queued while there is room, in the order they subscribed.  *)
Enqueued(Q, ws) ==
  LET New(n) == {m \in 1..n : ws[m] \notin Q}
      room   == MaxQueue - Cardinality(Q)
  IN  Q \cup {ws[n] : n \in {m \in DOMAIN ws : Cardinality(New(m)) <= room}}

-----------------------------------------------------------------------------
Init ==
  /\ cells = <<>>
  /\ queue = {}
  /\ mounted = {}
  /\ holds = {}
  /\ hooked = {}
  /\ due = {}
  /\ open = <<>>
  /\ visited = {}
  /\ phase = "idle"
  /\ drains = 0
  /\ composed = FALSE
  /\ reload = FALSE
  /\ writes = 1
  /\ seen = [k \in Keys |-> [i \in Ids |-> 0]]
  /\ missed = {}

InBody == phase = "walk" /\ open # <<>>
Me == open[Len(open)]

Readers(i) == {k \in mounted : seen[k][i] # 0}

(* Mutant: one cell too many.                                              *)
RegistryFullLate == Len(cells) > MaxStates

RegistryFull == Len(cells) >= MaxStates

(* CelsStateGetOrCreateCell for an identifier no live cell has: a new      *)
(* cell, the assertion on a full registry, or no cell when the arena has   *)
(* no room for its buffers, which depends on what else is in it.           *)
Create(i) ==
  \/ /\ ~RegistryFull
     /\ cells' = Append(cells, NewCell(i))
     /\ UNCHANGED phase
  \/ /\ ~RegistryFull
     /\ UNCHANGED <<cells, phase>>
  \/ /\ RegistryFull
     /\ phase' = "overflow"
     /\ UNCHANGED cells

(* CelsSessionRememberState.                                               *)
RememberState(i) ==
  /\ phase = "idle" \/ InBody
  /\ i \in Shared
  /\ Live(i) = {}
  /\ Create(i)
  /\ UNCHANGED <<queue, writes, table, due, open, visited, drains, asks, shown>>

(* CelsResolveStateInstance, in each run of the body: the identifier is    *)
(* remembered in a slot, whose hook a full table of hooks refuses, before  *)
(* the cell is looked up.  A body whose slot is refused goes on without,   *)
(* as one that does not call.                                              *)
ResolveStateInstance ==
  /\ InBody
  /\ Me \in Stateful
  /\ hooked' \in {hooked, hooked \cup {Me}}
  /\ IF Live(Me) = {} THEN Create(Me) ELSE UNCHANGED <<cells, phase>>
  /\ holds' = IF Live(Me) = {} /\ cells' = cells THEN holds ELSE holds \cup {Me}
  /\ UNCHANGED <<queue, writes, mounted, due, open, visited, drains, asks, shown>>

(* CelsStateWatch from a running body.                                     *)
Watch(i) ==
  /\ InBody
  /\ Live(i) # {}
  /\ LET n == CellOf(i)
     IN  /\ cells' = [cells EXCEPT ![n] = Subscribed(@, Me)]
         /\ seen' = [seen EXCEPT ![Me][i] = cells[n].front]
         /\ missed' = IF ~cells[n].dirty THEN missed \ {<<Me, i>>}
                      ELSE IF Me \notin Subscribers(cells[n])
                      THEN missed \cup {<<Me, i>>} ELSE missed
  /\ UNCHANGED <<queue, writes, table, walk>>

(* CelsStateWatch outside any body subscribes the root.                    *)
WatchOutside(i) ==
  /\ phase = "idle"
  /\ mounted # {}
  /\ Live(i) # {}
  /\ cells' = [cells EXCEPT ![CellOf(i)] = Subscribed(@, Root)]
  /\ UNCHANGED <<queue, writes, table, walk, shown>>

(* CelsStateMutate: from the host, or from a task or an event handler of a *)
(* running body.                                                           *)
Mutate(i) ==
  /\ phase = "idle" \/ InBody
  /\ Live(i) # {}
  /\ writes <= MaxWrites
  /\ writes' = writes + 1
  /\ LET n == CellOf(i)
     IN  /\ cells' = [cells EXCEPT ![n].back = writes + 1, ![n].dirty = TRUE]
         /\ queue' = Enqueued(queue, cells[n].watchers)
         /\ missed' = {p \in missed : p[2] # i}
                        \cup {<<k, i>> : k \in Readers(i) \ Subscribers(cells[n])}
  /\ UNCHANGED <<table, walk, seen>>

-----------------------------------------------------------------------------
(* CelsSessionRecompose.                                                   *)

Publish == cells' = [n \in DOMAIN cells |-> Published(cells[n])]

BeginIteration(d) ==
  /\ Publish
  /\ due' = due \cup (queue \cap mounted)
  /\ queue' = {}
  /\ visited' = {}
  /\ drains' = d
  /\ phase' = "walk"
  /\ UNCHANGED <<writes, table, open, shown>>

Recompose ==
  /\ phase = "idle"
  /\ ~composed \/ reload \/ queue # {} \/ \E n \in DOMAIN cells : cells[n].inUse /\ cells[n].dirty
  /\ BeginIteration(1)
  /\ reload' = FALSE
  /\ UNCHANGED composed

(* The composition opens the pass; under a running body a group is         *)
(* entered again or mounted.                                               *)
Enter(k) ==
  /\ phase = "walk"
  /\ k \notin visited
  /\ k = Root <=> open = <<>>
  /\ mounted' = mounted \cup {k}
  /\ due' = due \ {k}
  /\ open' = Append(open, k)
  /\ visited' = visited \cup {k}
  /\ seen' = [seen EXCEPT ![k] = [i \in Ids |-> 0]]
  /\ missed' = {p \in missed : p[1] # k}
  /\ UNCHANGED <<registry, holds, hooked, phase, drains, asks>>

(* A group the pass has not entered is pruned (CelsPruneSubtree): its      *)
(* cleanups run, then its key is unsubscribed everywhere.  The composition *)
(* itself goes last, when its lifecycle is over.                           *)
Drop(k) ==
  LET AfterCleanup(c) == IF k \in hooked /\ c.inUse /\ c.id = k THEN Freed(c) ELSE c
  IN  /\ phase = "walk"
      /\ k \in mounted \ visited
      /\ k = Root => mounted = {Root}
      /\ cells' = [n \in DOMAIN cells |-> Unsubscribed(AfterCleanup(cells[n]), k)]
      /\ mounted' = mounted \ {k}
      /\ holds' = holds \ {k}
      /\ hooked' = hooked \ {k}
      /\ due' = due \ {k}
      /\ seen' = [seen EXCEPT ![k] = [i \in Ids |-> 0]]
      /\ missed' = {p \in missed \cup (IF k \in hooked THEN Readers(k) \X {k} ELSE {}) :
                     p[1] # k}
      /\ UNCHANGED <<queue, writes, open, visited, phase, drains, asks>>

(* The composition returns when nothing below it is due any more: what     *)
(* Reconciler's VisitedClean says of the walk.                             *)
Exit ==
  /\ InBody
  /\ Len(open) = 1 => due = {}
  /\ open' = SubSeq(open, 1, Len(open) - 1)
  /\ UNCHANGED <<registry, table, due, visited, phase, drains, asks, shown>>

IterationDone == phase = "walk" /\ open = <<>> /\ due = {}

NextIteration ==
  /\ IterationDone
  /\ queue # {}
  /\ drains < MaxDrain
  /\ BeginIteration(drains + 1)
  /\ UNCHANGED asks

DidNotConverge ==
  /\ IterationDone
  /\ queue # {}
  /\ drains = MaxDrain
  /\ phase' = "idle"
  /\ visited' = {}
  /\ drains' = 0
  /\ UNCHANGED <<registry, table, due, open, asks, shown>>

Converge ==
  /\ IterationDone
  /\ queue = {}
  /\ Publish
  /\ phase' = "idle"
  /\ visited' = {}
  /\ drains' = 0
  /\ composed' = TRUE
  /\ UNCHANGED <<queue, writes, table, due, open, reload, shown>>

HotReload ==
  /\ phase = "idle"
  /\ due' = mounted
  /\ reload' = TRUE
  /\ UNCHANGED <<registry, table, open, visited, phase, drains, composed, shown>>

-----------------------------------------------------------------------------
Traverse ==
  \/ Recompose
  \/ \E k \in due \cup {Root} : k \in mounted /\ Enter(k)
  \/ Exit
  \/ NextIteration
  \/ DidNotConverge
  \/ Converge

User ==
  \/ HotReload
  \/ ResolveStateInstance
  \/ \E k \in Keys : Enter(k) \/ Drop(k)
  \/ \E i \in Ids : RememberState(i) \/ Watch(i) \/ WatchOutside(i) \/ Mutate(i)

Next == Traverse \/ User

(* The host keeps recomposing, bodies return, and the walk reaches what is *)
(* due.                                                                    *)
Spec == Init /\ [][Next]_vars /\ WF_vars(Traverse)

-----------------------------------------------------------------------------
(* Properties.                                                             *)

TypeOK ==
  /\ cells \in Seq(Cell)
  /\ Len(cells) <= MaxStates
  /\ \A n \in DOMAIN cells : Len(cells[n].watchers) <= MaxWatchers
  /\ queue \subseteq Keys /\ Cardinality(queue) <= MaxQueue
  /\ mounted \subseteq Keys /\ holds \subseteq Stateful /\ hooked \subseteq Stateful
  /\ due \subseteq Keys /\ visited \subseteq Keys
  /\ open \in Seq(Keys)
  /\ phase \in {"idle", "walk", "overflow"}
  /\ drains \in 0..MaxDrain
  /\ composed \in BOOLEAN /\ reload \in BOOLEAN
  /\ writes \in Nat
  /\ seen \in [Keys -> [Ids -> Nat]]
  /\ missed \subseteq Keys \X Ids

OneLiveCell == \A i \in Ids : \A m, n \in Live(i) : m = n

HoldersKeepTheirCell ==
  holds \cup hooked \subseteq mounted /\ \A k \in holds : Live(k) # {}

WatchersAreMounted ==
  \A n \in DOMAIN cells :
    Subscribers(cells[n]) \subseteq (IF cells[n].inUse THEN mounted ELSE {})

CleanIsPublished ==
  \A n \in DOMAIN cells :
    cells[n].inUse /\ ~cells[n].dirty => cells[n].front = cells[n].back

(* The registry survives mounts and unmounts: one live cell an identifier, *)
(* a group that was handed its cell keeps it until it is unmounted (one    *)
(* that the arena refused has none), no subscription outlives its group,   *)
(* and an unflagged cell shows what was last written.                      *)
RegistryOK ==
  /\ OneLiveCell
  /\ HoldersKeepTheirCell
  /\ WatchersAreMounted
  /\ CleanIsPublished

(* k's last run read a value of i that is no longer the written one, and k *)
(* was subscribed when it was written.                                     *)
Stale(k, i) ==
  /\ k \in mounted
  /\ seen[k][i] # 0
  /\ Live(i) # {}
  /\ k \in Subscribers(cells[CellOf(i)])
  /\ <<k, i>> \notin missed
  /\ seen[k][i] # cells[CellOf(i)].back

(* A write is never forgotten: until a subscribed group has run again, its *)
(* key is queued or its group is flagged, across publishes, drain          *)
(* iterations, writes made by running bodies and passes that give up       *)
(* (state.c:233-248, session.c:846-930).                                   *)
SubscribersPending ==
  \A k \in Keys, i \in Ids : Stale(k, i) => k \in queue \cup due

(* Every subscribed group still mounted is shown the written value at last *)
(* (include/cels/cels.h:389-390), unless the full registry's assertion     *)
(* (state.c:81) stops the program first.                                   *)
SubscribersRefreshed ==
  \A k \in Keys, i \in Ids : Stale(k, i) ~> ~Stale(k, i) \/ phase = "overflow"
=============================================================================
