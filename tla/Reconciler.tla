----------------------------- MODULE Reconciler -----------------------------
(***************************************************************************)
(* The recomposition reconciler of a CELS session (src/runtime/session.c): *)
(* the preorder table of groups and the multi-pass walk that mounts,       *)
(* re-runs, skips, relocates and prunes them.                              *)
(*                                                                         *)
(* Indices are the C ones plus one (groups[1] is the root, its parent is   *)
(* itself, as parentIndex 0 is in C).  The table is the LOGICAL order of   *)
(* the gap buffer: CelsGetGroup hides where the gap is.  User code is      *)
(* nondeterministic: a running body enters any key, invalidates any key or *)
(* returns, which covers the key CelsEnterComposable synthesizes for 0.    *)
(***************************************************************************)
EXTENDS Naturals, Sequences, FiniteSets

CONSTANTS
  RootKeys,   \* keys compositions are attached with
  Keys,       \* every group key, the root keys included
  MaxGroups,  \* s->maxGroups, the capacity of the table
  MaxDepth,   \* CELS_MAX_DEPTH
  MaxDrain,   \* s->maxDrainIterations
  MaxIds      \* bound of the model: groups ever mounted

ASSUME ConstantsAssumption ==
  /\ RootKeys \subseteq Keys
  /\ MaxGroups \in Nat \ {0}
  /\ MaxDepth \in Nat \ {0}
  /\ MaxDrain \in Nat \ {0}
  /\ MaxIds \in Nat \ {0}

VARIABLES
  groups,        \* Seq of Group: the table in logical (preorder) order
  nextId,        \* s->nextGroupId
  queue,         \* keys in s->invalidationQueue
  nextQueue,     \* keys in s->nextFrameQueue
  attached,      \* Seq of [key, on]: s->attachedCompositions
  comp,          \* the loop variable i of CelsSessionRecompose
  iterations,    \* drain iterations of the running recompose
  pass,          \* where the session is, see PassStates
  stack,         \* Seq of Frame: activeStack and groupIndexStack
  cursor         \* s->logicalCursor

tree  == <<groups, nextId>>
queues == <<queue, nextQueue>>
walk  == <<comp, iterations, pass, stack, cursor>>
vars  == <<tree, queues, attached, walk>>

(* "unmatched" and "mismatch": an assertion of CelsExitGroup has stopped   *)
(* the program, the first or the second.                                   *)
PassStates == {"idle", "pass", "unmatched", "mismatch"}

Group == [key : Keys, id : Nat, parent : Nat, size : Nat,
          inv : BOOLEAN, cont : BOOLEAN]

(* end: the local expectedEnd of CelsExitGroup, 0 while the body runs.     *)
Frame == [idx : Nat, active : BOOLEAN, end : Nat]

-----------------------------------------------------------------------------
(* The table.                                                              *)

(* The groups met climbing parentIndex from p up to the root.              *)
Climb(gs, p) ==
  {a \in DOMAIN gs : \A S \in SUBSET DOMAIN gs :
      (p \in S /\ \A n \in S : gs[n].parent \in S) => a \in S}

(* The sibling roots met from c up to end, hopping over their subtrees.    *)
Siblings(gs, c, end) ==
  {i \in c..(end - 1) : \A S \in SUBSET (c..(end - 1)) :
      (/\ c \in S
       /\ \A n \in S : n + 1 + gs[n].size < end => n + 1 + gs[n].size \in S)
      => i \in S}

Least(S) == CHOOSE i \in S : \A j \in S : i <= j

WithKey(gs, k) == {i \in DOMAIN gs : gs[i].key = k}

NewGroup(k, id, p) ==
  [key |-> k, id |-> id, parent |-> p, size |-> 0,
   inv |-> FALSE, cont |-> FALSE]

WithParent(g, p) == [g EXCEPT !.parent = p]

WithSize(g, n) == [g EXCEPT !.size = n]

(* Mutant: the parent indices past the place are left as they were.        *)
OpenUnshifted(gs, c, g) ==
  [i \in 1..(Len(gs) + 1) |->
     IF i = c THEN g ELSE IF i < c THEN gs[i] ELSE gs[i - 1]]

(* Open a place at c, shift the parent indices past it.                    *)
OpenAt(gs, c, g) ==
  LET Shifted(p) == IF p >= c THEN p + 1 ELSE p
  IN  [i \in 1..(Len(gs) + 1) |->
         IF i = c THEN g
         ELSE IF i < c THEN gs[i]
         ELSE WithParent(gs[i - 1], Shifted(gs[i - 1].parent))]

Grow(gs, A) ==
  [i \in DOMAIN gs |->
     IF i \in A THEN WithSize(gs[i], gs[i].size + 1) ELSE gs[i]]

InsertGroup(gs, c, p, k, id) ==
  LET opened == OpenAt(gs, c, NewGroup(k, id, p))
  IN  Grow(opened, Climb(opened, p))

(* Remove groups r..r+n-1, shift the parent indices past them.             *)
CloseUp(gs, r, n) ==
  LET Shifted(p) == IF p >= r + n THEN p - n ELSE p
  IN  [i \in 1..(Len(gs) - n) |->
         IF i < r THEN gs[i]
         ELSE WithParent(gs[i + n], Shifted(gs[i + n].parent))]

(* Mutant: the groups above keep their sizes.                              *)
ShrinkNone(gs, A, n) == gs

Shrink(gs, A, n) ==
  [i \in DOMAIN gs |->
     IF i \in A THEN WithSize(gs[i], gs[i].size - n) ELSE gs[i]]

PruneSubtree(gs, r) ==
  LET n == 1 + gs[r].size
      above == IF r > 1 THEN Climb(gs, gs[r].parent) ELSE {}
  IN  CloseUp(Shrink(gs, above, n), r, n)

PruneByKey(gs, k) ==
  IF WithKey(gs, k) = {} THEN gs ELSE PruneSubtree(gs, Least(WithKey(gs, k)))

(* Relocate the subtree at m to c <= m; the siblings between shift right.  *)
(* Group i of the new table is group MovedFrom of the old one.             *)
MovedFrom(i, m, c, n) ==
  IF i < c THEN i
  ELSE IF i < c + n THEN m + (i - c)
  ELSE IF i < m + n THEN i - n
  ELSE i

(* Mutant: the parent indices are not renumbered.                          *)
NotRenumbered(i, m, c, n) == i

MovedTo(i, m, c, n) ==
  IF i < c THEN i
  ELSE IF i < m THEN i + n
  ELSE IF i < m + n THEN c + (i - m)
  ELSE i

MoveSubtree(gs, m, c) ==
  LET n == 1 + gs[m].size
      Old(i) == gs[MovedFrom(i, m, c, n)]
  IN  [i \in DOMAIN gs |->
         WithParent(Old(i), MovedTo(Old(i).parent, m, c, n))]

Marked(g, inv, cont) ==
  [g EXCEPT !.inv = g.inv \/ inv, !.cont = g.cont \/ cont]

(* Mutant: nothing is marked above the group of a queued key.              *)
DrainedBelowOnly(gs, Q) ==
  LET hit == {Least(WithKey(gs, k)) : k \in {x \in Q : WithKey(gs, x) # {}}}
  IN  [i \in DOMAIN gs |->
         Marked(gs[i], \E t \in hit : t <= i /\ i <= t + gs[t].size, FALSE)]

(* Drain: mark the first group of each queued key and its whole subtree    *)
(* INVALIDATED, and every group above it CONTAINS_INVALIDATED.             *)
Drained(gs, Q) ==
  LET hit == {Least(WithKey(gs, k)) : k \in {x \in Q : WithKey(gs, x) # {}}}
  IN  [i \in DOMAIN gs |->
         Marked(gs[i],
                \E t \in hit : t <= i /\ i <= t + gs[t].size,
                \E t \in hit : t > 1 /\ i \in Climb(gs, gs[t].parent))]

Reloaded(gs) == [i \in DOMAIN gs |-> Marked(gs[i], TRUE, i > 1)]

(* Mutant: CONTAINS_INVALIDATED survives the entry.                        *)
SettledHalf(g) == [g EXCEPT !.inv = FALSE]

Settled(g) == [g EXCEPT !.inv = FALSE, !.cont = FALSE]

-----------------------------------------------------------------------------
(* Mutant: one group too many.                                             *)
FullLate == Len(groups) > MaxGroups

Full == Len(groups) >= MaxGroups

(* Mutant: the cursor stops inside the subtree passed over.                *)
PastGroup(gs, c) == c + 1

PastSubtree(gs, c) == c + 1 + gs[c].size

-----------------------------------------------------------------------------
(* The host between passes.                                                *)

Init ==
  /\ groups = <<>>
  /\ nextId = 1
  /\ queue = {}
  /\ nextQueue = {}
  /\ attached = <<>>
  /\ comp = 1
  /\ iterations = 0
  /\ pass = "idle"
  /\ stack = <<>>
  /\ cursor = 1

(* CelsSessionAttachComposition: by key, an existing entry is refreshed.   *)
Attach(k) ==
  /\ pass = "idle"
  /\ LET at == {i \in DOMAIN attached : attached[i].key = k}
     IN  attached' = IF at # {}
                     THEN [attached EXCEPT ![Least(at)].on = TRUE]
                     ELSE Append(attached, [key |-> k, on |-> TRUE])
  /\ UNCHANGED <<tree, queues, walk>>

Detach(k) ==
  /\ pass = "idle"
  /\ \E i \in DOMAIN attached :
       /\ attached[i].key = k
       /\ attached' = [attached EXCEPT ![i].on = FALSE]
  /\ UNCHANGED <<tree, queues, walk>>

(* CelsPruneSubtreeByKey as CelsAppModuleUnload calls it, on the           *)
(* composition the module attached.                                        *)
HostPrune(k) ==
  /\ pass = "idle"
  /\ WithKey(groups, k) # {}
  /\ groups' = PruneByKey(groups, k)
  /\ UNCHANGED <<nextId, queues, attached, walk>>

HotReload ==
  /\ pass = "idle"
  /\ groups' = Reloaded(groups)
  /\ UNCHANGED <<nextId, queues, attached, walk>>

-----------------------------------------------------------------------------
(* Invalidation, from the host or from a running body.                     *)

Running == pass = "pass" /\ stack # <<>>
Top == stack[Len(stack)]
InBody == Running /\ Top.active /\ Top.end = 0

InvalidateKey(k) ==
  /\ pass = "idle" \/ InBody
  /\ nextQueue' = nextQueue \cup {k}
  /\ UNCHANGED <<tree, queue, attached, walk>>

InvalidateKeyImmediate(k) ==
  /\ InBody
  /\ queue' = queue \cup {k}
  /\ UNCHANGED <<tree, nextQueue, attached, walk>>

-----------------------------------------------------------------------------
(* CelsSessionRecompose.                                                   *)

BeginIteration(n, Q) ==
  /\ iterations' = n
  /\ groups' = Drained(groups, Q)
  /\ queue' = {}
  /\ comp' = 1
  /\ cursor' = 1

(* A pass with nothing queued is one a first mount, a hot reload or a      *)
(* dirty state cell asks for; the early return changes nothing.            *)
Recompose ==
  /\ pass = "idle"
  /\ attached # <<>>
  /\ BeginIteration(1, queue \cup nextQueue)
  /\ nextQueue' = {}
  /\ pass' = "pass"
  /\ UNCHANGED <<nextId, attached, stack>>

BetweenCompositions == pass = "pass" /\ stack = <<>>

SkipDetached ==
  /\ BetweenCompositions
  /\ comp \in DOMAIN attached
  /\ ~attached[comp].on
  /\ comp' = comp + 1
  /\ UNCHANGED <<tree, queues, attached, iterations, pass, stack, cursor>>

(* lifecycleEval says the composition is over.                             *)
EndComposition ==
  /\ BetweenCompositions
  /\ comp \in DOMAIN attached
  /\ attached[comp].on
  /\ groups' = PruneByKey(groups, attached[comp].key)
  /\ comp' = comp + 1
  /\ UNCHANGED <<nextId, queues, attached, iterations, pass, stack, cursor>>

(* CelsEnterComposition on a full table returns false and the caller still *)
(* calls CelsExitGroup, at depth 0.                                        *)
EnterCompositionFull ==
  /\ BetweenCompositions
  /\ comp \in DOMAIN attached
  /\ attached[comp].on
  /\ Full
  /\ pass' = "unmatched"
  /\ UNCHANGED <<tree, queues, attached, comp, iterations, stack, cursor>>

EnterComposition ==
  /\ BetweenCompositions
  /\ comp \in DOMAIN attached
  /\ attached[comp].on
  /\ ~Full
  /\ LET k == attached[comp].key
         kept == IF groups # <<>> /\ groups[1].key # k
                 THEN PruneSubtree(groups, 1) ELSE groups
     IN  IF kept = <<>>
         THEN /\ nextId <= MaxIds
              /\ groups' = <<NewGroup(k, nextId, 1)>>
              /\ nextId' = nextId + 1
         ELSE groups' = kept /\ UNCHANGED nextId
  /\ stack' = <<[idx |-> 1, active |-> TRUE, end |-> 0]>>
  /\ cursor' = 2
  /\ UNCHANGED <<queues, attached, comp, iterations, pass>>

NextIteration ==
  /\ BetweenCompositions
  /\ comp = Len(attached) + 1
  /\ queue # {}
  /\ iterations < MaxDrain
  /\ BeginIteration(iterations + 1, queue)
  /\ UNCHANGED <<nextId, nextQueue, attached, pass, stack>>

Return == pass' = "idle" /\ comp' = 1 /\ iterations' = 0

DidNotConverge ==
  /\ BetweenCompositions
  /\ comp = Len(attached) + 1
  /\ queue # {}
  /\ iterations = MaxDrain
  /\ Return
  /\ UNCHANGED <<tree, queues, attached, stack, cursor>>

Converge ==
  /\ BetweenCompositions
  /\ comp = Len(attached) + 1
  /\ queue = {}
  /\ queue' = nextQueue
  /\ nextQueue' = {}
  /\ Return
  /\ UNCHANGED <<tree, attached, stack, cursor>>

-----------------------------------------------------------------------------
(* CelsEnterComposable, called by the running body.                        *)

ParentEnd == Top.idx + 1 + groups[Top.idx].size

Matches(k) == {i \in Siblings(groups, cursor, ParentEnd) : groups[i].key = k}

(* The table once the matching sibling, if any, stands at the cursor.      *)
Relocated(k) ==
  LET m == Least(Matches(k))
  IN  IF m = cursor THEN groups ELSE MoveSubtree(groups, m, cursor)

Push(i, on) == stack' = Append(stack, [idx |-> i, active |-> on, end |-> 0])

EnterTooDeep ==
  /\ InBody
  /\ Len(stack) >= MaxDepth
  /\ Push(0, FALSE)
  /\ UNCHANGED <<tree, queues, attached, comp, iterations, pass, cursor>>

EnterClean(k) ==
  /\ InBody
  /\ Len(stack) < MaxDepth
  /\ Matches(k) # {}
  /\ groups' = Relocated(k)
  /\ ~groups'[cursor].inv /\ ~groups'[cursor].cont
  /\ Push(cursor, FALSE)
  /\ cursor' = PastSubtree(groups', cursor)
  /\ UNCHANGED <<nextId, queues, attached, comp, iterations, pass>>

EnterDirty(k) ==
  /\ InBody
  /\ Len(stack) < MaxDepth
  /\ Matches(k) # {}
  /\ LET gs == Relocated(k)
     IN  /\ gs[cursor].inv \/ gs[cursor].cont
         /\ groups' = [gs EXCEPT ![cursor] = Settled(gs[cursor])]
  /\ Push(cursor, TRUE)
  /\ cursor' = cursor + 1
  /\ UNCHANGED <<nextId, queues, attached, comp, iterations, pass>>

EnterFull(k) ==
  /\ InBody
  /\ Len(stack) < MaxDepth
  /\ Matches(k) = {}
  /\ Full
  /\ Push(0, FALSE)
  /\ UNCHANGED <<tree, queues, attached, comp, iterations, pass, cursor>>

EnterNew(k) ==
  /\ InBody
  /\ Len(stack) < MaxDepth
  /\ Matches(k) = {}
  /\ ~Full
  /\ nextId <= MaxIds
  /\ groups' = InsertGroup(groups, cursor, Top.idx, k, nextId)
  /\ nextId' = nextId + 1
  /\ Push(cursor, TRUE)
  /\ cursor' = cursor + 1
  /\ UNCHANGED <<queues, attached, comp, iterations, pass>>

-----------------------------------------------------------------------------
(* CelsExitGroup.                                                          *)

ExpectedEnd == IF Top.end = 0 THEN ParentEnd ELSE Top.end

MustPrune == Top.active /\ cursor < ExpectedEnd /\ cursor <= Len(groups)

(* One turn of the loop over the children the body did not visit.          *)
PruneUnvisited ==
  /\ Running
  /\ MustPrune
  /\ groups' = PruneSubtree(groups, cursor)
  /\ stack' = [stack EXCEPT ![Len(stack)].end =
                 ExpectedEnd - (1 + groups[cursor].size)]
  /\ UNCHANGED <<nextId, queues, attached, comp, iterations, pass, cursor>>

ExitGroup ==
  /\ Running
  /\ ~MustPrune
  /\ pass' = IF Top.active /\ groups[Top.idx].size # (cursor - 1) - Top.idx
             THEN "mismatch" ELSE pass
  /\ stack' = SubSeq(stack, 1, Len(stack) - 1)
  /\ comp' = IF Len(stack) = 1 THEN comp + 1 ELSE comp
  /\ UNCHANGED <<tree, queues, attached, iterations, cursor>>

-----------------------------------------------------------------------------

Host ==
  \/ \E k \in RootKeys : Attach(k) \/ Detach(k) \/ HostPrune(k)
  \/ HotReload

Traverse ==
  \/ Recompose
  \/ SkipDetached
  \/ EndComposition
  \/ EnterCompositionFull
  \/ EnterComposition
  \/ NextIteration
  \/ DidNotConverge
  \/ Converge
  \/ PruneUnvisited
  \/ ExitGroup

Body ==
  \/ EnterTooDeep
  \/ \E k \in Keys :
       \/ EnterClean(k)
       \/ EnterDirty(k)
       \/ EnterFull(k)
       \/ EnterNew(k)
       \/ InvalidateKey(k)
       \/ InvalidateKeyImmediate(k)

Next == Host \/ Traverse \/ Body

Spec == Init /\ [][Next]_vars

-----------------------------------------------------------------------------
(* Properties.                                                             *)

TypeOK ==
  /\ groups \in Seq(Group)
  /\ Len(groups) <= MaxGroups
  /\ nextId \in Nat \ {0}
  /\ queue \subseteq Keys
  /\ nextQueue \subseteq Keys
  /\ attached \in Seq([key : RootKeys, on : BOOLEAN])
  /\ comp \in Nat
  /\ iterations \in 0..MaxDrain
  /\ pass \in PassStates
  /\ stack \in Seq(Frame)
  /\ cursor \in Nat \ {0}

(* The table is a preorder tree: parentIndex points back to a group whose  *)
(* interval [i, i + groupSize] covers the child, intervals nest, and the   *)
(* root's is the whole table.  Every traversal, skip, prune and climb of   *)
(* session.c indexes by these two fields after each insert, move and prune.*)
PreorderTree(gs) ==
  /\ \A i \in DOMAIN gs : i + gs[i].size <= Len(gs)
  /\ \A i \in DOMAIN gs :
       IF i = 1 THEN gs[i].parent = 1 /\ gs[i].size = Len(gs) - 1
       ELSE /\ gs[i].parent \in 1..(i - 1)
            /\ i <= gs[i].parent + gs[gs[i].parent].size
  /\ \A i, j \in DOMAIN gs : i < j /\ j <= i + gs[i].size =>
       gs[j].parent >= i /\ j + gs[j].size <= i + gs[i].size

TreeOK == PreorderTree(groups)

(* c is where the body of group p enters its next child: just past p or    *)
(* past the last child visited, never inside a sibling's subtree.          *)
AtBoundary(gs, p, c) ==
  /\ p < c
  /\ c <= p + 1 + gs[p].size
  /\ \A i \in (p + 1)..(c - 1) : i + gs[i].size < c

Innermost(st) == IF st[Len(st)].active THEN Len(st) ELSE Len(st) - 1

OpenPath(gs, st, c) ==
  LET n == Len(st)
  IN  /\ st[1].active /\ st[1].idx = 1
      /\ \A d \in 1..(n - 1) : st[d].active /\ st[d].end = 0
      /\ \A d \in 1..n : st[d].active =>
           st[d].idx \in 1..Len(gs) /\ st[d].idx < c
      /\ \A d \in 2..n : st[d].active =>
           /\ st[d - 1].idx < st[d].idx
           /\ gs[st[d].idx].parent = st[d - 1].idx
      /\ AtBoundary(gs, st[Innermost(st)].idx, c)
      /\ st[n].end # 0 =>
           st[n].active /\ st[n].end = st[n].idx + 1 + gs[st[n].idx].size

(* The walk knows where it is: while inserts, relocations and prunes shift *)
(* the table under it, the open groups stay a chain of parents from the    *)
(* root and the cursor stays on a boundary between two children of the     *)
(* innermost one, which the sibling search and the exit assertion rely on. *)
WalkOK ==
  /\ stack # <<>> => pass = "pass" /\ OpenPath(groups, stack, cursor)
  /\ pass = "pass" /\ stack = <<>> => cursor = 1 \/ cursor > Len(groups)

Clean(gs, i) == ~gs[i].inv /\ ~gs[i].cont

RunningIn(st) == {st[d].idx : d \in {e \in DOMAIN st : st[e].active}}

SkipSafe(gs, R) ==
  \A i, j \in DOMAIN gs :
    i > 1 /\ i \notin R /\ Clean(gs, i) /\ i < j /\ j <= i + gs[i].size
      => Clean(gs, j)

(* A group without either flag hides nothing that must run: skipping its   *)
(* subtree in one step (session.c:1274) never loses an invalidation.  The  *)
(* running groups are exempt: their bodies clear their flags on entry.     *)
SkipSound == SkipSafe(groups, RunningIn(stack))

(* Everything the walk has left behind is settled: no flag survives before *)
(* the cursor, so when the root exits every invalidated group has run.     *)
VisitedClean ==
  pass = "pass" => \A i \in DOMAIN groups : i > 1 /\ i < cursor => Clean(groups, i)

(* assert(g->groupSize == (s->logicalCursor - 1) - groupIdx) holds each    *)
(* time CelsExitGroup reaches it (session.c:1376).                         *)
NoSizeMismatch == pass # "mismatch"

(* The identities of the groups at the places I, and the place of one.     *)
IdsOf(gs, I) == {gs[i].id : i \in I}

At(gs, id) == CHOOSE i \in DOMAIN gs : gs[i].id = id

UpOf(gs) == [x \in IdsOf(gs, DOMAIN gs) |-> gs[gs[At(gs, x)].parent].id]

LabelOf(gs) == [x \in IdsOf(gs, DOMAIN gs) |-> gs[At(gs, x)].key]

DueOf(gs) == IdsOf(gs, {i \in DOMAIN gs : i > 1 /\ gs[i].inv})

(* The frames that run come first: they are a sequence.                    *)
OpenOf(gs, st) ==
  [d \in {e \in DOMAIN st : st[e].active} |-> gs[st[d].idx].id]

SeenOf(gs, st, c) ==
  IF st = <<>> THEN {} ELSE IdsOf(gs, {i \in DOMAIN gs : i < c})

AbstractTree == INSTANCE CompositionTree WITH
  Ids   <- 1..MaxIds,
  up    <- UpOf(groups),
  label <- LabelOf(groups),
  used  <- 1..(nextId - 1),
  due   <- DueOf(groups),
  open  <- OpenOf(groups, stack),
  seen  <- SeenOf(groups, stack, cursor)

(* The table implements the tree CompositionTree describes.                *)
ImplementsCompositionTree == AbstractTree!Spec
=============================================================================
