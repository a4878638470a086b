------------------------------ MODULE GapTable ------------------------------
(***************************************************************************)
(* The standalone slot table of CELS (src/runtime/slot_table.c): groups in *)
(* preorder and their words of state, in two arrays with a gap each.       *)
(*                                                                         *)
(* Its callers are modelled with the care that the header asks of them or  *)
(* that the table needs: parent links are renumbered before an insertion,  *)
(* a group's words are written before its children, and a reader leaves a  *)
(* group at its end.                                                       *)
(*                                                                         *)
(* The code moves the gaps to any group.  TableSpec does so too, and loses *)
(* groups by it.  CarefulSpec is the table of callers that move the gaps   *)
(* between trees, past no more than fits into them.                        *)
(***************************************************************************)
EXTENDS Integers, FiniteSets, Sequences, SequencesExt

CONSTANTS
  GroupCapacity, \* entries of the group array
  SlotCapacity,  \* words of the slot array
  MaxDepth,      \* CELS_SLOT_WRITER_MAX_DEPTH
  Keys,          \* the keys of groups
  Values,        \* the words that are written
  MaxNodes       \* bound of the model: nodes a group counts

ASSUME GapTableAssumption ==
  /\ {GroupCapacity, SlotCapacity, MaxDepth} \subseteq Nat \ {0}
  /\ Keys \subseteq Nat \ {0} /\ Values \subseteq Nat \ {0}
  /\ MaxNodes \in Nat

VARIABLES
  table,  \* CelsSlotTable
  writer, \* CelsSlotWriter: its stack of open groups
  reader, \* CelsSlotReader
  walk    \* the composition walk: the group it looks at next

tableVars == <<table, writer, reader, walk>>

None == GroupCapacity + 1 \* UINT32_MAX: no parent, and no walk

Flags == {"invalidated", "contains"}

\* CelsSlotGroup
Group == [key : Keys \union {0}, parentIndex : 0 .. None,
          slotIndex : Nat, slotCount : Nat, groupSize : Nat,
          nodeCount : Nat, flags : SUBSET Flags]

\* What memset leaves.
ZeroGroup == [key |-> 0, parentIndex |-> 0, slotIndex |-> 0, slotCount |-> 0,
              groupSize |-> 0, nodeCount |-> 0, flags |-> {}]

TableTypeOK ==
  /\ table.groups \in [0 .. GroupCapacity - 1 -> Group]
  /\ table.slots \in [0 .. SlotCapacity - 1 -> Values \union {0}]
  /\ table.groupGapStart \in 0 .. GroupCapacity
  /\ table.groupGapLen \in 0 .. GroupCapacity - table.groupGapStart
  /\ table.slotGapStart \in 0 .. SlotCapacity
  /\ table.slotGapLen \in 0 .. SlotCapacity - table.slotGapStart
  /\ table.readerCount \in 0 .. 1 /\ table.writerActive \in BOOLEAN
  /\ writer \in Seq(0 .. GroupCapacity - 1) /\ Len(writer) <= MaxDepth
  /\ reader \in [open : BOOLEAN, currentGroup : 0 .. GroupCapacity,
                 currentSlot : Nat, currentParent : 0 .. None,
                 groupEnd : 0 .. GroupCapacity]
  /\ walk \in 0 .. None

GroupCount == GroupCapacity - table.groupGapLen
SlotCount == SlotCapacity - table.slotGapLen

\* An index with the gap taken out, and the place it has in the array.
GroupToPhysicalIdx(i) ==
  IF i < table.groupGapStart THEN i ELSE i + table.groupGapLen

GroupAt(i) == table.groups[GroupToPhysicalIdx(i)]

EmptyTable ==
  [groups |-> [p \in 0 .. GroupCapacity - 1 |-> ZeroGroup],
   slots |-> [p \in 0 .. SlotCapacity - 1 |-> 0],
   groupGapStart |-> 0, groupGapLen |-> GroupCapacity,
   slotGapStart |-> 0, slotGapLen |-> SlotCapacity,
   readerCount |-> 0, writerActive |-> FALSE]

ClosedReader == [open |-> FALSE, currentGroup |-> 0, currentSlot |-> 0,
                 currentParent |-> None, groupEnd |-> 0]

\* CelsSlotTableInit
TableInit ==
  /\ table = EmptyTable
  /\ writer = <<>>
  /\ reader = ClosedReader
  /\ walk = None

\* CelsSlotTableReset
Reset ==
  /\ table.readerCount = 0 /\ ~table.writerActive /\ walk = None
  /\ table' = EmptyTable
  /\ UNCHANGED <<writer, reader, walk>>

-----------------------------------------------------------------------------
(* The gaps.                                                               *)

Interval(first, length) == first .. first + length - 1

\* memmove of length entries from src to dst, then memset of the source; the
\* entries are taken as they are in adjusted.
Moved(array, adjusted, dst, src, length, zero) ==
  [p \in DOMAIN array |->
     IF p \in Interval(src, length) THEN zero
     ELSE IF p \in Interval(dst, length) THEN adjusted[p - dst + src]
     ELSE array[p]]

(* Mutant: the slots move and their group does not follow.                 *)
Unshifted(group, by) == group

ShiftedSlots(group, by) == [group EXCEPT !.slotIndex = @ + by]

\* The groups as they will be behind the gap of the slots, or before it.
ShiftedGroups(by) ==
  [p \in DOMAIN table.groups |-> ShiftedSlots(table.groups[p], by)]

\* CelsSlotTableMoveGapTo to the left: the groups from target to the gap, and
\* their slots, go behind it.
MovedLeft(target) ==
  LET shiftGroups == table.groupGapStart - target
      targetSlot == table.groups[target].slotIndex
      shiftSlots == table.slotGapStart - targetSlot
  IN [table EXCEPT
        !.groups = Moved(@, ShiftedGroups(table.slotGapLen),
                         target + table.groupGapLen, target, shiftGroups,
                         ZeroGroup),
        !.slots = Moved(@, @, targetSlot + table.slotGapLen, targetSlot,
                        shiftSlots, 0),
        !.groupGapStart = target,
        !.slotGapStart = targetSlot]

\* The sum of what the first n groups have.
SumOf(amount, n) ==
  LET upTo[k \in 0 .. n] ==
        IF k = 0 THEN 0 ELSE upTo[k - 1] + amount[k - 1]
  IN upTo[n]

\* How many slots the groups between the gap and target have.
SlotsAhead(target) ==
  LET first == table.groupGapStart + table.groupGapLen
      ahead == target - table.groupGapStart
  IN SumOf([k \in 0 .. ahead - 1 |-> table.groups[first + k].slotCount],
           ahead)

\* And to the right.
MovedRight(target) ==
  LET shiftGroups == target - table.groupGapStart
      shiftSlots == SlotsAhead(target)
  IN [table EXCEPT
        !.groups = Moved(@, ShiftedGroups(-table.slotGapLen),
                         table.groupGapStart,
                         table.groupGapStart + table.groupGapLen,
                         shiftGroups, ZeroGroup),
        !.slots = Moved(@, @, table.slotGapStart,
                        table.slotGapStart + table.slotGapLen, shiftSlots, 0),
        !.groupGapStart = target,
        !.slotGapStart = @ + shiftSlots]

MoveGapTo(target) ==
  IF target = table.groupGapStart THEN table
  ELSE IF target < table.groupGapStart THEN MovedLeft(target)
  ELSE MovedRight(target)

\* What moves fits into the gaps: source and destination are apart.  Nothing
\* in the code asks; when they overlap, memset wipes part of what was moved.
Fits(target) ==
  IF target < table.groupGapStart
  THEN /\ table.groupGapStart - target <= table.groupGapLen
       /\ table.slotGapStart - table.groups[target].slotIndex
            <= table.slotGapLen
  ELSE /\ target - table.groupGapStart <= table.groupGapLen
       /\ SlotsAhead(target) <= table.slotGapLen

\* A link to a group from threshold on goes delta further.
Renumbered(group, threshold, delta) ==
  IF group.parentIndex = None \/ group.parentIndex < threshold THEN group
  ELSE [group EXCEPT !.parentIndex = @ + delta]

\* CelsSlotTableGroupsShiftParents: it looks at physical entries, and leaves
\* out those in the gap.
ShiftParents(threshold, delta) ==
  [table EXCEPT !.groups =
     [p \in DOMAIN @ |->
        IF p \in Interval(table.groupGapStart, table.groupGapLen) THEN @[p]
        ELSE Renumbered(@[p], threshold, delta)]]

-----------------------------------------------------------------------------
(* The writer.                                                             *)

Depth == Len(writer)

\* Group i begins a tree.
Root(i) == i < GroupCount => GroupAt(i).parentIndex = None

WriterOpen ==
  /\ ~table.writerActive /\ table.readerCount = 0 /\ walk = None
  /\ table' = [table EXCEPT !.writerActive = TRUE]
  /\ writer' = <<>>
  /\ UNCHANGED <<reader, walk>>

WriterClose ==
  /\ table.writerActive /\ Depth = 0
  /\ table' = [table EXCEPT !.writerActive = FALSE]
  /\ UNCHANGED <<writer, reader, walk>>

\* CelsSlotWriterGapMoveTo: any group of the table will do.
GapMoveTo(target) ==
  /\ table.writerActive /\ Depth = 0
  /\ target <= GroupCount /\ target # table.groupGapStart
  /\ table' = MoveGapTo(target)
  /\ UNCHANGED <<writer, reader, walk>>

\* The place behind the tree that follows the gap.
SkipTarget ==
  table.groupGapStart + 1
    + table.groups[table.groupGapStart + table.groupGapLen].groupSize

\* CelsSlotWriterGroupSkip
WriterGroupSkip ==
  /\ table.writerActive /\ Depth = 0
  /\ table.groupGapStart < GroupCount
  /\ table' = MoveGapTo(SkipTarget)
  /\ UNCHANGED <<writer, reader, walk>>

(* Mutant: one group too many.                                             *)
RoomLate == table.groupGapLen >= 0

Room == table.groupGapLen > 0

\* CelsSlotWriterGroupStart, after the renumbering of the links.
GroupStart(key) ==
  /\ table.writerActive
  /\ Depth < MaxDepth /\ Room
  /\ LET at == table.groupGapStart
         new == [ZeroGroup EXCEPT
                   !.key = key,
                   !.parentIndex = IF Depth = 0 THEN None ELSE writer[Depth],
                   !.slotIndex = table.slotGapStart]
     IN /\ table' =
             [ShiftParents(at, 1) EXCEPT !.groups[at] = new,
                                         !.groupGapStart = @ + 1,
                                         !.groupGapLen = @ - 1]
        /\ writer' = Append(writer, at)
  /\ UNCHANGED <<reader, walk>>

\* Group i with fields that an operation changes.
WithGroup(i, group) ==
  [table EXCEPT !.groups[GroupToPhysicalIdx(i)] = group]

\* CelsSlotWriterGroupEnd: the size of the group, and its nodes to its parent.
GroupEnd ==
  /\ table.writerActive /\ Depth > 0
  /\ LET i == writer[Depth]
         sized == WithGroup(i, [GroupAt(i) EXCEPT
                                  !.groupSize = table.groupGapStart - i - 1])
     IN table' =
          IF Depth = 1 THEN sized
          ELSE [sized EXCEPT
                  !.groups[GroupToPhysicalIdx(writer[Depth - 1])].nodeCount =
                     @ + GroupAt(i).nodeCount]
  /\ writer' = Front(writer)
  /\ UNCHANGED <<reader, walk>>

NodeEmit ==
  /\ table.writerActive /\ Depth > 0
  /\ \A i \in 0 .. GroupCount - 1 : GroupAt(i).nodeCount < MaxNodes
  /\ table' = WithGroup(writer[Depth],
                       [GroupAt(writer[Depth]) EXCEPT !.nodeCount = @ + 1])
  /\ UNCHANGED <<writer, reader, walk>>

\* CelsSlotWriterSlotWrite, before the group gets a child.
SlotWrite(value) ==
  /\ table.writerActive /\ Depth > 0
  /\ table.slotGapLen > 0
  /\ writer[Depth] = table.groupGapStart - 1
  /\ table' =
       [table EXCEPT
          !.slots[table.slotGapStart] = value,
          !.slotGapStart = @ + 1,
          !.slotGapLen = @ - 1,
          !.groups[GroupToPhysicalIdx(writer[Depth])].slotCount = @ + 1]
  /\ UNCHANGED <<writer, reader, walk>>

\* CelsSlotWriterSlotSet
SlotSet(i, value) ==
  /\ table.writerActive /\ i < SlotCount
  /\ table' =
       [table EXCEPT
          !.slots[IF i < table.slotGapStart THEN i
                  ELSE i + table.slotGapLen] = value]
  /\ UNCHANGED <<writer, reader, walk>>

-----------------------------------------------------------------------------
(* The reader.                                                             *)

\* Bound of the model: a reader looks at no flag, and is opened on a table
\* without any.
Unmarked == \A i \in 0 .. GroupCount - 1 : GroupAt(i).flags = {}

ReaderOpen ==
  /\ ~table.writerActive /\ ~reader.open
  /\ walk = None /\ Unmarked
  /\ table' = [table EXCEPT !.readerCount = @ + 1]
  /\ reader' = [open |-> TRUE, currentGroup |-> 0, currentSlot |-> 0,
                currentParent |-> None, groupEnd |-> GroupCount]
  /\ UNCHANGED <<writer, walk>>

ReaderClose ==
  /\ reader.open /\ table.readerCount > 0
  /\ table' = [table EXCEPT !.readerCount = @ - 1]
  /\ reader' = ClosedReader
  /\ UNCHANGED <<writer, walk>>

(* Mutant: the last group of the subtree is left out.                      *)
EndShort(i) == i + GroupAt(i).groupSize

\* The place behind the subtree of group i.
EndOf(i) == i + 1 + GroupAt(i).groupSize

ReaderGroupStart ==
  /\ reader.open /\ reader.currentGroup < reader.groupEnd
  /\ LET i == reader.currentGroup IN
       reader' = [open |-> TRUE, currentParent |-> i, currentSlot |-> 0,
                  currentGroup |-> i + 1,
                  groupEnd |-> EndOf(i)]
  /\ UNCHANGED <<table, writer, walk>>

ReaderGroupEnd ==
  /\ reader.open /\ reader.currentParent # None
  /\ reader.currentGroup = reader.groupEnd
  /\ LET up == GroupAt(reader.currentParent).parentIndex IN
       reader' = [reader EXCEPT
                    !.currentParent = up,
                    !.groupEnd = IF up = None THEN GroupCount
                                 ELSE EndOf(up)]
  /\ UNCHANGED <<table, writer, walk>>

ReaderGroupSkip ==
  /\ reader.open /\ reader.currentGroup < reader.groupEnd
  /\ reader' = [reader EXCEPT
                  !.currentGroup = EndOf(@)]
  /\ UNCHANGED <<table, writer, walk>>

\* CelsSlotReaderSlotRead, before the children of the group.
SlotRead ==
  /\ reader.open /\ reader.currentParent # None
  /\ reader.currentGroup = reader.currentParent + 1
  /\ reader.currentSlot < GroupAt(reader.currentParent).slotCount
  /\ reader' = [reader EXCEPT !.currentSlot = @ + 1]
  /\ UNCHANGED <<table, writer, walk>>

-----------------------------------------------------------------------------
(* Invalidation.                                                           *)

\* The groups above each group, along the links, which lead to the left.
Above(parent) ==
  LET above[i \in DOMAIN parent] ==
        IF parent[i] < i THEN above[parent[i]] \union {parent[i]} ELSE {}
  IN above

Ancestors == Above([i \in 0 .. GroupCount - 1 |-> GroupAt(i).parentIndex])

(* Mutant: only the parent is told.                                        *)
ClimbedOnce(i) == {j \in Ancestors[i] : j = GroupAt(i).parentIndex}

\* The groups that CelsSlotTableGroupInvalidate marks above group i: it stops
\* at a root and at the first that is marked already.
Climbed(i) ==
  {j \in Ancestors[i] : \A k \in Ancestors[i] :
     k >= j => "contains" \notin GroupAt(k).flags}

\* Every group j of the table with flags[j]; an entry in the gap is not one.
WithFlags(flags) ==
  [table EXCEPT !.groups =
     [p \in DOMAIN @ |->
        IF p < table.groupGapStart
        THEN [@[p] EXCEPT !.flags = flags[p]]
        ELSE IF p >= table.groupGapStart + table.groupGapLen
        THEN [@[p] EXCEPT !.flags = flags[p - table.groupGapLen]]
        ELSE @[p]]]

GroupInvalidate(i) ==
  /\ ~table.writerActive /\ ~reader.open /\ walk = None
  /\ i < GroupCount
  /\ LET climbed == Climbed(i) IN
       table' = WithFlags(
         [j \in 0 .. GroupCount - 1 |->
            GroupAt(j).flags
              \union (IF j = i THEN {"invalidated"} ELSE {})
              \union (IF j \in climbed THEN {"contains"} ELSE {})])
  /\ UNCHANGED <<writer, reader, walk>>

ClearAllFlags ==
  /\ ~table.writerActive /\ walk = None
  /\ table' = WithFlags([j \in 0 .. GroupCount - 1 |-> {}])
  /\ UNCHANGED <<writer, reader, walk>>

\* The composition walk that the flags are for.
WalkBegin ==
  /\ walk = None /\ ~table.writerActive
  /\ \E i \in 0 .. GroupCount - 1 : "invalidated" \in GroupAt(i).flags
  /\ walk' = 0
  /\ UNCHANGED <<table, writer, reader>>

\* It enters a marked group, and clears its flags.
WalkEnter ==
  /\ walk < GroupCount
  /\ GroupAt(walk).flags # {}
  /\ table' = WithGroup(walk, [GroupAt(walk) EXCEPT !.flags = {}])
  /\ walk' = walk + 1
  /\ UNCHANGED <<writer, reader>>

\* It jumps over the tree of an unmarked one.
WalkSkip ==
  /\ walk < GroupCount
  /\ GroupAt(walk).flags = {}
  /\ walk' = EndOf(walk)
  /\ UNCHANGED <<table, writer, reader>>

WalkEnd ==
  /\ walk = GroupCount
  /\ walk' = None
  /\ UNCHANGED <<table, writer, reader>>

-----------------------------------------------------------------------------

GapMove ==
  WriterGroupSkip \/ \E target \in 0 .. GroupCapacity : GapMoveTo(target)

\* Those of a caller that keeps trees whole, and knows how long the gaps are.
CarefulGapMove ==
  \/ WriterGroupSkip /\ Fits(SkipTarget)
  \/ \E target \in 0 .. GroupCapacity :
       GapMoveTo(target) /\ Root(target) /\ Fits(target)

Writing ==
  \/ WriterOpen \/ WriterClose
  \/ \E key \in Keys : GroupStart(key)
  \/ GroupEnd \/ NodeEmit
  \/ \E value \in Values :
       \/ SlotWrite(value)
       \/ \E i \in 0 .. SlotCapacity - 1 : SlotSet(i, value)

Reading ==
  \/ ReaderOpen \/ ReaderClose
  \/ ReaderGroupStart \/ ReaderGroupEnd \/ ReaderGroupSkip \/ SlotRead

Invalidating ==
  \/ \E i \in 0 .. GroupCapacity - 1 : GroupInvalidate(i)
  \/ ClearAllFlags
  \/ WalkBegin \/ WalkEnter \/ WalkSkip \/ WalkEnd

TableNext == Reset \/ GapMove \/ Writing \/ Reading \/ Invalidating

TableSpec == TableInit /\ [][TableNext]_tableVars

CarefulNext ==
  Reset \/ CarefulGapMove \/ Writing \/ Reading \/ Invalidating

CarefulSpec == TableInit /\ [][CarefulNext]_tableVars

-----------------------------------------------------------------------------
(* Properties.                                                             *)

AllGroups == 0 .. GroupCount - 1

\* The groups that lie below group i, along the links.
Below(i) == {j \in AllGroups : i \in Ancestors[j]}

Closed(i) == \A d \in DOMAIN writer : writer[d] # i

\* The links and the sizes tell the same tree, wherever the gap is: what an
\* O(1) skip jumps over is the subtree of the group.
LinksMatchSizes ==
  LET above == Ancestors IN
  \A i \in AllGroups : Closed(i) =>
    {j \in AllGroups : i \in above[j]} = i + 1 .. i + GroupAt(i).groupSize

\* As long as the gaps are moved with care, the links and the sizes tell the
\* same tree, and a reader is inside the group it takes for its parent, its boundary the end of that group's
\* subtree, after any sequence of entering, leaving and skipping.  About
\* parentIndex across insertions and gap moves, the backfill of
\* CelsSlotWriterGroupEnd, and the boundaries a reader computes.
ReaderNested ==
  LinksMatchSizes /\ (reader.open =>
    /\ reader.currentGroup <= reader.groupEnd
    /\ IF reader.currentParent = None
       THEN reader.groupEnd = GroupCount /\ Root(reader.currentGroup)
       ELSE /\ reader.currentGroup > reader.currentParent
            /\ Below(reader.currentParent) =
                 reader.currentParent + 1 .. reader.groupEnd - 1
            /\ reader.currentGroup < reader.groupEnd =>
                 GroupAt(reader.currentGroup).parentIndex
                   = reader.currentParent)

\* No invalidated group is jumped over: whatever the walk has left
\* behind is clean, and ahead of it every group above an invalidated one is
\* marked, unless the walk is already inside it.  About the early stop of the
\* climb and the skip by groupSize.
NoneSkipped ==
  LET above == Ancestors IN
    \A i \in AllGroups : "invalidated" \in GroupAt(i).flags =>
      /\ walk # None => i >= walk
      /\ \A j \in above[i] :
           \/ "contains" \in GroupAt(j).flags
           \/ walk # None /\ j < walk

\* The nodes that group i emitted itself: those of the closed groups right
\* below it have been added to its own.
OwnNodes(i) ==
  GroupAt(i).nodeCount
    - SumOf([j \in AllGroups |->
               IF GroupAt(j).parentIndex = i /\ Closed(j)
               THEN GroupAt(j).nodeCount ELSE 0], GroupCount)

\* The table as the forest it stands for.
Forest ==
  LET above == Ancestors IN
  [n \in 1 .. GroupCount |->
     LET group == GroupAt(n - 1) IN
       [key |-> group.key,
        depth |-> Cardinality(above[n - 1]),
        nodes |-> OwnNodes(n - 1),
        values |-> [k \in 1 .. group.slotCount |->
                      table.slots[group.slotIndex + k - 1]]]]

Abstract == INSTANCE SlotForest
              WITH forest <- Forest, at <- table.groupGapStart,
                   open <- Depth

\* The two gap buffers implement the forest: moving the gaps with care changes
\* nothing but the writer's place, an insertion moves no other group or word,
\* and a word or a node goes to the group that it was meant for.
ImplementsSlotForest == Abstract!ForestSpec

\* "BBB and CCC were NEVER corrupted" (test/slot_table/test_slot_table.c:280):
\* a move that returns CELS_OK leaves groups and words as they are.  The code
\* wipes groups when it moves more of them than the gap is long.
GapMovesKeepGroups == [][GapMove => Forest' = Forest]_tableVars
=============================================================================
