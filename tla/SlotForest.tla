----------------------------- MODULE SlotForest -----------------------------
(***************************************************************************)
(* What the standalone slot table promises, without gaps, links or         *)
(* indices: an ordered forest, kept as the list of its groups in preorder, *)
(* each with its depth, its own nodes and its own list of values.  A       *)
(* writer has a place in the list, between two trees or inside the groups  *)
(* it has open.                                                            *)
(***************************************************************************)
EXTENDS Naturals, Sequences, SequencesExt

CONSTANTS GroupCapacity, SlotCapacity, MaxDepth, Keys, Values

VARIABLES
  forest, \* the groups in preorder: [key, depth, nodes, values]
  at,     \* how many of them come before the writer's place
  open    \* how many groups the writer has open

forestVars == <<forest, at, open>>

\* How many values there are.
Slots ==
  LET upTo[n \in 0 .. Len(forest)] ==
        IF n = 0 THEN 0 ELSE upTo[n - 1] + Len(forest[n].values)
  IN upTo[Len(forest)]

\* The place before entry i + 1 lies between two trees.
Between(i) == i = Len(forest) \/ forest[i + 1].depth = 0

ForestInit == forest = <<>> /\ at = 0 /\ open = 0

Clear == open = 0 /\ forest' = <<>> /\ at' = 0 /\ open' = 0

MoveTo(i) ==
  /\ open = 0 /\ Between(i)
  /\ at' = i
  /\ UNCHANGED <<forest, open>>

Insert(key) ==
  /\ Len(forest) < GroupCapacity /\ open < MaxDepth
  /\ forest' =
       InsertAt(forest, at + 1, [key |-> key, depth |-> open, nodes |-> 0,
                                 values |-> <<>>])
  /\ at' = at + 1
  /\ open' = open + 1

Finish == open > 0 /\ open' = open - 1 /\ UNCHANGED <<forest, at>>

\* A value for the group opened last, which has no child yet.
Write(value) ==
  /\ open > 0 /\ forest[at].depth = open - 1
  /\ Slots < SlotCapacity
  /\ forest' = [forest EXCEPT ![at].values = Append(@, value)]
  /\ UNCHANGED <<at, open>>

\* A node of the innermost open group, which is entry i.
Emit(i) ==
  /\ i <= at /\ open > 0 /\ forest[i].depth = open - 1
  /\ \A j \in i + 1 .. at : forest[j].depth >= open
  /\ forest' = [forest EXCEPT ![i].nodes = @ + 1]
  /\ UNCHANGED <<at, open>>

Overwrite(i, n, value) ==
  /\ forest' = [forest EXCEPT ![i].values[n] = value]
  /\ UNCHANGED <<at, open>>

ForestNext ==
  \/ Clear
  \/ \E i \in 0 .. Len(forest) : MoveTo(i)
  \/ \E key \in Keys : Insert(key)
  \/ Finish
  \/ \E value \in Values : Write(value)
  \/ \E i \in DOMAIN forest : Emit(i)
  \/ \E i \in DOMAIN forest : \E n \in DOMAIN forest[i].values :
       \E value \in Values : Overwrite(i, n, value)

ForestSpec == ForestInit /\ [][ForestNext]_forestVars
=============================================================================
