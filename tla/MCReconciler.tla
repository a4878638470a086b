---------------------------- MODULE MCReconciler ----------------------------
EXTENDS Reconciler, TLC

CONSTANTS root, a, b, MaxQueued

MCRootKeys == {root}
MCKeys == {root, a, b}
MCSymmetry == Permutations({a, b})

(* Bound of the model: keys waiting in the two queues.                     *)
FewQueued == Cardinality(queue) + Cardinality(nextQueue) <= MaxQueued
=============================================================================
