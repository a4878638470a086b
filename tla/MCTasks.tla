------------------------------ MODULE MCTasks -------------------------------
(* Two tasks that share the clock, the passes and one waiter.              *)
EXTENDS Tasks

CONSTANTS t, u

MCTwo == {t, u}
=============================================================================
