------------------------------ MODULE MCEvents ------------------------------
EXTENDS Events

MCSessions == {"main", "tool"}
MCListeners == {"form", "badge"}
MCTasks == {"flow"}
MCHomeOf == [k \in Keys |-> IF k \in Tasks THEN "tool" ELSE "main"]
MCScopesOf == [k \in Keys |-> IF k = "form" THEN {"local", "broadcast"} ELSE Scopes]
MCRoot == "root"
MCNone == "none"

(* Two tasks of one session, for a queue that holds one of their keys.     *)
MCOneSession == {"tool"}
MCNoListeners == {}
MCTwoTasks == {"flow", "timer"}
=============================================================================
