--------------------------- MODULE CompositionTree ---------------------------
(***************************************************************************)
(* What the reconciler promises, without its table: a tree of mounted      *)
(* groups in which                                                         *)
(*   - a group is mounted only below a running body, keeps its parent and  *)
(*     its key for life, and its identity is never used again;             *)
(*   - a body runs at most once in a walk, and only below its parent's;    *)
(*   - a subtree is passed over only when nothing in it is due;            *)
(*   - when a body returns, exactly the children it did not visit are gone *)
(*     and nothing below it is due any more.                               *)
(***************************************************************************)
EXTENDS Naturals, Sequences

CONSTANTS Ids, Keys

VARIABLES
  up,    \* mounted identity -> parent's identity, the root's is itself
  label, \* mounted identity -> key
  used,  \* identities ever mounted
  due,   \* mounted identities whose body must run
  open,  \* identities of the running bodies, outermost first
  seen   \* identities this walk has visited or passed over

treeVars == <<up, label, used, due, open, seen>>

live == DOMAIN up

Chain(i) ==
  {a \in live : \A S \in SUBSET live :
      (i \in S /\ \A n \in S : up[n] \in S) => a \in S}

Under(i) == {x \in live : i \in Chain(x)}

Last(s) == s[Len(s)]

ExtendWith(f, i, v) == [x \in DOMAIN f \cup {i} |-> IF x = i THEN v ELSE f[x]]

Without(f, S) == [x \in DOMAIN f \ S |-> f[x]]

Unmounted(S) ==
  /\ up' = Without(up, S)
  /\ label' = Without(label, S)
  /\ due' = due \ S
  /\ UNCHANGED <<used, open, seen>>

-----------------------------------------------------------------------------

Init ==
  /\ up = <<>>
  /\ label = <<>>
  /\ used = {}
  /\ due = {}
  /\ open = <<>>
  /\ seen = {}

(* Between walks: groups become due, or a subtree is torn down.            *)
MakeDue ==
  /\ open = <<>>
  /\ due' \subseteq live
  /\ due \subseteq due'
  /\ UNCHANGED <<up, label, used, open, seen>>

TearDown(i) == open = <<>> /\ i \in live /\ Unmounted(Under(i))

(* A walk starts at the root, or at a new root that replaces the tree.     *)
OpenRoot(i) ==
  /\ open = <<>>
  /\ i \in live
  /\ up[i] = i
  /\ open' = <<i>>
  /\ seen' = {i}
  /\ due' = due \ {i}
  /\ UNCHANGED <<up, label, used>>

MountRoot(i, k) ==
  /\ open = <<>>
  /\ i \notin used
  /\ up' = ExtendWith(<<>>, i, i)
  /\ label' = ExtendWith(<<>>, i, k)
  /\ used' = used \cup {i}
  /\ open' = <<i>>
  /\ seen' = {i}
  /\ due' = {}

Unvisited(i) == i \in live /\ open # <<>> /\ up[i] = Last(open) /\ i \notin seen

Mount(i, k) ==
  /\ open # <<>>
  /\ i \notin used
  /\ up' = ExtendWith(up, i, Last(open))
  /\ label' = ExtendWith(label, i, k)
  /\ used' = used \cup {i}
  /\ open' = Append(open, i)
  /\ seen' = seen \cup {i}
  /\ UNCHANGED due

Rerun(i) ==
  /\ Unvisited(i)
  /\ open' = Append(open, i)
  /\ seen' = seen \cup {i}
  /\ due' = due \ {i}
  /\ UNCHANGED <<up, label, used>>

PassOver(i) ==
  /\ Unvisited(i)
  /\ Under(i) \cap due = {}
  /\ seen' = seen \cup Under(i)
  /\ UNCHANGED <<up, label, used, due, open>>

Drop(i) == Unvisited(i) /\ Unmounted(Under(i))

Close ==
  /\ open # <<>>
  /\ \A i \in live : ~Unvisited(i)
  /\ Under(Last(open)) \cap due = {}
  /\ open' = SubSeq(open, 1, Len(open) - 1)
  /\ seen' = IF Len(open) = 1 THEN {} ELSE seen
  /\ UNCHANGED <<up, label, used, due>>

Next ==
  \/ MakeDue
  \/ Close
  \/ \E i \in Ids :
       \/ TearDown(i)
       \/ OpenRoot(i)
       \/ Rerun(i)
       \/ PassOver(i)
       \/ Drop(i)
       \/ \E k \in Keys : MountRoot(i, k) \/ Mount(i, k)

Spec == Init /\ [][Next]_treeVars
=============================================================================
