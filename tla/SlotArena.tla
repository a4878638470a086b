------------------------------ MODULE SlotArena ------------------------------
(***************************************************************************)
(* Remembered memory of a CELS session (src/runtime/session.c): the slots  *)
(* a running body resolves call by call in the data arena, the cleanup     *)
(* hooks that go with them, the state buffers carved from the other end,   *)
(* and what a hot reload that resizes a struct does to them.               *)
(*                                                                         *)
(* Every call is CelsResolveSlotWithCleanup: cel_remember with a           *)
(* destructor, or a cel_lifecycle bound to the memory it was given.        *)
(* Sizes count alignment units.  Which groups run, nest and are pruned is  *)
(* Reconciler's business: here any mounted group may be entered again.     *)
(***************************************************************************)
EXTENDS Naturals, Sequences

CONSTANTS
  Keys,        \* keys of the composables; two groups may share one
  Calls,       \* calls a body makes: their number never changes
  Sizes,       \* sizes of the remembered structs
  BufferSizes, \* sizes of the state buffers
  ArenaSize,   \* s->dataArenaSize
  MaxSlots,    \* s->maxSlots
  MaxHooks,    \* CELS_MAX_CLEANUPS
  MaxIds,      \* bound of the model: groups ever mounted
  MaxReloads   \* bound of the model: hot reloads

ASSUME SlotAssumption ==
  /\ Sizes \subseteq Nat \ {0} /\ BufferSizes \subseteq Nat \ {0}
  /\ {Calls, ArenaSize, MaxSlots, MaxHooks, MaxIds} \subseteq Nat \ {0}
  /\ MaxReloads \in Nat

VARIABLES
  keyOf,     \* mounted group -> its key
  fresh,     \* groups flagged CELS_FLAG_FRESH_MOUNT
  stack,     \* Seq of Frame: the running bodies
  nextId,    \* s->nextGroupId
  slots,     \* Seq of Slot: s->slots, by arena offset
  used,      \* s->dataGapStart, the bytes the slots take
  top,       \* s->dataGapEnd
  hooks,     \* Seq of Hook: s->cleanups
  sizeOf,    \* key -> Seq of the sizes its code asks for
  reloads,   \* hot reloads so far
  stopped,   \* the assertion "Remembered slot count/order changed" failed
  broken     \* groups that were refused memory or reset by a resize

groupVars == <<keyOf, fresh, nextId>>
arena == <<slots, used, top>>
code == <<sizeOf, reloads>>
vars == <<groupVars, stack, arena, hooks, code, stopped, broken>>

(* gid: group; off: offset within the group's slots; at: arena offset.     *)
Slot == [gid : 1..MaxIds, off : Nat, at : Nat, size : Sizes]

(* An instance stands for the memory of one call of one group.             *)
Instance == [gid : 1..MaxIds, call : 1..Calls]

Hook == [gid : 1..MaxIds, key : Keys, inst : Instance]

(* off: s->currentSlotOffset; call: calls the body has made.               *)
Frame == [gid : 1..MaxIds, off : Nat, call : 0..Calls]

mounted == DOMAIN keyOf

-----------------------------------------------------------------------------
(* Where a slot goes.                                                      *)

Least(S) == CHOOSE n \in S : \A m \in S : n <= m

End(s) == s.at + s.size

(* Mutant: the gap may be one unit short.                                  *)
GapTooSmall(at, size, limit) == at + size <= limit + 1

GapFits(at, size, limit) == at + size <= limit

EndBefore(ss, n) == IF n = 1 THEN 0 ELSE End(ss[n - 1])

(* The position a slot of this size takes among the slots ss, which hold   *)
(* `bytes`: the end when they leave no hole, else the first gap that is    *)
(* large enough.                                                           *)
Insertion(ss, bytes, size) ==
  LET n == Len(ss)
      gaps == {m \in 1..n : GapFits(EndBefore(ss, m), size, ss[m].at)}
  IN  IF n > 0 /\ End(ss[n]) = bytes THEN n + 1 ELSE Least(gaps \cup {n + 1})

InsertAt(seq, n, e) ==
  [m \in 1..Len(seq) + 1 |-> IF m < n THEN seq[m] ELSE IF m = n THEN e ELSE seq[m - 1]]

(* Mutant: the slot table is checked for room too late.                    *)
RefusedLate(ss, bytes, size) ==
  \/ Len(ss) > MaxSlots
  \/ ~GapFits(EndBefore(ss, Insertion(ss, bytes, size)), size, top)

Refused(ss, bytes, size) ==
  \/ Len(ss) >= MaxSlots
  \/ ~GapFits(EndBefore(ss, Insertion(ss, bytes, size)), size, top)

(* Mutant: slots are released by place, not by group.                      *)
WithoutFirst(seq, gid) == IF seq = <<>> THEN seq ELSE Tail(seq)

(* The loop over the table that keeps what is not the group's, in order.   *)
WithoutUpTo(seq, gid) ==
  LET kept[n \in 0..Len(seq)] ==
        IF n = 0 THEN <<>>
        ELSE IF seq[n].gid = gid THEN kept[n - 1]
        ELSE Append(kept[n - 1], seq[n])
  IN  kept

Without(seq, gid) == WithoutUpTo(seq, gid)[Len(seq)]

(* The bytes of the slots of the groups gids, and of one group.            *)
BytesUpTo(ss, gids) ==
  LET bytes[n \in 0..Len(ss)] ==
        IF n = 0 THEN 0
        ELSE bytes[n - 1] + (IF ss[n].gid \in gids THEN ss[n].size ELSE 0)
  IN  bytes

Bytes(ss, gids) == BytesUpTo(ss, gids)[Len(ss)]

(* Mutant: released bytes stay counted.                                    *)
BytesNone(gid) == 0

BytesOf(gid) == Bytes(slots, {gid})

-----------------------------------------------------------------------------
Init ==
  /\ keyOf = <<>>
  /\ fresh = {}
  /\ nextId = 1
  /\ stack = <<>>
  /\ slots = <<>>
  /\ used = 0
  /\ top = ArenaSize
  /\ hooks = <<>>
  /\ sizeOf \in [Keys -> [1..Calls -> Sizes]]
  /\ reloads = 0
  /\ stopped = FALSE
  /\ broken = {}

Running == {stack[d].gid : d \in DOMAIN stack}
Top == stack[Len(stack)]
Calling == stack # <<>> /\ ~stopped /\ Top.call < Calls
Wanted == sizeOf[keyOf[Top.gid]][Top.call + 1]

(* The frame of the running body after a call that took `taken` bytes.     *)
(* Mutant: the next call looks where this one did.                         *)
CalledInPlace(taken) == [stack EXCEPT ![Len(stack)].call = @ + 1]

Advanced(frame, taken) ==
  [gid |-> frame.gid, off |-> frame.off + taken, call |-> frame.call + 1]

Called(taken) == [stack EXCEPT ![Len(stack)] = Advanced(@, taken)]

Enter(gid) == stack' = Append(stack, [gid |-> gid, off |-> 0, call |-> 0])

(* CelsEnterComposable (or CelsEnterComposition) mounts a group.           *)
Mount(k) ==
  /\ ~stopped
  /\ nextId <= MaxIds
  /\ keyOf' = [g \in mounted \cup {nextId} |-> IF g = nextId THEN k ELSE keyOf[g]]
  /\ fresh' = fresh \cup {nextId}
  /\ nextId' = nextId + 1
  /\ Enter(nextId)
  /\ UNCHANGED <<arena, hooks, code, stopped, broken>>

Rerun(gid) ==
  /\ ~stopped
  /\ gid \in mounted \ Running
  /\ Enter(gid)
  /\ UNCHANGED <<groupVars, arena, hooks, code, stopped, broken>>

(* CelsExitGroup: the group is fresh no more.                              *)
Exit ==
  /\ stack # <<>> /\ ~stopped
  /\ Top.call = Calls
  /\ fresh' = fresh \ {Top.gid}
  /\ stack' = SubSeq(stack, 1, Len(stack) - 1)
  /\ UNCHANGED <<keyOf, nextId, arena, hooks, code, stopped, broken>>

(* CelsPruneSubtree on one group: cleanups, then slots.                    *)
Prune(gid) ==
  /\ ~stopped
  /\ gid \in mounted \ Running
  /\ hooks' = Without(hooks, gid)
  /\ slots' = Without(slots, gid)
  /\ used' = used - BytesOf(gid)
  /\ keyOf' = [g \in mounted \ {gid} |-> keyOf[g]]
  /\ fresh' = fresh \ {gid}
  /\ broken' = broken \ {gid}
  /\ UNCHANGED <<nextId, stack, top, code, stopped>>

-----------------------------------------------------------------------------
(* CelsResolveSlotWithCleanup, called by the running body.                 *)

Me == [gid |-> Top.gid, call |-> Top.call + 1]

NewHook == [gid |-> Top.gid, key |-> keyOf[Top.gid], inst |-> Me]

(* CelsSessionRegisterLifecycle: a full table drops the hook.              *)
Registered(hs) == IF Len(hs) >= MaxHooks THEN hs ELSE Append(hs, NewHook)

(* CelsSessionUpdateLifecycle: the first hook of the group, or of any      *)
(* group with its key, is made over.                                       *)
Updated(hs) ==
  LET same == {n \in DOMAIN hs : hs[n].gid = Top.gid \/ hs[n].key = keyOf[Top.gid]}
  IN  IF same = {} THEN Registered(hs) ELSE [hs EXCEPT ![Least(same)] = NewHook]

NewSlot(ss, n) == [gid |-> Top.gid, off |-> Top.off, at |-> EndBefore(ss, n), size |-> Wanted]

(* CelsResolveSlot on a fresh group, with the slots ss and the hooks hs:   *)
(* memory and its hook, or NULL and the offset does not move.              *)
Allocated(ss, bytes, hs) ==
  LET n == Insertion(ss, bytes, Wanted) IN
  /\ ~Refused(ss, bytes, Wanted)
  /\ slots' = InsertAt(ss, n, NewSlot(ss, n))
  /\ used' = bytes + Wanted
  /\ hooks' = Registered(hs)
  /\ stack' = Called(Wanted)

Denied(ss, bytes, hs) ==
  /\ Refused(ss, bytes, Wanted)
  /\ slots' = ss
  /\ used' = bytes
  /\ hooks' = hs
  /\ stack' = Called(0)

AllocateSlot ==
  /\ Calling
  /\ Top.gid \in fresh
  /\ Allocated(slots, used, hooks)
  /\ UNCHANGED <<groupVars, top, code, stopped, broken>>

RefuseSlot ==
  /\ Calling
  /\ Top.gid \in fresh
  /\ Denied(slots, used, hooks)
  /\ broken' = broken \cup {Top.gid}
  /\ UNCHANGED <<groupVars, top, code, stopped>>

(* The slot the call was given before.                                     *)
Mine == {n \in DOMAIN slots : slots[n].gid = Top.gid /\ slots[n].off = Top.off}

FindSlot ==
  /\ Calling
  /\ Top.gid \notin fresh
  /\ \E n \in Mine :
       /\ slots[n].size = Wanted
       /\ stack' = Called(Wanted)
  /\ hooks' = Updated(hooks)
  /\ UNCHANGED <<groupVars, arena, code, stopped, broken>>

(* The struct was resized: every slot and hook of the group is released    *)
(* and the call is made again on a fresh group, from the same offset.      *)
ResizedSlot ==
  /\ Calling
  /\ Top.gid \notin fresh
  /\ \E n \in Mine : slots[n].size # Wanted
  /\ LET kept  == Without(slots, Top.gid)
         bytes == used - BytesOf(Top.gid)
         hs    == Without(hooks, Top.gid)
     IN  Allocated(kept, bytes, hs) \/ Denied(kept, bytes, hs)
  /\ fresh' = fresh \cup {Top.gid}
  /\ broken' = broken \cup {Top.gid}
  /\ UNCHANGED <<keyOf, nextId, top, code, stopped>>

(* The assertion "Remembered slot count/order changed".                    *)
LostSlot ==
  /\ Calling
  /\ Top.gid \notin fresh
  /\ Mine = {}
  /\ stopped' = TRUE
  /\ UNCHANGED <<groupVars, stack, arena, hooks, code, broken>>

-----------------------------------------------------------------------------
(* CelsSessionAllocData, for a state buffer: what is compared with the end *)
(* of the gap is the number of bytes the slots take.                       *)
AllocData(size) ==
  /\ ~stopped
  /\ GapFits(used, size, top)
  /\ top' = top - size
  /\ UNCHANGED <<groupVars, stack, slots, used, hooks, code, stopped, broken>>

(* A new library: the sizes its code asks for may differ.                  *)
HotReload ==
  /\ stack = <<>> /\ ~stopped
  /\ reloads < MaxReloads
  /\ reloads' = reloads + 1
  /\ sizeOf' \in [Keys -> [1..Calls -> Sizes]]
  /\ fresh' = {}
  /\ UNCHANGED <<keyOf, nextId, stack, arena, hooks, stopped, broken>>

Next ==
  \/ \E k \in Keys : Mount(k)
  \/ \E g \in 1..MaxIds : Rerun(g) \/ Prune(g)
  \/ \E size \in BufferSizes : AllocData(size)
  \/ Exit \/ AllocateSlot \/ RefuseSlot \/ FindSlot \/ ResizedSlot \/ LostSlot
  \/ HotReload

Spec == Init /\ [][Next]_vars

-----------------------------------------------------------------------------
(* Properties.                                                             *)

TypeOK ==
  /\ keyOf \in [mounted -> Keys] /\ mounted \subseteq 1..MaxIds
  /\ fresh \subseteq mounted /\ broken \subseteq mounted
  /\ nextId \in Nat
  /\ stack \in Seq(Frame)
  /\ slots \in Seq(Slot) /\ Len(slots) <= MaxSlots
  /\ used \in Nat /\ top \in 0..ArenaSize
  /\ hooks \in Seq(Hook) /\ Len(hooks) <= MaxHooks
  /\ sizeOf \in [Keys -> [1..Calls -> Sizes]]
  /\ reloads \in 0..MaxReloads
  /\ stopped \in BOOLEAN

(* No two live slots share a byte, whatever was released and refilled      *)
(* between them, slots stay in arena order and belong to mounted groups,   *)
(* and dataGapStart counts exactly their bytes.                            *)
SlotsDisjoint ==
  /\ \A m, n \in DOMAIN slots : m < n => End(slots[m]) <= slots[n].at
  /\ \A n \in DOMAIN slots : slots[n].gid \in mounted
  /\ used = Bytes(slots, 1..MaxIds)

Own(g) == {slots[n] : n \in {m \in DOMAIN slots : slots[m].gid = g}}

(* Each of the first c calls of group g has a slot of its own, at the      *)
(* offset where the slot of the call before ends, and g has no other slot. *)
Remembers(g, c) ==
  \E slotOf \in [1..c -> Own(g)] :
    /\ \A n \in 1..c :
         slotOf[n].off = IF n = 1 THEN 0 ELSE slotOf[n - 1].off + slotOf[n - 1].size
    /\ \A s \in Own(g) : \E n \in 1..c : slotOf[n] = s

(* A group that was never refused memory nor resized keeps a slot for      *)
(* every call, at the offset the call looks it up with; the assertion that *)
(* calls were reordered fails only in a group that was.                    *)
CallsRemembered ==
  /\ \A g \in mounted \ broken :
       IF g \in fresh
       THEN \A d \in DOMAIN stack : stack[d].gid = g => Remembers(g, stack[d].call)
       ELSE Remembers(g, Calls)
  /\ stopped => Top.gid \in broken

(* The memory handed to a body does not move: a slot changes or goes only  *)
(* with its group or by a resize (slot-table-architecture.md:286).         *)
PointersPinned ==
  [][\A n \in DOMAIN slots :
       \/ slots[n].gid \notin DOMAIN keyOf'
       \/ slots[n].gid \in broken'
       \/ \E m \in DOMAIN slots' : slots'[m] = slots[n]]_vars

(* Slots and state buffers, which grow towards each other, never meet.     *)
ArenaEndsApart == \A n \in DOMAIN slots : End(slots[n]) <= top

(* Every destructor registered is invoked: the hook of an instance stays   *)
(* until its group is unmounted or reset (coding-standards-c99.md:234).    *)
HooksKept ==
  [][\A n \in DOMAIN hooks :
       \/ hooks[n].gid \notin DOMAIN keyOf'
       \/ hooks[n].gid \in broken'
       \/ \E m \in DOMAIN hooks' : hooks'[m].inst = hooks[n].inst]_vars

(* A program goes on after a reload that resizes a struct: the assertion   *)
(* that calls were reordered does not fail                                 *)
(* (dynamic-hot-reload-engine.md:317).                                     *)
ReloadSurvived == ~stopped
=============================================================================
