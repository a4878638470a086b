------------------------------- MODULE Events -------------------------------
(***************************************************************************)
(* Events, signals and broadcasts of CELS (src/runtime/event.c) and the    *)
(* engine that carries broadcasts between sessions (src/host/engine.c).    *)
(*                                                                         *)
(* One engine, its sessions, and the composables of each session that      *)
(* matter here: listeners, whose bodies drain one event type with          *)
(* CelsEventPoll and CelsEventNext, and tasks, whose fibers do nothing but *)
(* wait for an event of that type, with or without a timeout.  Events of   *)
(* another type are never matched, so one type stands for all.  Other      *)
(* threads only broadcast; everything else is the host thread's.           *)
(*                                                                         *)
(* Reconciler says which bodies an invalidated key runs; here it is the    *)
(* body of that key, or every body when the key is that of the root.  The  *)
(* order of bodies in a pass and of sessions in a frame is left open.      *)
(***************************************************************************)
EXTENDS Naturals, Sequences, FiniteSets

CONSTANTS
  Sessions,     \* the primary session and the secondary ones
  Listeners,    \* keys of composables that poll for events
  Tasks,        \* keys of task composables that wait for events
  HomeOf,       \* key -> its session
  ScopesOf,     \* key -> scopes it accepts
  Root,         \* key of the first attached composition of any session
  None,         \* no session, no body
  MaxQueue,     \* CELS_EVENT_QUEUE_CAPACITY
  MaxListeners, \* CELS_MAX_EVENT_LISTENERS, which bounds waiters too
  MaxConsumers, \* CELS_MAX_EVENT_CONSUMERS
  MaxKeys,      \* CELS_MAX_QUEUE
  MaxDrain,     \* s->maxDrainIterations
  MaxEvents     \* bound of the model: events ever sent

Scopes == {"local", "signal", "broadcast"}
Keys == Listeners \cup Tasks

ASSUME EventsAssumption ==
  /\ HomeOf \in [Keys -> Sessions]
  /\ ScopesOf \in [Keys -> SUBSET Scopes]
  /\ Listeners \cap Tasks = {} /\ Root \notin Keys
  /\ None \notin Sessions \cup Keys
  /\ {MaxQueue, MaxListeners, MaxConsumers, MaxKeys, MaxDrain, MaxEvents} \subseteq Nat \ {0}

Ids == 1..MaxEvents

(* seen: consumedKeys; read: readCount > 0.  The rest is bookkeeping of    *)
(* the model: told, the listeners there were when it was queued; handed,   *)
(* how often each key was given the payload; midway, queued as a signal    *)
(* while its session was composing.                                        *)
Record == [id : Ids, scope : Scopes, seen : SUBSET Listeners, read : BOOLEAN,
           told : SUBSET Listeners, handed : [Keys -> Nat], midway : BOOLEAN]

(* timed: there is a deadline; late: it has passed.                        *)
Waiter == [waiting : BOOLEAN, received : BOOLEAN, timedOut : BOOLEAN,
           timed : BOOLEAN, late : BOOLEAN]

VARIABLES
  staged,     \* Seq of ids: engine->broadcastQueue
  records,    \* session -> Seq of Record
  cursor,     \* session -> 1 + pollCursor
  listening,  \* listeners registered with their session
  waiters,    \* task registered as waiter -> Waiter
  fiber,      \* task -> "ready", "waiting", or "found": suspended although
              \*   the event it waits for had already been copied
  next,       \* session -> keys in nextFrameQueue
  active,     \* session -> keys in invalidationQueue
  mounted,    \* sessions whose bodies have run
  composed,   \* sessions with hasComposedOnce
  frame,      \* sessions CelsEngineRecompose has still to recompose
  composing,  \* the session being recomposed, or None
  iterations, \* drain iterations of its pass
  due,        \* keys whose bodies this iteration has still to run
  body,       \* the key whose body runs, or None
  nextEvent   \* the next event

inbox == <<records, cursor, listening, waiters>>
pass == <<mounted, composed, frame, composing, iterations>>
walk == <<pass, due, body>>
vars == <<staged, inbox, fiber, next, active, walk, nextEvent>>

KeysAt(s) == {k \in Keys : HomeOf[k] = s}

(* The bodies that keys have run: a root reaches all of its session.       *)
Reached(s, keys) == IF Root \in keys THEN KeysAt(s) ELSE keys

-----------------------------------------------------------------------------
Init ==
  /\ staged = <<>>
  /\ records = [s \in Sessions |-> <<>>]
  /\ cursor = [s \in Sessions |-> 1]
  /\ listening = {}
  /\ waiters = <<>>
  /\ fiber = [t \in Tasks |-> "ready"]
  /\ next = [s \in Sessions |-> {}]
  /\ active = [s \in Sessions |-> {}]
  /\ mounted = {}
  /\ composed = {}
  /\ frame = {}
  /\ composing = None
  /\ iterations = 0
  /\ due = {}
  /\ body = None
  /\ nextEvent = 1

-----------------------------------------------------------------------------
(* Sending.                                                                *)

Accepting(keys, s, scope) == {k \in keys : HomeOf[k] = s /\ scope \in ScopesOf[k]}

(* What a queue of keys may be once these were added to it: those it has    *)
(* change nothing, and those it has no place for are dropped, whichever    *)
(* come last.                                                              *)
Enqueued(queue, keys) ==
  IF Cardinality(queue \cup keys) <= MaxKeys THEN {queue \cup keys}
  ELSE {q \in SUBSET (queue \cup keys) : queue \subseteq q /\ Cardinality(q) = MaxKeys}

(* Mutant: an answer is taken after the deadline was acted on.             *)
WokenEver(ws, s, scope) == Accepting(DOMAIN ws, s, scope)

(* CheckTaskWaiters: the waiters an event of this scope answers.           *)
Woken(ws, s, scope) == {t \in Accepting(DOMAIN ws, s, scope) : ws[t].waiting}

Answered(ws, woken) ==
  [t \in DOMAIN ws |->
     IF t \in woken THEN [ws[t] EXCEPT !.waiting = FALSE, !.received = TRUE] ELSE ws[t]]

(* Mutant: the queue is checked for room too late.                         *)
RoomLate(rs) == Len(rs) <= MaxQueue

Room(rs) == Len(rs) < MaxQueue

(* What session s makes of an event: m holds its records, all waiters, and *)
(* the keys so far to invalidate for the next frame (woken) or because     *)
(* they listen (told).  A full queue still answers waiters.                *)
Delivered(m, s, id, scope) ==
  LET woken == Woken(m.waiters, s, scope)
      kept  == Room(m.records)
      told  == IF kept THEN Accepting(listening, s, scope) ELSE {}
      rec   == [id |-> id, scope |-> scope, seen |-> {}, read |-> FALSE, told |-> told,
                handed |-> [k \in Keys |-> IF k \in woken THEN 1 ELSE 0],
                midway |-> scope = "signal" /\ composing = s]
  IN  [records |-> IF kept THEN Append(m.records, rec) ELSE m.records,
       waiters |-> Answered(m.waiters, woken),
       woken   |-> m.woken \cup woken,
       told    |-> m.told \cup told]

Inbox(s) == [records |-> records[s], waiters |-> waiters, woken |-> {}, told |-> {}]

(* Mutant: listeners always wait for the next frame.                       *)
NeverSoon(s) == FALSE

(* CelsSessionInvalidateKeyImmediate: this frame, while s is recomposing.  *)
Soon(s) == composing = s

(* CelsEventEmit, by a body of s or by the host between passes.            *)
Emit(s) ==
  /\ nextEvent <= MaxEvents
  /\ composing \in {s, None}
  /\ LET m == Delivered(Inbox(s), s, nextEvent, "local")
     IN  /\ records' = [records EXCEPT ![s] = m.records]
         /\ waiters' = m.waiters
         /\ \E later \in Enqueued(next[s], m.woken \cup IF Soon(s) THEN {} ELSE m.told) :
              next' = [next EXCEPT ![s] = later]
         /\ \E sooner \in Enqueued(active[s], IF Soon(s) THEN m.told ELSE {}) :
              active' = [active EXCEPT ![s] = sooner]
  /\ nextEvent' = nextEvent + 1
  /\ UNCHANGED <<staged, cursor, listening, fiber, walk>>

(* CelsEventSignal, by any body or by the host: the root is invalidated    *)
(* too, unless the queue was full.                                         *)
Signal(s) ==
  /\ nextEvent <= MaxEvents
  /\ LET m == Delivered(Inbox(s), s, nextEvent, "signal")
         root == IF m.records = records[s] THEN {} ELSE {Root}
     IN  /\ records' = [records EXCEPT ![s] = m.records]
         /\ waiters' = m.waiters
         /\ \E later \in Enqueued(next[s], m.woken \cup m.told \cup root) :
              next' = [next EXCEPT ![s] = later]
  /\ nextEvent' = nextEvent + 1
  /\ UNCHANGED <<staged, cursor, listening, fiber, active, walk>>

(* CelsEngineBroadcast, by any thread, under broadcastMutex.               *)
Broadcast ==
  /\ nextEvent <= MaxEvents
  /\ Len(staged) < MaxQueue
  /\ staged' = Append(staged, nextEvent)
  /\ nextEvent' = nextEvent + 1
  /\ UNCHANGED <<inbox, fiber, next, active, walk>>

-----------------------------------------------------------------------------
(* A frame of the engine.                                                  *)

(* Mutant: a session that has composed is taken to need nothing more.      *)
NeedsFirstPass == staged # <<>> \/ composed # Sessions

(* CelsSessionNeedsRecompose.                                              *)
Waits(s) == s \notin composed \/ next[s] \cup active[s] # {} \/ records[s] # <<>>

(* CelsEngineNeedsRecompose, in retained mode.                             *)
NeedsRecompose == staged # <<>> \/ \E s \in Sessions : Waits(s)

(* Session s with the first n staged broadcasts delivered, in order.       *)
FloodedUpTo(s) ==
  LET flooded[n \in 0..Len(staged)] ==
        IF n = 0 THEN Inbox(s) ELSE Delivered(flooded[n - 1], s, staged[n], "broadcast")
  IN  flooded

Flooded(s) == FloodedUpTo(s)[Len(staged)]

(* The nextFrameQueues once these keys were added to each.                 *)
Scheduling(keys) ==
  {queues \in [Sessions -> UNION {Enqueued(next[s], keys[s]) : s \in Sessions}] :
     \A s \in Sessions : queues[s] \in Enqueued(next[s], keys[s])}

(* Mutant: broadcastCount is not reset.                                    *)
StillStaged == staged

AfterDrain == <<>>

(* CelsEngineRecompose: CelsEngineDrainBroadcasts, under broadcastMutex,   *)
(* then every session.                                                     *)
StartFrame ==
  /\ frame = {} /\ composing = None
  /\ NeedsRecompose
  /\ records' = [s \in Sessions |-> Flooded(s).records]
  /\ waiters' = [t \in DOMAIN waiters |-> Flooded(HomeOf[t]).waiters[t]]
  /\ next' \in Scheduling([s \in Sessions |-> Flooded(s).woken \cup Flooded(s).told])
  /\ staged' = AfterDrain
  /\ frame' = Sessions
  /\ UNCHANGED <<cursor, listening, fiber, active, mounted, composed, composing, iterations, due,
                 body, nextEvent>>

(* CelsSessionRecompose with nothing to do returns at once.                *)
SkipPass(s) ==
  /\ composing = None /\ s \in frame \cap composed
  /\ next[s] \cup active[s] = {}
  /\ frame' = frame \ {s}
  /\ UNCHANGED <<staged, inbox, fiber, next, active, mounted, composed, composing, iterations, due,
                 body, nextEvent>>

(* The transfers of nextFrameQueue at the start and the end of             *)
(* CelsSessionRecompose: the keys that may move, as many as there is room  *)
(* for behind those in invalidationQueue.                                  *)
Moved(s) ==
  IF Cardinality(next[s]) + Cardinality(active[s]) <= MaxKeys THEN {next[s]}
  ELSE {keys \in SUBSET next[s] : Cardinality(keys) + Cardinality(active[s]) = MaxKeys}

BeginPass(s) ==
  /\ composing = None /\ s \in frame
  /\ s \notin composed \/ next[s] \cup active[s] # {}
  /\ composing' = s
  /\ iterations' = 1
  /\ mounted' = mounted \cup {s}
  /\ \E keys \in Moved(s) :
       /\ due' = IF s \in mounted THEN Reached(s, keys \cup active[s]) ELSE KeysAt(s)
       /\ next' = [next EXCEPT ![s] = @ \ keys]
  /\ active' = [active EXCEPT ![s] = {}]
  /\ UNCHANGED <<staged, inbox, fiber, composed, frame, body, nextEvent>>

IterationDone == composing # None /\ body = None /\ due = {}

NextIteration ==
  /\ IterationDone
  /\ active[composing] # {}
  /\ iterations < MaxDrain
  /\ iterations' = iterations + 1
  /\ due' = Reached(composing, active[composing])
  /\ active' = [active EXCEPT ![composing] = {}]
  /\ UNCHANGED <<staged, inbox, fiber, next, mounted, composed, frame,
                 composing, body, nextEvent>>

(* CELS_ERROR_RECOMPOSE_DID_NOT_CONVERGE: nothing is retired.              *)
DidNotConverge ==
  /\ IterationDone
  /\ active[composing] # {}
  /\ iterations = MaxDrain
  /\ frame' = frame \ {composing}
  /\ composing' = None
  /\ UNCHANGED <<staged, inbox, fiber, next, active, mounted, composed, iterations, due, body,
                 nextEvent>>

(* Mutant: every event is retired with the frame.                          *)
KeptNone(rs) == <<>>

(* CelsEventRetireConsumed: of the first n records, those nobody has read. *)
KeptUpTo(rs) ==
  LET kept[n \in 0..Len(rs)] ==
        IF n = 0 THEN <<>>
        ELSE IF rs[n].read THEN kept[n - 1] ELSE Append(kept[n - 1], rs[n])
  IN  kept

Kept(rs) == KeptUpTo(rs)[Len(rs)]

Finish ==
  /\ IterationDone
  /\ active[composing] = {}
  /\ \E keys \in Moved(composing) :
       /\ active' = [active EXCEPT ![composing] = keys]
       /\ next' = [next EXCEPT ![composing] = @ \ keys]
  /\ records' = [records EXCEPT ![composing] = Kept(@)]
  /\ cursor' = [cursor EXCEPT ![composing] = 1]
  /\ composed' = composed \cup {composing}
  /\ frame' = frame \ {composing}
  /\ composing' = None
  /\ UNCHANGED <<staged, listening, waiters, fiber, mounted, iterations, due,
                 body, nextEvent>>

-----------------------------------------------------------------------------
(* Bodies of listeners: cel_listen, cel_connect and cel_bind.              *)

Least(S) == CHOOSE n \in S : \A m \in S : n <= m

(* The records from position n on that k may still be handed.              *)
Unread(k, n) ==
  {m \in n..Len(records[composing]) :
     /\ records[composing][m].scope \in ScopesOf[k]
     /\ k \notin records[composing][m].seen}

(* Mutant: a consumer is not recorded.                                     *)
ConsumedUnmarked(r, k) == [r EXCEPT !.read = TRUE, !.handed[k] = @ + 1]

Consumed(r, k) ==
  [r EXCEPT !.read = TRUE, !.handed[k] = @ + 1,
            !.seen = IF Cardinality(@) < MaxConsumers THEN @ \cup {k} ELSE @]

(* Hands k the first such record, whose handler now runs, or ends its loop *)
(* and its body.                                                           *)
Hand(k, n) ==
  \/ LET m == Least(Unread(k, n)) IN
     /\ Unread(k, n) # {}
     /\ records' = [records EXCEPT ![composing][m] = Consumed(@, k)]
     /\ cursor' = [cursor EXCEPT ![composing] = m]
     /\ body' = k
  \/ /\ Unread(k, n) = {}
     /\ body' = None
     /\ UNCHANGED <<records, cursor>>

(* CelsRegisterEventListener, in a table of limited size.                  *)
Registered(k) ==
  IF Cardinality(listening \cap KeysAt(HomeOf[k])) < MaxListeners
  THEN listening \cup {k} ELSE listening

(* CelsEventPoll, at the head of the loop.                                 *)
Poll(k) ==
  /\ composing # None /\ body = None
  /\ k \in due \cap Listeners
  /\ due' = due \ {k}
  /\ listening' = Registered(k)
  /\ Hand(k, 1)
  /\ UNCHANGED <<staged, waiters, fiber, next, active, pass, nextEvent>>

(* CelsEventNext, after the handler.                                       *)
NextEvent ==
  /\ body \in Listeners
  /\ Hand(body, cursor[composing] + 1)
  /\ UNCHANGED <<staged, listening, waiters, fiber, next, active, pass, due,
                 nextEvent>>

-----------------------------------------------------------------------------
(* Tasks: CelsTaskStep on a fiber that waits for events.                   *)

Waiting(t) == t \in DOMAIN waiters /\ waiters[t].waiting

(* CelsTaskEventShouldWait: not yet; the task asks to be polled again.     *)
KeepWaiting(t) ==
  /\ composing # None /\ body = None
  /\ t \in due \cap Tasks
  /\ Waiting(t) /\ ~waiters[t].late
  /\ due' = due \ {t}
  /\ \E later \in Enqueued(next[composing], {t}) : next' = [next EXCEPT ![composing] = later]
  /\ UNCHANGED <<staged, inbox, fiber, active, pass,
                 body, nextEvent>>

(* CelsTaskEventShouldWait: the event came or the deadline has passed, and *)
(* the fiber runs.                                                         *)
Resume(t) ==
  /\ composing # None /\ body = None
  /\ t \in due \cap Tasks
  /\ Waiting(t) => waiters[t].late
  /\ waiters' = IF Waiting(t)
                THEN [waiters EXCEPT ![t] = [@ EXCEPT !.timedOut = TRUE, !.waiting = FALSE]]
                ELSE waiters
  /\ due' = due \ {t}
  /\ body' = t
  /\ fiber' = [fiber EXCEPT ![t] = "ready"]
  /\ UNCHANGED <<staged, records, cursor, listening, next, active, pass,
                 nextEvent>>

NewWaiter(timed) ==
  [waiting |-> TRUE, received |-> FALSE, timedOut |-> FALSE, timed |-> timed, late |-> FALSE]

Matching(t) == {m \in DOMAIN records[composing] : records[composing][m].scope \in ScopesOf[t]}

Copied(r, t) == [r EXCEPT !.read = TRUE, !.handed[t] = @ + 1]

(* CelsTaskWaitForEvent finds the event queued: it is copied and counted   *)
(* as read, no waiter is registered, and the caller is suspended all the   *)
(* same.                                                                   *)
WaitFound ==
  /\ body \in Tasks
  /\ Matching(body) # {}
  /\ LET m == Least(Matching(body)) IN
     records' = [records EXCEPT ![composing][m] = Copied(@, body)]
  /\ fiber' = [fiber EXCEPT ![body] = "found"]
  /\ body' = None
  /\ UNCHANGED <<staged, cursor, listening, waiters, next, active, pass, due,
                 nextEvent>>

(* Mutant: a deadline is set but nothing asks to be polled for it.         *)
PollsNever(timed) == FALSE

Polls(timed) == timed

(* CelsTaskWaitForEvent registers a waiter, in a table of limited size.    *)
WaitRegistered(timed) ==
  /\ body \in Tasks
  /\ Matching(body) = {}
  /\ LET room == \/ body \in DOMAIN waiters
                 \/ Cardinality(DOMAIN waiters \cap KeysAt(composing)) < MaxListeners
     IN  /\ waiters' = IF room
                       THEN [t \in DOMAIN waiters \cup {body} |->
                               IF t = body THEN NewWaiter(timed) ELSE waiters[t]]
                       ELSE waiters
         /\ \E later \in Enqueued(next[composing], IF room /\ Polls(timed) THEN {body} ELSE {}) :
              next' = [next EXCEPT ![composing] = later]
  /\ fiber' = [fiber EXCEPT ![body] = "waiting"]
  /\ body' = None
  /\ UNCHANGED <<staged, records, cursor, listening, active, pass, due,
                 nextEvent>>

(* The clock reaches a deadline.                                           *)
Expire(t) ==
  /\ Waiting(t) /\ waiters[t].timed /\ ~waiters[t].late
  /\ waiters' = [waiters EXCEPT ![t].late = TRUE]
  /\ UNCHANGED <<staged, records, cursor, listening, fiber, next, active, walk,
                 nextEvent>>

-----------------------------------------------------------------------------
Host ==
  \/ StartFrame \/ NextIteration \/ DidNotConverge \/ Finish \/ NextEvent
  \/ \E s \in Sessions : SkipPass(s) \/ BeginPass(s)
  \/ \E k \in Listeners : Poll(k)
  \/ \E t \in Tasks : KeepWaiting(t) \/ Resume(t)
  \/ WaitFound
  \/ \E timed \in BOOLEAN : WaitRegistered(timed)

Send == Broadcast \/ \E s \in Sessions : Emit(s) \/ Signal(s)

Next == Host \/ Send \/ \E t \in Tasks : Expire(t)

(* Frames go on as long as NeedsRecompose asks for them and the bodies of  *)
(* a pass return; nobody has to send anything, and the clock may stand.    *)
Spec == Init /\ [][Next]_vars /\ WF_vars(Host)

-----------------------------------------------------------------------------
(* Properties.                                                             *)

TypeOK ==
  /\ staged \in Seq(Ids) /\ Len(staged) <= MaxQueue
  /\ \A s \in Sessions : /\ records[s] \in Seq(Record)
                         /\ Len(records[s]) <= MaxQueue
                         /\ Cardinality(listening \cap KeysAt(s)) <= MaxListeners
                         /\ next[s] \cup active[s] \subseteq KeysAt(s) \cup {Root}
  /\ cursor \in [Sessions -> 1..MaxQueue]
  /\ listening \subseteq Listeners
  /\ DOMAIN waiters \subseteq Tasks /\ waiters \in [DOMAIN waiters -> Waiter]
  /\ fiber \in [Tasks -> {"ready", "waiting", "found"}]
  /\ composed \subseteq mounted /\ mounted \subseteq Sessions /\ frame \subseteq Sessions
  /\ composing \in frame \cup {None}
  /\ iterations \in 0..MaxDrain
  /\ body \in Keys \cup {None} /\ due \subseteq Keys
  /\ nextEvent \in 1..(MaxEvents + 1)

(* No listener is handed an event twice, whichever passes, iterations and  *)
(* loops it polls from, as long as the event's table of consumers          *)
(* (CELS_MAX_EVENT_CONSUMERS) had room for it.                             *)
HandedOnce ==
  \A s \in Sessions, k \in Listeners : \A n \in DOMAIN records[s] :
    LET r == records[s][n] IN
    r.handed[k] > 1 => k \notin r.seen /\ Cardinality(r.seen) = MaxConsumers

(* Sessions see broadcasts at most once and in the order the engine        *)
(* accepted them, whatever is dropped by a full queue.                     *)
BroadcastsInOrder ==
  \A s \in Sessions : \A m, n \in DOMAIN records[s] :
    /\ m < n
    /\ records[s][m].scope = "broadcast" /\ records[s][n].scope = "broadcast"
    => records[s][m].id < records[s][n].id

(* A wait ends one way: an event and its deadline never both count.        *)
OneOutcome ==
  \A t \in DOMAIN waiters :
    LET w == waiters[t] IN
    ~(w.received /\ w.timedOut) /\ (w.waiting => ~w.received /\ ~w.timedOut)

(* The body of k runs in this iteration or has been asked for.             *)
Scheduled(k) ==
  LET s == HomeOf[k] IN
  \/ {k, Root} \cap (next[s] \cup active[s]) # {}
  \/ k \in due
  \/ body = k

(* No wakeup is lost: a suspended task whose event has come, or that has a *)
(* deadline to be polled for, is always on its way to run again.  Only     *)
(* with a queue of keys that is never full: CelsSessionInvalidateKey drops *)
(* a key it has no place for and tells nobody.                             *)
WakeupPending ==
  \A t \in DOMAIN waiters :
    fiber[t] = "waiting" /\ (waiters[t].timed \/ ~waiters[t].waiting) => Scheduled(t)

(* An event leaves the queue only once it was read, and after every        *)
(* composable that was listening when it was queued has been handed it:    *)
(* "Once all listeners in an evaluation pass finish reading an event"      *)
(* (docs/guides/08-events-signals-broadcasts.md:267).  A signal to a       *)
(* session that is composing is the exception: its listeners are only      *)
(* invalidated for the next frame, and one reader in this frame retires it.*)
RetiredOnceHeard ==
  [][\A s \in Sessions : \A n \in DOMAIN records[s] :
       LET r == records[s][n] IN
       \/ \E m \in DOMAIN records'[s] : records'[s][m].id = r.id
       \/ r.read /\ (r.midway \/ \A k \in r.told : r.handed[k] > 0)]_vars

Owed(id, k) ==
  \E n \in DOMAIN records[HomeOf[k]] :
    LET r == records[HomeOf[k]][n] IN
    r.id = id /\ k \in r.told /\ r.handed[k] = 0 /\ ~r.midway

(* An event queued for a listener is handed to it, although the host only  *)
(* recomposes when CelsEngineNeedsRecompose says so.                       *)
EventuallyHanded ==
  \A id \in Ids, k \in Listeners : Owed(id, k) ~> ~Owed(id, k)
=============================================================================
