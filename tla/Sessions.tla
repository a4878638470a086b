------------------------------ MODULE Sessions ------------------------------
(***************************************************************************)
(* Who owns what while a CELS host comes up and goes down: the host engine *)
(* with its primary and its named sessions (src/host/engine.c), the global *)
(* registry of sessions, the ambient engine and session of the thread, and *)
(* the module structs that a host binds to an engine or to a session.      *)
(*                                                                         *)
(* Everything happens on the host's thread.  What is hard is that bodies,  *)
(* cleanup hooks and onDestroy callbacks are user code that runs in the    *)
(* middle of a call of the runtime, and makes calls of its own: calls is   *)
(* the C stack.  Sessions are pieces of memory; a freed one is used again. *)
(***************************************************************************)
EXTENDS Naturals, Sequences, SequencesExt

CONSTANTS
  Handles,      \* the memory of sessions
  Main,         \* the memory inside the CelsEngine, its primary session
  Ids,          \* ids of sessions made with CelSessionCreate
  Names,        \* names of sessions made with CelsEngineCreateSession
  Keys,         \* keys of module types
  Modules,      \* the module structs of the host
  MaxSessions,  \* CELS_MAX_SESSIONS
  MaxSecondary, \* CELS_MAX_SECONDARY_SESSIONS
  MaxModules,   \* CELS_MAX_MODULES
  Null          \* the null pointer

ASSUME SessionsAssumption ==
  /\ Main \in Handles /\ Null \notin Handles \union Modules
  /\ {MaxSessions, MaxSecondary, MaxModules} \subseteq Nat

VARIABLES
  registry,       \* s_sessionRegistry
  session,        \* what the memory of each session holds
  engine,         \* the host's CelsEngine
  currentSession, \* s_currentSession
  currentEngine,  \* is s_currentEngine the host's engine, or null?
  calls,          \* calls of the runtime in progress, the innermost last
  module          \* history: what became of each module struct

sessionsVars ==
  <<registry, session, engine, currentSession, currentEngine, calls, module>>

\* A CelsSession: does it belong to the engine, has it a composition, and its
\* fallback modules.
NoSession == [live |-> FALSE, engine |-> FALSE, attached |-> FALSE,
              modules |-> <<>>]
NewSession(owned) == [NoSession EXCEPT !.live = TRUE, !.engine = owned]

NoEntry == [name |-> Null, session |-> Null]

\* A CelsEngine.  The host binds a manifest without a library.
NoEngine == [live |-> FALSE, started |-> FALSE, modules |-> <<>>,
             secondary |-> [n \in 1 .. MaxSecondary |-> NoEntry]]

\* A call in progress: its session, the ambient pointers it has saved, its
\* loop counter, and how far it is.  A call without a session of its own
\* saves nothing.
Call(what, s, i, at) ==
  [call |-> what, session |-> s,
   prevSession |-> IF s = Null THEN Null ELSE currentSession,
   prevEngine |-> currentEngine, i |-> i, at |-> at]
HostCall == [call |-> "none", at |-> "host"]

Binding == [key : Keys, module : Modules]
UserCode == {"body", "hooks", "callback", "onStart", "onEnd"}

SessionsTypeOK ==
  /\ registry \in BoundedSeq([id : Ids, session : Handles], MaxSessions)
  /\ session \in [Handles -> [live : BOOLEAN, engine : BOOLEAN, attached : BOOLEAN,
                    modules : BoundedSeq(Binding, MaxModules)]]
  /\ engine \in [live : BOOLEAN, started : BOOLEAN,
                 modules : BoundedSeq(Binding, MaxModules),
                 secondary : [1 .. MaxSecondary ->
                   [name : Names \union {Null}, session : Handles \union {Null}]]]
  /\ currentSession \in Handles \union {Null}
  /\ currentEngine \in BOOLEAN
  /\ \A c \in Range(calls) :
       /\ c.session \in Handles \union {Null}
       /\ c.prevSession \in Handles \union {Null}
       /\ c.prevEngine \in BOOLEAN
       /\ c.at \in UserCode \union
                   {"loop", "modules", "sessions", "started", "return"}
  /\ module \in [Modules -> {"new", "bound", "replaced", "gone", "twice"}]

SessionsInit ==
  /\ registry = <<>>
  /\ session = [s \in Handles |-> NoSession]
  /\ engine = NoEngine
  /\ currentSession = Null /\ currentEngine = FALSE
  /\ calls = <<>>
  /\ module = [m \in Modules |-> "new"]

-----------------------------------------------------------------------------
(* Lookups.                                                                *)

\* CelsEngineGetSession, for a name that is not the primary session's.
GetSession(name) ==
  LET found == {n \in 1 .. MaxSecondary : engine.secondary[n].name = name} IN
  IF found = {} THEN Null
  ELSE engine.secondary[CHOOSE n \in found : TRUE].session

\* CelsEngineGetModule, and the search of CelsSessionGetModule.
Bound(modules, key) ==
  LET found == SelectInSeq(modules, LAMBDA b : b.key = key) IN
  IF found = 0 THEN Null ELSE modules[found].module

\* CelsSessionGetModule: a session of an engine has the engine's modules.
SessionModule(s, key) ==
  IF session[s].engine THEN Bound(engine.modules, key)
  ELSE Bound(session[s].modules, key)

\* _cels_resolve_module without a context.
Resolved(key) ==
  LET ofEngine == IF currentEngine THEN Bound(engine.modules, key) ELSE Null IN
  IF ofEngine # Null \/ currentSession = Null THEN ofEngine
  ELSE SessionModule(currentSession, key)

-----------------------------------------------------------------------------
(* The C stack.                                                            *)

Top == IF calls = <<>> THEN HostCall ELSE Last(calls)
InHost == calls = <<>>
InCall(what, at) == Top.call = what /\ Top.at = at
InUser == Top.at \in UserCode \union {"host"}

Going(at, i) == [calls EXCEPT ![Len(calls)].at = at, ![Len(calls)].i = i]
Returned == Front(calls)

\* Sessions that calls in progress run, and those that they run or will make
\* the ambient one again.
Running == {c.session : c \in Range(calls)}
Held == UNION {{c.session, c.prevSession} : c \in Range(calls)}

\* Is something being torn down?  The code that runs then only looks things
\* up and closes other sessions.
TearingDown == \E c \in Range(calls) : c.call \in {"Destroy", "EngineDestroy"}

Building == InUser /\ ~TearingDown

\* Memory for a new session.  A session that was destroyed while the registry
\* or the engine has an entry for it keeps its memory.
Listed == {e.session : e \in Range(registry)}
             \union {engine.secondary[n].session : n \in 1 .. MaxSecondary}
Free(s) == ~session[s].live /\ s # Main /\ s \notin Listed

-----------------------------------------------------------------------------
(* Creation and registration.                                              *)

\* _CelsEngineInitInternalWithOptions, without an application library.
EngineInit ==
  /\ InHost /\ ~engine.live
  /\ engine' = [NoEngine EXCEPT !.live = TRUE]
  /\ session' = [session EXCEPT ![Main] = NewSession(TRUE)]
  /\ currentEngine' = TRUE
  /\ UNCHANGED <<registry, currentSession, calls, module>>

\* CelSessionCreate.  A session that finds the registry full is not entered.
EnteredLate(e) ==
  IF Len(registry) <= MaxSessions THEN Append(registry, e) ELSE registry
Entered(e) ==
  IF Len(registry) < MaxSessions THEN Append(registry, e) ELSE registry

SessionCreate(s, id) ==
  /\ Building /\ Free(s)
  /\ session' = [session EXCEPT ![s] = NewSession(FALSE)]
  /\ registry' = Entered([id |-> id, session |-> s])
  /\ UNCHANGED <<engine, currentSession, currentEngine, calls, module>>

\* CelsSessionInit of the host's own memory.  No registry knows the session.
SessionInit(s) ==
  /\ Building /\ Free(s)
  /\ session' = [session EXCEPT ![s] = NewSession(FALSE)]
  /\ UNCHANGED <<registry, engine, currentSession, currentEngine, calls,
                 module>>

\* CelsEngineCreateSession, of a new name and with a free entry.  Otherwise
\* it is a lookup.
EngineCreateSession(s, name, n) ==
  /\ Building /\ engine.live /\ Free(s)
  /\ GetSession(name) = Null
  /\ engine.secondary[n] = NoEntry
  /\ \A k \in 1 .. n - 1 : engine.secondary[k] # NoEntry
  /\ session' = [session EXCEPT ![s] = NewSession(TRUE)]
  /\ engine' = [engine EXCEPT !.secondary[n] = [name |-> name, session |-> s]]
  /\ UNCHANGED <<registry, currentSession, currentEngine, calls, module>>

\* CelsSetCurrentSession.
SetCurrentSession(s) ==
  /\ InHost /\ s \in {Null} \union {h \in Handles : session[h].live}
  /\ currentSession' = s
  /\ UNCHANGED <<registry, session, engine, currentEngine, calls, module>>

\* CelsSessionAttachComposition.
Attach(s) ==
  /\ Building /\ session[s].live /\ ~session[s].attached
  /\ session' = [session EXCEPT ![s].attached = TRUE]
  /\ UNCHANGED <<registry, engine, currentSession, currentEngine, calls,
                 module>>

\* A binding of a known key is overwritten where it is; a full table refuses.
HasRoom(modules) == Len(modules) < MaxModules
WithModule(modules, b) ==
  LET found == SelectInSeq(modules, LAMBDA x : x.key = b.key) IN
  IF found # 0 THEN [modules EXCEPT ![found] = b]
  ELSE IF HasRoom(modules) THEN Append(modules, b) ELSE modules

\* What becomes of the module structs: the one bound before is forgotten
\* without a call of its onDestroy.
Rebound(modules, b) ==
  [m \in Modules |->
     IF b \notin Range(WithModule(modules, b)) THEN module[m]
     ELSE IF m = b.module THEN "bound"
     ELSE IF m = Bound(modules, b.key) THEN "replaced" ELSE module[m]]

\* CelsEngineRegisterModule.
EngineRegisterModule(b) ==
  /\ engine' = [engine EXCEPT !.modules = WithModule(@, b)]
  /\ module' = Rebound(engine.modules, b)
  /\ UNCHANGED session

\* CelsSessionRegisterModule.  It asserts that there is room.
SessionRegisterModule(s, b) ==
  IF session[s].engine THEN EngineRegisterModule(b)
  ELSE LET modules == session[s].modules IN
    /\ HasRoom(modules) \/ Bound(modules, b.key) # Null
    /\ session' = [session EXCEPT ![s].modules = WithModule(@, b)]
    /\ module' = Rebound(modules, b)
    /\ UNCHANGED engine

\* _cels_dispatch_register_module, for the session s or, if that is null, for
\* the ambient engine and then the ambient session.
RegisterModule(s, b) ==
  /\ Building /\ module[b.module] = "new"
  /\ IF s # Null THEN session[s].live /\ SessionRegisterModule(s, b)
     ELSE IF currentEngine THEN EngineRegisterModule(b)
     ELSE currentSession # Null /\ SessionRegisterModule(currentSession, b)
  /\ UNCHANGED <<registry, currentSession, currentEngine, calls>>

-----------------------------------------------------------------------------
(* Passes.                                                                 *)

\* CelsSessionRecompose, up to the bodies, called from a loop that has gone
\* on to its next turn.
Pass(s, before) ==
  /\ calls' = Append(before, Call("Recompose", s, 0, "body"))
  /\ currentSession' = s

\* A pass that converges puts the ambient session back only if there was
\* one; a pass that does not puts it back always.
RestoredAfter(prev, converged) ==
  IF prev = Null /\ converged THEN currentSession ELSE prev

EndPass(converged) ==
  /\ InCall("Recompose", "body")
  /\ currentSession' = RestoredAfter(Top.prevSession, converged)
  /\ calls' = Returned
  /\ UNCHANGED <<registry, session, engine, currentEngine, module>>

\* A host that drives one session itself.
Recompose(s) ==
  /\ InHost /\ session[s].live /\ session[s].attached
  /\ Pass(s, calls)
  /\ UNCHANGED <<registry, session, engine, currentEngine, module>>

\* CelsRecomposeAllSessions: the loop reads the registry again each turn.
RecomposeAllSessions ==
  /\ InHost /\ registry # <<>>
  /\ calls' = Append(calls, Call("RecomposeAll", Null, 0, "loop"))
  /\ UNCHANGED <<registry, session, engine, currentSession, currentEngine,
                 module>>

Turn(s, i) ==
  IF session[s].attached THEN Pass(s, Going("loop", i))
  ELSE calls' = Going("loop", i) /\ UNCHANGED currentSession

RecomposeAllTurn ==
  /\ InCall("RecomposeAll", "loop") /\ Top.i < Len(registry)
  /\ Turn(registry[Top.i + 1].session, Top.i + 1)
  /\ UNCHANGED <<registry, session, engine, currentEngine, module>>

\* CelsEngineRecompose, once the broadcasts are drained: turn 0 is for the
\* primary session.
EngineRecompose ==
  /\ InHost /\ engine.live
  /\ calls' = Append(calls, Call("EngineRecompose", Null, 0, "loop"))
  /\ UNCHANGED <<registry, session, engine, currentSession, currentEngine,
                 module>>

Turns == {0} \union {n \in 1 .. MaxSecondary : engine.secondary[n] # NoEntry}

EngineTurn(n) ==
  /\ InCall("EngineRecompose", "loop")
  /\ n \in Turns /\ Top.i <= n /\ \A k \in Turns : Top.i <= k => n <= k
  /\ Turn(IF n = 0 THEN Main ELSE engine.secondary[n].session, n + 1)
  /\ UNCHANGED <<registry, session, engine, currentEngine, module>>

EndLoop ==
  /\ \/ InCall("RecomposeAll", "loop") /\ Top.i >= Len(registry)
     \/ InCall("EngineRecompose", "loop") /\ \A n \in Turns : n < Top.i
  /\ calls' = Returned
  /\ UNCHANGED <<registry, session, engine, currentSession, currentEngine,
                 module>>

-----------------------------------------------------------------------------
(* Start and end of an application that is linked into the host.           *)

\* CelsEngineStart, up to manifest->onStart.
EngineStart ==
  /\ InHost /\ engine.live /\ ~engine.started
  /\ calls' = Append(calls, Call("Start", Main, 0, "onStart"))
  /\ currentEngine' = TRUE /\ currentSession' = Main
  /\ UNCHANGED <<registry, session, engine, module>>

\* The first pass, if onStart has attached anything.
Started ==
  /\ InCall("Start", "onStart")
  /\ engine' = [engine EXCEPT !.started = TRUE]
  /\ IF session[Main].attached THEN Pass(Main, Going("return", 0))
     ELSE calls' = Going("return", 0) /\ UNCHANGED currentSession
  /\ UNCHANGED <<registry, session, currentEngine, module>>

\* CelsEngineEnd, up to manifest->onEnd.
End(before) ==
  /\ calls' = Append(before, Call("End", Main, 0, "onEnd"))
  /\ currentEngine' = TRUE /\ currentSession' = Main
  /\ UNCHANGED <<registry, session, engine, module>>

EngineEnd == InHost /\ engine.live /\ engine.started /\ End(calls)

Ended ==
  /\ InCall("End", "onEnd")
  /\ engine' = [engine EXCEPT !.started = FALSE]
  /\ calls' = Going("return", 0)
  /\ UNCHANGED <<registry, session, currentSession, currentEngine, module>>

ReturnRestored ==
  /\ InCall("Start", "return") \/ InCall("End", "return")
  /\ currentSession' = Top.prevSession /\ currentEngine' = Top.prevEngine
  /\ calls' = Returned
  /\ UNCHANGED <<registry, session, engine, module>>

-----------------------------------------------------------------------------
(* Destruction.                                                            *)

\* CelSessionDestroy: the entry of the session, if it has one, leaves.
Remaining(s) ==
  LET found == SelectInSeq(registry, LAMBDA e : e.session = s) IN
  IF found = 0 THEN registry ELSE RemoveAt(registry, found)

\* CelsSessionDestroy, up to the cleanup hooks of what is mounted.
BeginDestroy(s, before) ==
  /\ calls' = Append(before, Call("Destroy", s, 0, "hooks"))
  /\ currentSession' = s

\* The user destroys a session, but for one that a call in progress runs:
\* with CelSessionDestroy, or with CelsSessionDestroy alone, which leaves the
\* registry as it is.  Neither asks who owns the session.
UserDestroy(s) ==
  /\ InUser /\ session[s].live /\ s \notin Running
  /\ BeginDestroy(s, calls)
  /\ UNCHANGED <<session, engine, currentEngine, module>>

SessionDestroy(s) == registry' = Remaining(s) /\ UserDestroy(s)
SessionTeardown(s) == registry' = registry /\ UserDestroy(s)

\* How a careful user does it: the sessions of the engine are left to it, a
\* session that a call in progress has saved to its return, and no session is
\* destroyed that keeps its entry.
CarefulDestroy(s) ==
  /\ SessionDestroy(s) \/ SessionTeardown(s)
  /\ ~session[s].engine /\ s \notin Held
  /\ registry' = Remaining(s)

\* The module that the loops of the teardowns begin with.
SecondToGo(modules) == IF modules = <<>> THEN 0 ELSE Len(modules) - 1
FirstToGo(modules) == Len(modules)

\* The hooks have run; now the modules of the session, if it has its own.
HooksFired ==
  /\ InCall("Destroy", "hooks")
  /\ calls' = Going("modules", FirstToGo(session[Top.session].modules))
  /\ UNCHANGED <<registry, session, engine, currentSession, currentEngine,
                 module>>

\* The modules of a session, or of the engine, which has no name but Null.
ModulesOf(s) == IF s = Null THEN engine.modules ELSE session[s].modules

CallOnDestroy ==
  /\ InCall("Destroy", "modules") \/ InCall("EngineDestroy", "modules")
  /\ Top.i > 0
  /\ LET m == ModulesOf(Top.session)[Top.i].module IN
       module' = [module EXCEPT ![m] = IF @ = "bound" THEN "gone" ELSE "twice"]
  /\ calls' = Going("callback", Top.i)
  /\ UNCHANGED <<registry, session, engine, currentSession, currentEngine>>

\* onDestroy has returned.
NextModule ==
  /\ InCall("Destroy", "callback") \/ InCall("EngineDestroy", "callback")
  /\ calls' = Going("modules", Top.i - 1)
  /\ UNCHANGED <<registry, session, engine, currentSession, currentEngine,
                 module>>

\* The ambient session after s is gone.
UnboundNever(prev, s) == prev
Unbound(prev, s) == IF prev = s THEN Null ELSE prev

\* CelsEngineDestroy, in its loop over the sessions, has called the call on top.
ByEngine ==
  \E k \in DOMAIN calls :
    /\ k + 1 = Len(calls)
    /\ calls[k].call = "EngineDestroy" /\ calls[k].at = "sessions"

\* CelsSessionDestroy from the ambient session on.  CelsEngineDestroy empties
\* the entry of the session and frees it.
EndDestroy ==
  /\ InCall("Destroy", "modules") /\ Top.i = 0
  /\ currentSession' = Unbound(Top.prevSession, Top.session)
  /\ session' = [session EXCEPT ![Top.session] = NoSession]
  /\ engine' = IF ByEngine
               THEN [engine EXCEPT !.secondary =
                      [n \in 1 .. MaxSecondary |->
                         IF @[n].session = Top.session THEN NoEntry ELSE @[n]]]
               ELSE engine
  /\ calls' = Returned
  /\ UNCHANGED <<registry, currentEngine, module>>

\* CelsEngineDestroy.  An application that was started is ended first.
Teardown == Call("EngineDestroy", Null, FirstToGo(engine.modules), "modules")

EngineDestroy ==
  /\ InHost /\ engine.live
  /\ IF engine.started THEN End(Append(calls, Teardown))
     ELSE /\ calls' = Append(calls, Teardown)
          /\ UNCHANGED <<registry, session, engine, currentSession,
                         currentEngine, module>>

\* All modules are gone; now the sessions.
ModulesGone ==
  /\ InCall("EngineDestroy", "modules") /\ Top.i = 0
  /\ engine' = [engine EXCEPT !.modules = <<>>]
  /\ calls' = Going("sessions", 0)
  /\ UNCHANGED <<registry, session, currentSession, currentEngine, module>>

\* One of them: the secondary ones in order, the primary one last.
DestroyOwned(s) ==
  /\ InCall("EngineDestroy", "sessions")
  /\ \/ /\ s = Main /\ session[s].live
        /\ \A n \in 1 .. MaxSecondary : engine.secondary[n] = NoEntry
     \/ \E n \in 1 .. MaxSecondary :
          /\ engine.secondary[n].session = s
          /\ \A k \in 1 .. n - 1 : engine.secondary[k] = NoEntry
  /\ BeginDestroy(s, calls)
  /\ UNCHANGED <<registry, session, engine, currentEngine, module>>

EndEngineDestroy ==
  /\ InCall("EngineDestroy", "sessions") /\ ~session[Main].live
  /\ \A n \in 1 .. MaxSecondary : engine.secondary[n] = NoEntry
  /\ engine' = NoEngine
  /\ currentEngine' = FALSE
  /\ calls' = Returned
  /\ UNCHANGED <<registry, session, currentSession, module>>

-----------------------------------------------------------------------------

Create ==
  \/ EngineInit
  \/ \E s \in Handles : SessionInit(s) \/ \E id \in Ids : SessionCreate(s, id)
  \/ \E s \in Handles, name \in Names, n \in 1 .. MaxSecondary :
       EngineCreateSession(s, name, n)
  \/ \E s \in Handles \union {Null} :
       SetCurrentSession(s) \/ \E b \in Binding : RegisterModule(s, b)
  \/ \E s \in Handles : Attach(s)

RunPasses ==
  \/ \E s \in Handles : Recompose(s)
  \/ RecomposeAllSessions \/ RecomposeAllTurn
  \/ EngineRecompose \/ \E n \in 0 .. MaxSecondary : EngineTurn(n)
  \/ EndLoop
  \/ \E converged \in BOOLEAN : EndPass(converged)
  \/ EngineStart \/ Started \/ EngineEnd \/ Ended \/ ReturnRestored

TearDown ==
  \/ \E s \in Handles : DestroyOwned(s)
  \/ HooksFired \/ CallOnDestroy \/ NextModule \/ EndDestroy
  \/ EngineDestroy \/ ModulesGone \/ EndEngineDestroy

SessionsNext ==
  \/ Create \/ RunPasses \/ TearDown
  \/ \E s \in Handles : SessionDestroy(s) \/ SessionTeardown(s)

SessionsSpec == SessionsInit /\ [][SessionsNext]_sessionsVars

CarefulSessionsNext ==
  Create \/ RunPasses \/ TearDown \/ \E s \in Handles : CarefulDestroy(s)

CarefulSessionsSpec == SessionsInit /\ [][CarefulSessionsNext]_sessionsVars

-----------------------------------------------------------------------------
(* Properties.                                                             *)

\* Whatever user code can get at is alive: the entries of the registry and of
\* the engine, which are distinct, the ambient session and engine, and the
\* sessions that calls in progress work on.  About the order in which
\* CelSessionDestroy and CelsEngineDestroy take entries out and free the
\* memory, and about what a pass and a destruction restore as ambient.  It
\* takes a careful user: see LookupsLive and AmbientLive.
SessionsLive ==
  /\ \A e \in Range(registry) :
       session[e.session].live /\ ~session[e.session].engine
  /\ IsInjective([n \in DOMAIN registry |-> registry[n].session])
  /\ engine.live /\ ~TearingDown => session[Main].live
  /\ \A n \in 1 .. MaxSecondary : engine.secondary[n] # NoEntry =>
       LET s == engine.secondary[n].session IN
         session[s].live /\ session[s].engine
  /\ currentSession # Null => session[currentSession].live
  /\ currentEngine => engine.live
  /\ \A c \in Range(calls) : c.session # Null => session[c.session].live

\* Whose tables of modules are alive, and which of them a call empties.
Owners == {s \in Handles : session[s].live} \union
            (IF engine.live THEN {Null} ELSE {})
Emptying(s) == \E c \in Range(calls) :
  c.call \in {"Destroy", "EngineDestroy"} /\ c.session = s

\* cel_session finds sessions that live, whichever of the two calls the user
\* destroys one with.
LookupsLive == \A e \in Range(registry) : session[e.session].live

\* Once all calls have returned, the session that cel_active_session offers the
\* host lives, whatever a body destroyed besides the session that ran it.  (Not
\* asked of the primary session of the engine.)
AmbientLive ==
  InHost /\ currentSession \notin {Null, Main} =>
    session[currentSession].live

\* A module that was bound, and that no later binding of its key has replaced
\* (its onDestroy is never called then), is in a live table until its
\* onDestroy is called, once, and no table or lookup offers it afterwards,
\* except those of the table being emptied.  In there the modules go in
\* reverse order: those bound before the one whose onDestroy runs can still be
\* used by it, and all of them by the cleanup hooks of a session that owns its
\* modules.
ReleasedOnce ==
  /\ \A m \in Modules :
       LET holders == {s \in Owners :
                         \E b \in Range(ModulesOf(s)) : b.module = m} IN
         /\ module[m] # "twice"
         /\ module[m] = "bound" => holders # {}
         /\ module[m] = "gone" => \A s \in holders : Emptying(s)
         /\ ~TearingDown /\ module[m] = "gone" =>
              \A key \in Keys : Resolved(key) # m
  /\ \A c \in Range(calls) :
       c.call = "Destroy" \/ c.call = "EngineDestroy" =>
         \A k \in DOMAIN ModulesOf(c.session) :
           LET gone == module[ModulesOf(c.session)[k].module] = "gone" IN
             CASE c.at = "hooks" -> ~gone
               [] c.at = "callback" -> gone <=> k >= c.i
               [] OTHER -> gone <=> k > c.i
=============================================================================
