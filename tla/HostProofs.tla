----------------------------- MODULE HostProofs -----------------------------
(***************************************************************************)
(* What a host has running, for any sizes of its tables and any number of  *)
(* applications, sessions and modules.                                     *)
(*                                                                         *)
(* Sessions: the stack of calls is well formed (a teardown is never below  *)
(* a call that holds what it destroys, and the engine's sessions go within *)
(* CelsEngineDestroy), each live table of modules is a place of its own,   *)
(* and what a teardown has released of its table is exactly what its loop  *)
(* counter says.                                                           *)
(*                                                                         *)
(* Applications: what is mapped is counted.  An image is open as often as  *)
(* applications have it loaded, once more while a reload still holds the   *)
(* one it has replaced.  So a library that an application has loaded is    *)
(* mapped, and a copy that is still mapped after it was freed has an owner.*)
(***************************************************************************)
EXTENDS AppModules, Sessions, Induction, SequenceTheorems

-----------------------------------------------------------------------------
(* Sessions: lookups and tables.                                           *)

\* The least number of a set.
LEMMA LeastOf ==
  ASSUME NEW I \in SUBSET Nat, I # {} PROVE Min(I) \in I
<1>1. PICK x \in I : \A y \in I : x <= y BY LeastElement
<1> QED BY <1>1 DEF Min

\* A bounded sequence.
LEMMA BoundedIs ==
  ASSUME NEW S, NEW n \in Nat, NEW s
  PROVE  s \in BoundedSeq(S, n) <=> s \in Seq(S) /\ Len(s) <= n
<1>1. ASSUME s \in BoundedSeq(S, n) PROVE s \in Seq(S) /\ Len(s) <= n
  <2>1. PICK m \in 0 .. n : s \in [1 .. m -> S] BY <1>1 DEF BoundedSeq, SeqOf
  <2>2. s \in Seq(S) BY <2>1, SeqDef
  <2> QED BY <2>1, <2>2
<1>2. ASSUME s \in Seq(S), Len(s) <= n PROVE s \in BoundedSeq(S, n)
  <2>1. Len(s) \in 0 .. n /\ s \in [1 .. Len(s) -> S] BY <1>2
  <2> QED BY <2>1 DEF BoundedSeq, SeqOf
<1> QED BY <1>1, <1>2

\* What a search of a table of modules finds.
LEMMA BoundIs ==
  ASSUME NEW ms \in Seq(Binding), NEW key
  PROVE  \/ Bound(ms, key) = Null /\ \A k \in DOMAIN ms : ms[k].key # key
         \/ \E k \in DOMAIN ms : ms[k].key = key /\ Bound(ms, key) = ms[k].module
<1> DEFINE I == {k \in 1 .. Len(ms) : ms[k].key = key}
<1>1. I \in SUBSET Nat /\ DOMAIN ms = 1 .. Len(ms) OBVIOUS
<1>2. CASE I = {} BY <1>2, <1>1 DEF Bound, SelectInSeq
<1>3. CASE I # {}
  <2>1. PICK k : k = Min(I) /\ k \in I BY <1>1, <1>3, LeastOf
  <2>2. Bound(ms, key) = ms[k].module BY <2>1, <1>1, <1>3 DEF Bound, SelectInSeq
  <2> QED BY <2>1, <2>2, <1>1
<1> QED BY <1>2, <1>3

\* What becomes of a table into which a module is bound.
LEMMA WithModuleIs ==
  ASSUME NEW ms \in Seq(Binding), NEW b
  PROVE  \/ \E k \in DOMAIN ms : /\ Bound(ms, b.key) = ms[k].module
                                 /\ WithModule(ms, b) = [ms EXCEPT ![k] = b]
         \/ HasRoom(ms) /\ Bound(ms, b.key) = Null /\ WithModule(ms, b) = Append(ms, b)
         \/ ~HasRoom(ms) /\ Bound(ms, b.key) = Null /\ WithModule(ms, b) = ms
<1> DEFINE I == {k \in 1 .. Len(ms) : ms[k].key = b.key}
<1>1. I \in SUBSET Nat /\ DOMAIN ms = 1 .. Len(ms) OBVIOUS
<1>2. CASE I = {}
  <2>1. Bound(ms, b.key) = Null BY <1>2 DEF Bound, SelectInSeq
  <2>2. WithModule(ms, b) = IF HasRoom(ms) THEN Append(ms, b) ELSE ms
    BY <1>2 DEF WithModule, SelectInSeq
  <2> QED BY <2>1, <2>2
<1>3. CASE I # {}
  <2>1. PICK k : k = Min(I) /\ k \in I BY <1>1, <1>3, LeastOf
  <2>2. Bound(ms, b.key) = ms[k].module BY <2>1, <1>1, <1>3 DEF Bound, SelectInSeq
  <2>3. WithModule(ms, b) = [ms EXCEPT ![k] = b]
    <3>1. SelectInSeq(ms, LAMBDA x : x.key = b.key) = k
      BY <2>1, <1>1, <1>3 DEF SelectInSeq
    <3>2. k # 0 BY <2>1
    <3> QED BY <3>1, <3>2 DEF WithModule
  <2> QED BY <2>1, <2>2, <2>3, <1>1
<1> QED BY <1>2, <1>3

\* The registry once s is taken out.
LEMMA RemainingIs ==
  ASSUME NEW S, registry \in Seq(S), NEW s
  PROVE  \/ Remaining(s) = registry /\ \A k \in DOMAIN registry : registry[k].session # s
         \/ \E n \in DOMAIN registry : registry[n].session = s /\ Remaining(s) = RemoveAt(registry, n)
<1> DEFINE I == {k \in 1 .. Len(registry) : registry[k].session = s}
<1>1. I \in SUBSET Nat /\ DOMAIN registry = 1 .. Len(registry) OBVIOUS
<1>2. CASE I = {} BY <1>2, <1>1 DEF Remaining, SelectInSeq
<1>3. CASE I # {}
  <2>1. PICK k : k = Min(I) /\ k \in I BY <1>1, <1>3, LeastOf
  <2>2. Remaining(s) = RemoveAt(registry, k) BY <2>1, <1>1, <1>3 DEF Remaining, SelectInSeq
  <2> QED BY <2>1, <2>2, <1>1
<1> QED BY <1>2, <1>3

\* A sequence without its place n.
LEMMA RemoveAtIs ==
  ASSUME NEW S, NEW q \in Seq(S), NEW n \in DOMAIN q
  PROVE  /\ RemoveAt(q, n) \in Seq(S) /\ Len(RemoveAt(q, n)) = Len(q) - 1
         /\ \A k \in 1 .. Len(q) - 1 :
              RemoveAt(q, n)[k] = IF k < n THEN q[k] ELSE q[k + 1]
<1> DEFINE a == SubSeq(q, 1, n - 1)
           b == SubSeq(q, n + 1, Len(q))
<1>1. n \in 1 .. Len(q) /\ Len(q) \in Nat OBVIOUS
<1>2. /\ a \in Seq(S) /\ Len(a) = n - 1 /\ \A k \in 1 .. n - 1 : a[k] = q[k]
  BY <1>1
<1>3. /\ b \in Seq(S) /\ Len(b) = Len(q) - n /\ \A k \in 1 .. Len(q) - n : b[k] = q[n + k]
  BY <1>1
<1> HIDE DEF a, b
<1>4. RemoveAt(q, n) = a \o b BY DEF RemoveAt, a, b
<1>5. /\ a \o b \in Seq(S) /\ Len(a \o b) = Len(q) - 1
      /\ \A k \in 1 .. Len(q) - 1 : (a \o b)[k] = IF k <= n - 1 THEN a[k] ELSE b[k - (n - 1)]
  BY <1>1, <1>2, <1>3
<1>6. ASSUME NEW k \in 1 .. Len(q) - 1
      PROVE  (a \o b)[k] = IF k < n THEN q[k] ELSE q[k + 1]
  <2>1. CASE k < n BY <2>1, <1>1, <1>2, <1>5
  <2>2. CASE ~(k < n)
    <3>1. k - (n - 1) \in 1 .. Len(q) - n /\ n + (k - (n - 1)) = k + 1 BY <2>2, <1>1
    <3> QED BY <3>1, <2>2, <1>1, <1>3, <1>5
  <2> QED BY <2>1, <2>2
<1> QED BY <1>4, <1>5, <1>6

-----------------------------------------------------------------------------
(* The invariant.                                                          *)

Teardowns == {"Destroy", "EngineDestroy"}

Frames ==
  [call : {"Recompose", "RecomposeAll", "EngineRecompose", "Start", "End"} \union Teardowns,
   session : Handles \union {Null}, prevSession : Handles \union {Null},
   prevEngine : BOOLEAN, i : Nat,
   at : UserCode \union {"loop", "modules", "sessions", "return"}]

Alive(s) == s # Null => session[s].live

\* How far a call can be, and what is left to it.
StageOK(c) ==
  /\ c.call = "EngineDestroy" =>
       c.session = Null /\ c.prevSession = Null /\ c.at \in {"modules", "callback", "sessions"}
  /\ c.call = "Destroy" => c.session \in Handles /\ c.at \in {"hooks", "modules", "callback"}
  /\ c.at \in {"hooks", "modules", "callback", "sessions"} => c.call \in Teardowns
  /\ c.at \in {"modules", "callback"} => c.i <= Len(ModulesOf(c.session))
  /\ c.at = "callback" => c.i > 0
  /\ c.at = "sessions" => engine.modules = <<>>

\* What a call holds is alive.
HoldsOK(c) ==
  /\ Alive(c.session) /\ Alive(c.prevSession)
  /\ c.prevEngine \/ c.call \in {"Start", "End", "EngineDestroy"} => engine.live

\* Does a call work on s, or will it make s ambient again?
Holding(c, s) == c.session = s \/ c.prevSession = s

\* CelsEngineDestroy is called by the host only: it is the outermost call.
EngineGoing(cs) == cs # <<>> /\ cs[1].call = "EngineDestroy"

\* Has CelsEngineDestroy, in its loop over the sessions, made call n?
OfEngine(cs, n) ==
  n = 2 /\ cs[1].call = "EngineDestroy" /\ cs[1].at = "sessions"

\* No call further out holds a session that is being destroyed, and the
\* engine's sessions go with the engine.
GoingOK(cs, n) ==
  /\ \A k \in 1 .. n - 1 : ~Holding(cs[k], cs[n].session)
  /\ session[cs[n].session].engine => OfEngine(cs, n)

StackOK(cs) ==
  /\ cs \in Seq(Frames)
  /\ \A n \in DOMAIN cs :
       /\ StageOK(cs[n]) /\ HoldsOK(cs[n])
       /\ cs[n].call = "EngineDestroy" => n = 1
       /\ cs[n].call = "Destroy" => GoingOK(cs, n)

TeardownsIn(cs) == {c \in Range(cs) : c.call \in Teardowns}

RegistryOK ==
  /\ \A c \in TeardownsIn(calls) : \A k \in DOMAIN registry :
       registry[k].session # c.session
  /\ \A k \in DOMAIN registry :
       session[registry[k].session].live /\ ~session[registry[k].session].engine
  /\ \A k, l \in DOMAIN registry : registry[k].session = registry[l].session => k = l

EntryOK(e) ==
  e # NoEntry => e.session # Null /\ e.session # Main /\ session[e.session].live /\ session[e.session].engine

\* The engine outlives the sessions it owns, and its primary session the rest.
OwnedOK ==
  /\ \A s \in Handles : session[s].live /\ session[s].engine =>
       engine.live /\ (s = Main \/ \E n \in 1 .. MaxSecondary : engine.secondary[n].session = s)
  /\ (\E c \in TeardownsIn(calls) : c.session = Main) \/ ~session[Main].live =>
       \A n \in 1 .. MaxSecondary : engine.secondary[n] = NoEntry

OwnersOK ==
  /\ RegistryOK /\ OwnedOK
  /\ \A s \in Handles : ~session[s].live => session[s] = NoSession
  /\ ~engine.live => engine = NoEngine
  /\ session[Main].live => session[Main].engine /\ engine.live
  /\ engine.live /\ ~EngineGoing(calls) => session[Main].live
  /\ \A n \in 1 .. MaxSecondary : EntryOK(engine.secondary[n])
  /\ Alive(currentSession)
  /\ currentEngine => engine.live

\* Has the teardown c released module k of its table?
HasGone(c, k) ==
  CASE c.at = "hooks" -> FALSE
    [] c.at = "callback" -> k >= c.i
    [] OTHER -> k > c.i

At(s, k) == ModulesOf(s)[k].module

BindingsOK(cs) ==
  /\ \A s \in Owners : (\A c \in cs : c.session # s) =>
       \A k \in DOMAIN ModulesOf(s) : module[At(s, k)] = "bound"
  /\ \A c \in cs : \A k \in DOMAIN ModulesOf(c.session) :
       module[At(c.session, k)] = IF HasGone(c, k) THEN "gone" ELSE "bound"
  /\ \A s, t \in Owners : \A k \in DOMAIN ModulesOf(s), l \in DOMAIN ModulesOf(t) :
       At(s, k) = At(t, l) => s = t /\ k = l
  /\ \A m \in Modules :
       /\ module[m] # "twice"
       /\ module[m] = "bound" =>
            \E s \in Owners : \E k \in DOMAIN ModulesOf(s) : At(s, k) = m

SessionsInv ==
  /\ SessionsTypeOK /\ StackOK(calls) /\ OwnersOK /\ BindingsOK(TeardownsIn(calls))

-----------------------------------------------------------------------------
(* The C stack.                                                            *)

\* A call begins.
LEMMA PushIs ==
  ASSUME NEW cs, StackOK(cs), NEW c \in Frames, StageOK(c), HoldsOK(c),
         c.call = "EngineDestroy" => cs = <<>>,
         c.call = "Destroy" => /\ \A k \in DOMAIN cs : ~Holding(cs[k], c.session)
                               /\ session[c.session].engine => OfEngine(cs, Len(cs) + 1)
  PROVE  /\ StackOK(Append(cs, c))
         /\ TeardownsIn(Append(cs, c)) =
              TeardownsIn(cs) \union (IF c.call \in Teardowns THEN {c} ELSE {})
         /\ EngineGoing(Append(cs, c)) <=>
              IF cs = <<>> THEN c.call = "EngineDestroy" ELSE EngineGoing(cs)
<1>1. PICK n : n = Len(cs) /\ n \in Nat /\ DOMAIN cs = 1 .. n /\ cs \in Seq(Frames)
  BY DEF StackOK
<1>2. PICK ds : ds = Append(cs, c) OBVIOUS
<1>3. /\ ds \in Seq(Frames) /\ DOMAIN ds = 1 .. n + 1 /\ ds[n + 1] = c
      /\ \A k \in 1 .. n : ds[k] = cs[k]
  BY <1>1, <1>2
<1>4. cs = <<>> <=> n = 0 BY <1>1
<1>5. EngineGoing(ds) <=> IF cs = <<>> THEN c.call = "EngineDestroy" ELSE EngineGoing(cs)
  <2>1. ds # <<>> BY <1>1, <1>3
  <2>2. CASE n = 0 BY <2>1, <2>2, <1>3, <1>4 DEF EngineGoing
  <2>3. CASE n # 0
    <3>1. ds[1] = cs[1] BY <2>3, <1>1, <1>3
    <3> QED BY <3>1, <2>1, <2>3, <1>4 DEF EngineGoing
  <2> QED BY <2>2, <2>3
<1>6. ASSUME NEW k \in DOMAIN ds
      PROVE  /\ StageOK(ds[k]) /\ HoldsOK(ds[k])
             /\ ds[k].call = "EngineDestroy" => k = 1
             /\ ds[k].call = "Destroy" => GoingOK(ds, k)
  <2>1. CASE k = n + 1
    <3>1. ds[k] = c BY <2>1, <1>3
    <3>2. c.call = "EngineDestroy" => k = 1 BY <2>1, <1>1, <1>4
    <3>3. ASSUME c.call = "Destroy" PROVE GoingOK(ds, k)
      <4>1. \A j \in 1 .. n : ~Holding(ds[j], c.session) BY <3>3, <1>1, <1>3
      <4>2. k - 1 = n BY <2>1, <1>1
      <4>3. session[c.session].engine => OfEngine(ds, k)
        <5>1. session[c.session].engine => OfEngine(cs, n + 1) BY <3>3, <1>1
        <5>2. n + 1 = 2 => ds[1] = cs[1] BY <1>1, <1>3
        <5> QED BY <5>1, <5>2, <2>1 DEF OfEngine
      <4> QED BY <3>1, <4>1, <4>2, <4>3 DEF GoingOK
    <3> QED BY <3>1, <3>2, <3>3
  <2>2. CASE k # n + 1
    <3>1. k \in 1 .. n /\ n # 0 BY <2>2, <1>1, <1>3
    <3>2. /\ ds[k] = cs[k] /\ StageOK(cs[k]) /\ HoldsOK(cs[k])
          /\ cs[k].call = "EngineDestroy" => k = 1
          /\ cs[k].call = "Destroy" => GoingOK(cs, k)
      BY <3>1, <1>1, <1>3 DEF StackOK
    <3>3. ASSUME cs[k].call = "Destroy" PROVE GoingOK(ds, k)
      <4>1. \A j \in 1 .. k - 1 : j \in 1 .. n BY <3>1, <1>1
      <4>2. \A j \in 1 .. k - 1 : ~Holding(cs[j], cs[k].session) BY <3>2, <3>3 DEF GoingOK
      <4>3. \A j \in 1 .. k - 1 : ~Holding(ds[j], ds[k].session) BY <4>1, <4>2, <3>2, <1>3
      <4>4. session[ds[k].session].engine => OfEngine(ds, k)
        <5>1. ds[1] = cs[1] BY <3>1, <1>1, <1>3
        <5> QED BY <5>1, <3>2, <3>3 DEF GoingOK, OfEngine
      <4> QED BY <4>3, <4>4 DEF GoingOK
    <3> QED BY <3>2, <3>3
  <2> QED BY <2>1, <2>2
<1>7. StackOK(ds) BY <1>3, <1>6 DEF StackOK
<1>8. TeardownsIn(ds) = TeardownsIn(cs) \union (IF c.call \in Teardowns THEN {c} ELSE {})
  <2>1. Range(ds) = Range(cs) \union {c}
    <3>1. n + 1 \in 1 .. n + 1 /\ \A k \in 1 .. n : k \in 1 .. n + 1 BY <1>1
    <3>2. \A k \in 1 .. n + 1 : k = n + 1 \/ k \in 1 .. n BY <1>1
    <3> QED BY <3>1, <3>2, <1>1, <1>3 DEF Range
  <2> QED BY <2>1 DEF TeardownsIn
<1> QED BY <1>2, <1>5, <1>7, <1>8

\* The innermost call.
LEMMA TopIs ==
  ASSUME StackOK(calls), calls # <<>>
  PROVE  /\ Len(calls) \in Nat \ {0} /\ Len(calls) \in DOMAIN calls
         /\ Top = calls[Len(calls)] /\ Top \in Frames /\ StageOK(Top) /\ HoldsOK(Top)
<1>1. Len(calls) \in Nat \ {0} /\ DOMAIN calls = 1 .. Len(calls) BY DEF StackOK
<1>2. Top = calls[Len(calls)] BY DEF Top, Last
<1>3. calls \in Seq(Frames) BY DEF StackOK
<1>4. Len(calls) \in DOMAIN calls BY <1>1
<1>5. StageOK(calls[Len(calls)]) /\ HoldsOK(calls[Len(calls)]) BY <1>4 DEF StackOK
<1> QED BY <1>1, <1>2, <1>3, <1>4, <1>5

\* The host runs, or a call of a certain name.
LEMMA InCallIs ==
  ASSUME NEW what, NEW at, InCall(what, at), what # "none"
  PROVE  calls # <<>> /\ Top.call = what /\ Top.at = at
BY DEF InCall, Top, HostCall

\* The innermost call goes on.
LEMMA GoingIs ==
  ASSUME StackOK(calls), calls # <<>>, NEW at, NEW i \in Nat,
         NEW c \in Frames, c = [Top EXCEPT !.at = at, !.i = i], StageOK(c)
  PROVE  /\ StackOK(Going(at, i))
         /\ TeardownsIn(Going(at, i)) =
              IF Top.call \in Teardowns THEN (TeardownsIn(calls) \ {Top}) \union {c}
              ELSE TeardownsIn(calls)
         /\ EngineGoing(Going(at, i)) <=> EngineGoing(calls)
         /\ Going(at, i) # <<>>
<1>1. PICK n : n = Len(calls) /\ n \in Nat \ {0} /\ DOMAIN calls = 1 .. n /\ calls \in Seq(Frames)
  BY TopIs DEF StackOK
<1>2. PICK b : b = Top /\ b = calls[n] /\ b \in Frames BY <1>1, TopIs
<1>3. PICK ds : ds = Going(at, i) OBVIOUS
<1>4. /\ c.call = b.call /\ c.session = b.session /\ c.prevSession = b.prevSession
      /\ c.prevEngine = b.prevEngine
  BY <1>2 DEF Frames
<1>5. /\ ds \in Seq(Frames) /\ DOMAIN ds = 1 .. n /\ ds[n] = c
      /\ \A k \in 1 .. n - 1 : ds[k] = calls[k]
  <2>1. ds = [calls EXCEPT ![n] = c] BY <1>1, <1>2, <1>3 DEF Going
  <2> QED BY <2>1, <1>1
<1>6. \A k \in 1 .. n : /\ ds[k].call = calls[k].call /\ ds[k].session = calls[k].session
                        /\ ds[k].prevSession = calls[k].prevSession
                        /\ ds[k].prevEngine = calls[k].prevEngine
  <2>1. \A k \in 1 .. n : k = n \/ k \in 1 .. n - 1 BY <1>1
  <2> QED BY <2>1, <1>2, <1>4, <1>5
<1>7. EngineGoing(ds) <=> EngineGoing(calls)
  <2>1. ds # <<>> /\ 1 \in 1 .. n BY <1>1, <1>5
  <2> QED BY <2>1, <1>6 DEF EngineGoing
<1>8. ASSUME NEW k \in DOMAIN ds
      PROVE  /\ StageOK(ds[k]) /\ HoldsOK(ds[k])
             /\ ds[k].call = "EngineDestroy" => k = 1
             /\ ds[k].call = "Destroy" => GoingOK(ds, k)
  <2>1. k \in 1 .. n BY <1>5
  <2>2. /\ StageOK(calls[k]) /\ HoldsOK(calls[k])
        /\ calls[k].call = "EngineDestroy" => k = 1
        /\ calls[k].call = "Destroy" => GoingOK(calls, k)
    BY <2>1, <1>1 DEF StackOK
  <2>3. StageOK(ds[k])
    <3>1. k = n \/ k \in 1 .. n - 1 BY <2>1, <1>1
    <3> QED BY <3>1, <2>2, <1>5
  <2>4. HoldsOK(ds[k]) BY <2>1, <2>2, <1>6 DEF HoldsOK
  <2>5. ASSUME ds[k].call = "Destroy" PROVE GoingOK(ds, k)
    <3>1. GoingOK(calls, k) BY <2>1, <2>2, <2>5, <1>6
    <3>2. \A j \in 1 .. k - 1 : j \in 1 .. n BY <2>1, <1>1
    <3>3. \A j \in 1 .. k - 1 : ~Holding(ds[j], ds[k].session)
      BY <3>1, <3>2, <2>1, <1>6 DEF GoingOK, Holding
    <3>4. k = 2 => ds[1] = calls[1] BY <2>1, <1>1, <1>5
    <3>5. ds[k].session = calls[k].session BY <2>1, <1>6
    <3>6. session[ds[k].session].engine => OfEngine(ds, k)
      BY <3>1, <3>4, <3>5 DEF GoingOK, OfEngine
    <3> QED BY <3>3, <3>6 DEF GoingOK
  <2> QED BY <2>1, <2>2, <2>3, <2>4, <2>5, <1>6
<1>9. StackOK(ds) BY <1>5, <1>8 DEF StackOK
<1>10. TeardownsIn(ds) = IF b.call \in Teardowns THEN (TeardownsIn(calls) \ {b}) \union {c}
                         ELSE TeardownsIn(calls)
  <2>1. \A k \in 1 .. n : k = n \/ k \in 1 .. n - 1 BY <1>1
  <2>2. n \in 1 .. n /\ \A k \in 1 .. n - 1 : k \in 1 .. n BY <1>1
  <2>3. ASSUME b.call \in Teardowns, NEW k \in 1 .. n - 1 PROVE calls[k] # b
    <3>1. n \in DOMAIN calls /\ k < n /\ k >= 1 BY <1>1
    <3>2. CASE b.call = "EngineDestroy"
      <4>1. n = 1 BY <3>1, <3>2, <1>2 DEF StackOK
      <4> QED BY <4>1, <3>1
    <3>3. CASE b.call = "Destroy"
      <4>1. GoingOK(calls, n) BY <3>1, <3>3, <1>2 DEF StackOK
      <4> QED BY <4>1, <1>2 DEF GoingOK, Holding
    <3> QED BY <2>3, <3>2, <3>3 DEF Teardowns
  <2>4. CASE b.call \in Teardowns
    <3>1. ASSUME NEW x \in TeardownsIn(ds) PROVE x \in (TeardownsIn(calls) \ {b}) \union {c}
      <4>1. PICK k \in 1 .. n : x = ds[k] BY <1>5 DEF TeardownsIn, Range
      <4>2. x.call \in Teardowns BY DEF TeardownsIn
      <4> QED BY <4>1, <4>2, <2>1, <2>2, <2>3, <2>4, <1>1, <1>5 DEF TeardownsIn, Range
    <3>2. ASSUME NEW x \in (TeardownsIn(calls) \ {b}) PROVE x \in TeardownsIn(ds)
      <4>1. PICK k \in 1 .. n : x = calls[k] /\ x.call \in Teardowns
        BY <1>1 DEF TeardownsIn, Range
      <4>2. k \in 1 .. n - 1 BY <4>1, <3>2, <2>1, <1>2
      <4> QED BY <4>1, <4>2, <1>5 DEF TeardownsIn, Range
    <3>3. c \in TeardownsIn(ds) BY <2>2, <2>4, <1>4, <1>5 DEF TeardownsIn, Range
    <3> QED BY <3>1, <3>2, <3>3, <2>4
  <2>5. CASE b.call \notin Teardowns
    <3>1. ASSUME NEW x \in TeardownsIn(ds) PROVE x \in TeardownsIn(calls)
      <4>1. PICK k \in 1 .. n : x = ds[k] /\ x.call \in Teardowns
        BY <1>5 DEF TeardownsIn, Range
      <4>2. k \in 1 .. n - 1 BY <4>1, <2>1, <2>5, <1>4, <1>5
      <4> QED BY <4>1, <4>2, <1>1, <1>5 DEF TeardownsIn, Range
    <3>2. ASSUME NEW x \in TeardownsIn(calls) PROVE x \in TeardownsIn(ds)
      <4>1. PICK k \in 1 .. n : x = calls[k] /\ x.call \in Teardowns
        BY <1>1 DEF TeardownsIn, Range
      <4>2. k \in 1 .. n - 1 BY <4>1, <2>1, <2>5, <1>2
      <4> QED BY <4>1, <4>2, <1>5 DEF TeardownsIn, Range
    <3> QED BY <3>1, <3>2, <2>5
  <2> QED BY <2>4, <2>5
<1>11. ds # <<>> BY <1>1, <1>5
<1> QED BY <1>2, <1>3, <1>7, <1>9, <1>10, <1>11

\* The innermost call returns.
LEMMA ReturnedIs ==
  ASSUME StackOK(calls), calls # <<>>
  PROVE  /\ StackOK(Returned)
         /\ TeardownsIn(Returned) =
              IF Top.call \in Teardowns THEN TeardownsIn(calls) \ {Top} ELSE TeardownsIn(calls)
         /\ Top.call # "EngineDestroy" => (EngineGoing(Returned) <=> EngineGoing(calls))
         /\ Top.call = "EngineDestroy" => Returned = <<>> /\ EngineGoing(calls)
         /\ Top.call = "Destroy" =>
              \A k \in DOMAIN Returned : ~Holding(Returned[k], Top.session)
<1>1. PICK n : n = Len(calls) /\ n \in Nat \ {0} /\ DOMAIN calls = 1 .. n /\ calls \in Seq(Frames)
  BY TopIs DEF StackOK
<1>2. PICK b : b = Top /\ b = calls[n] /\ b \in Frames BY <1>1, TopIs
<1>3. PICK ds : ds = Returned OBVIOUS
<1>4. /\ ds \in Seq(Frames) /\ DOMAIN ds = 1 .. n - 1 /\ Len(ds) = n - 1
      /\ \A k \in 1 .. n - 1 : ds[k] = calls[k]
  BY <1>1, <1>3 DEF Returned, Front
<1>5. n \in DOMAIN calls /\ \A k \in 1 .. n - 1 : k \in DOMAIN calls BY <1>1
<1>6. b.call = "EngineDestroy" => n = 1 BY <1>2, <1>5 DEF StackOK
<1>7. b.call = "Destroy" => \A k \in 1 .. n - 1 : ~Holding(calls[k], b.session)
  BY <1>2, <1>5 DEF StackOK, GoingOK
<1>8. n = 1 <=> ds = <<>> BY <1>1, <1>4
<1>9. n # 1 => (EngineGoing(ds) <=> EngineGoing(calls))
  <2>1. n # 1 => 1 \in 1 .. n - 1 BY <1>1
  <2> QED BY <2>1, <1>4, <1>8 DEF EngineGoing
<1>10. b.call # "EngineDestroy" => (EngineGoing(ds) <=> EngineGoing(calls))
  <2>1. CASE n = 1 BY <2>1, <1>2, <1>8 DEF EngineGoing
  <2>2. CASE n # 1 BY <2>2, <1>9
  <2> QED BY <2>1, <2>2
<1>11. ASSUME NEW k \in DOMAIN ds
       PROVE  /\ StageOK(ds[k]) /\ HoldsOK(ds[k])
              /\ ds[k].call = "EngineDestroy" => k = 1
              /\ ds[k].call = "Destroy" => GoingOK(ds, k)
  <2>1. k \in 1 .. n - 1 /\ k \in DOMAIN calls /\ ds[k] = calls[k] BY <1>4, <1>5
  <2>2. /\ StageOK(calls[k]) /\ HoldsOK(calls[k])
        /\ calls[k].call = "EngineDestroy" => k = 1
        /\ calls[k].call = "Destroy" => GoingOK(calls, k)
    BY <2>1 DEF StackOK
  <2>3. ASSUME GoingOK(calls, k) PROVE GoingOK(ds, k)
    <3>1. \A j \in 1 .. k - 1 : j \in 1 .. n - 1 BY <2>1, <1>1
    <3>2. \A j \in 1 .. k - 1 : ~Holding(ds[j], ds[k].session) BY <2>1, <2>3, <3>1, <1>4 DEF GoingOK
    <3>3. ds[1] = calls[1] BY <2>1, <1>1, <1>4
    <3> QED BY <2>1, <2>3, <3>2, <3>3 DEF GoingOK, OfEngine
  <2> QED BY <2>1, <2>2, <2>3
<1>12. StackOK(ds) BY <1>4, <1>11 DEF StackOK
<1>13. TeardownsIn(ds) = IF b.call \in Teardowns THEN TeardownsIn(calls) \ {b}
                         ELSE TeardownsIn(calls)
  <2>1. \A k \in 1 .. n : k = n \/ k \in 1 .. n - 1 BY <1>1
  <2>2. ASSUME b.call \in Teardowns, NEW k \in 1 .. n - 1 PROVE calls[k] # b
    <3>1. n # 1 BY <1>1
    <3> QED BY <2>2, <3>1, <1>6, <1>7 DEF Teardowns, Holding
  <2>3. ASSUME NEW x \in TeardownsIn(ds)
        PROVE  x \in TeardownsIn(calls) /\ (b.call \in Teardowns => x # b)
    <3>1. PICK k \in 1 .. n - 1 : x = calls[k] /\ x.call \in Teardowns
      BY <1>4 DEF TeardownsIn, Range
    <3> QED BY <3>1, <2>2, <1>5 DEF TeardownsIn, Range
  <2>4. ASSUME NEW x \in TeardownsIn(calls), x # b PROVE x \in TeardownsIn(ds)
    <3>1. PICK k \in 1 .. n : x = calls[k] /\ x.call \in Teardowns
      BY <1>1 DEF TeardownsIn, Range
    <3>2. k \in 1 .. n - 1 BY <3>1, <2>1, <2>4, <1>2
    <3> QED BY <3>1, <3>2, <1>4 DEF TeardownsIn, Range
  <2>5. b.call \notin Teardowns => b \notin TeardownsIn(calls) BY DEF TeardownsIn
  <2> QED BY <2>3, <2>4, <2>5
<1>14. b.call = "EngineDestroy" => ds = <<>> /\ EngineGoing(calls)
  <2>1. b.call = "EngineDestroy" => calls[1] = b /\ calls # <<>> BY <1>1, <1>2, <1>6
  <2> QED BY <2>1, <1>6, <1>8 DEF EngineGoing
<1> QED BY <1>2, <1>3, <1>4, <1>7, <1>10, <1>12, <1>13, <1>14

-----------------------------------------------------------------------------
(* What steps have in common.                                              *)

\* The calls are those of cs, and no call of theirs is affected.
LEMMA StackKept ==
  ASSUME NEW cs, StackOK(cs), calls' = cs,
         \A c \in Range(cs) :
           /\ StageOK(c)' /\ HoldsOK(c)'
           /\ c.call = "Destroy" => session'[c.session].engine = session[c.session].engine
  PROVE  StackOK(calls)'
<1>1. ASSUME NEW k \in DOMAIN cs
      PROVE  /\ StageOK(cs[k])' /\ HoldsOK(cs[k])'
             /\ cs[k].call = "EngineDestroy" => k = 1
             /\ cs[k].call = "Destroy" => GoingOK(cs, k)'
  <2>1. cs[k] \in Range(cs) BY DEF Range
  <2>2. /\ cs[k].call = "EngineDestroy" => k = 1
        /\ cs[k].call = "Destroy" => GoingOK(cs, k)
    BY DEF StackOK
  <2>3. ASSUME cs[k].call = "Destroy" PROVE GoingOK(cs, k)'
    BY <2>1, <2>2, <2>3 DEF GoingOK
  <2> QED BY <2>1, <2>2, <2>3
<1>2. cs \in Seq(Frames) BY DEF StackOK
<1>3. StackOK(cs)' BY <1>1, <1>2 DEF StackOK
<1> QED BY <1>3 DEF StackOK, GoingOK, OfEngine

\* The teardowns and the tables they empty.
LEMMA TeardownFacts ==
  ASSUME StackOK(calls), NEW c \in TeardownsIn(calls)
  PROVE  /\ c \in Frames /\ StageOK(c) /\ HoldsOK(c) /\ c.session \in Owners
         /\ c.call = "Destroy" \/ (c.call = "EngineDestroy" /\ EngineGoing(calls))
<1>1. PICK k \in DOMAIN calls : c = calls[k] /\ c.call \in Teardowns BY DEF TeardownsIn, Range
<1>2. StageOK(c) /\ HoldsOK(c) /\ (c.call = "EngineDestroy" => k = 1) BY <1>1 DEF StackOK
<1>3. calls \in Seq(Frames) /\ calls # <<>> BY <1>1 DEF StackOK
<1>4. c \in Frames BY <1>1, <1>3
<1>5. c.session \in Owners
  <2>1. CASE c.call = "Destroy"
    <3>1. c.session \in Handles BY <2>1, <1>2 DEF StageOK
    <3>2. c.session # Null BY <3>1, SessionsAssumption
    <3> QED BY <3>1, <3>2, <1>2 DEF HoldsOK, Alive, Owners
  <2>2. CASE c.call = "EngineDestroy"
    BY <2>2, <1>2 DEF StageOK, HoldsOK, Owners
  <2> QED BY <2>1, <2>2, <1>1 DEF Teardowns
<1> QED BY <1>1, <1>2, <1>3, <1>4, <1>5 DEF Teardowns, EngineGoing

\* Tables that are alive stay as they are, and new ones are empty.
LEMMA BindingsKept ==
  ASSUME NEW T, BindingsOK(T), \A c \in T : c.session \in Owners,
         Owners \subseteq Owners', \A s \in Owners : ModulesOf(s)' = ModulesOf(s),
         \A s \in Owners' : s \in Owners \/ ModulesOf(s)' = <<>>,
         module' = module
  PROVE  BindingsOK(T)'
<1>1. \A s \in Owners : \A k : At(s, k)' = At(s, k) BY DEF At
<1>2. \A s \in Owners' : \A k \in DOMAIN ModulesOf(s)' : s \in Owners /\ k \in DOMAIN ModulesOf(s)
  OBVIOUS
<1>3. ASSUME NEW s \in Owners', \A c \in T : c.session # s, NEW k \in DOMAIN ModulesOf(s)'
      PROVE  module'[At(s, k)'] = "bound"
  BY <1>1, <1>2, <1>3 DEF BindingsOK
<1>4. ASSUME NEW c \in T, NEW k \in DOMAIN ModulesOf(c.session)'
      PROVE  module'[At(c.session, k)'] = IF HasGone(c, k) THEN "gone" ELSE "bound"
  <2>1. c.session \in Owners /\ k \in DOMAIN ModulesOf(c.session) OBVIOUS
  <2>2. At(c.session, k)' = At(c.session, k) BY <2>1, <1>1
  <2>3. module[At(c.session, k)] = IF HasGone(c, k) THEN "gone" ELSE "bound"
    BY <2>1 DEF BindingsOK
  <2> QED BY <2>2, <2>3
<1>5. ASSUME NEW s \in Owners', NEW t \in Owners', NEW k \in DOMAIN ModulesOf(s)',
             NEW l \in DOMAIN ModulesOf(t)', At(s, k)' = At(t, l)'
      PROVE  s = t /\ k = l
  <2>1. /\ s \in Owners /\ k \in DOMAIN ModulesOf(s)
        /\ t \in Owners /\ l \in DOMAIN ModulesOf(t)
    BY <1>2
  <2>2. At(s, k) = At(t, l) BY <2>1, <1>1, <1>5
  <2> QED BY <2>1, <2>2 DEF BindingsOK
<1>6. ASSUME NEW m \in Modules
      PROVE  /\ module'[m] # "twice"
             /\ module'[m] = "bound" =>
                  \E s \in Owners' : \E k \in DOMAIN ModulesOf(s)' : At(s, k)' = m
  <2>1. module[m] # "twice" BY DEF BindingsOK
  <2>2. ASSUME module[m] = "bound"
        PROVE  \E s \in Owners' : \E k \in DOMAIN ModulesOf(s)' : At(s, k)' = m
    <3>1. PICK s \in Owners : \E k \in DOMAIN ModulesOf(s) : At(s, k) = m BY <2>2 DEF BindingsOK
    <3>2. PICK k \in DOMAIN ModulesOf(s) : At(s, k) = m BY <3>1
    <3>3. At(s, k)' = m /\ s \in Owners' /\ k \in DOMAIN ModulesOf(s)' BY <3>2, <1>1
    <3> QED BY <3>3
  <2> QED BY <2>1, <2>2
<1> QED BY <1>3, <1>4, <1>5, <1>6 DEF BindingsOK

\* What keeps the teardowns as they are.
Same(cs) ==
  /\ StackOK(cs)
  /\ TeardownsIn(cs) = TeardownsIn(calls)
  /\ EngineGoing(cs) <=> EngineGoing(calls)
Steps(cs) == Same(cs) /\ calls' = cs

\* A step that creates, binds and destroys nothing.
LEMMA WalkKept ==
  ASSUME SessionsInv, NEW cs, Steps(cs),
         UNCHANGED <<registry, session, module>>,
         \/ engine' = engine
         \/ engine.live /\ \E b \in BOOLEAN : engine' = [engine EXCEPT !.started = b],
         currentSession' \in Handles \union {Null}, currentSession' # Null => session[currentSession'].live,
         currentEngine' \in BOOLEAN, currentEngine' => engine.live
  PROVE  SessionsInv'
<1>1. /\ engine'.live = engine.live /\ engine'.modules = engine.modules
      /\ engine'.secondary = engine.secondary /\ engine'.started \in BOOLEAN
      /\ engine' \in [live : BOOLEAN, started : BOOLEAN,
                      modules : BoundedSeq(Binding, MaxModules),
                      secondary : [1 .. MaxSecondary ->
                        [name : Names \union {Null}, session : Handles \union {Null}]]]
      /\ ~engine'.live => engine' = NoEngine
  <2>1. /\ engine \in [live : BOOLEAN, started : BOOLEAN,
                       modules : BoundedSeq(Binding, MaxModules),
                       secondary : [1 .. MaxSecondary ->
                         [name : Names \union {Null}, session : Handles \union {Null}]]]
        /\ ~engine.live => engine = NoEngine
    BY DEF SessionsInv, SessionsTypeOK, OwnersOK
  <2>2. CASE engine' = engine BY <2>1, <2>2
  <2>3. CASE engine.live /\ \E b \in BOOLEAN : engine' = [engine EXCEPT !.started = b]
    <3>1. PICK b \in BOOLEAN : engine' = [engine EXCEPT !.started = b] BY <2>3
    <3> QED BY ONLY <2>1, <2>3, <3>1
  <2> QED BY <2>2, <2>3
<1>2. \A s : ModulesOf(s)' = ModulesOf(s) BY <1>1 DEF ModulesOf
<1>3. Owners' = Owners BY <1>1 DEF Owners
<1>4. StackOK(calls)'
  <2>1. ASSUME NEW c \in Range(cs) PROVE StageOK(c) /\ HoldsOK(c)
    BY DEF Range, Steps, Same, StackOK
  <2>2. ASSUME NEW c \in Range(cs) PROVE StageOK(c)' /\ HoldsOK(c)'
    BY <2>1, <1>1, <1>2 DEF StageOK, HoldsOK, Alive
  <2>3. StackOK(cs) /\ calls' = cs BY DEF Steps, Same
  <2> QED BY <2>2, <2>3, StackKept
<1>5. TeardownsIn(calls)' = TeardownsIn(calls) /\ (EngineGoing(calls)' <=> EngineGoing(calls))
  BY DEF Steps, Same, TeardownsIn, EngineGoing
<1>6. OwnersOK'
  <2>1. RegistryOK' BY <1>5 DEF RegistryOK, SessionsInv, OwnersOK
  <2>2. \A n \in 1 .. MaxSecondary : EntryOK(engine.secondary[n])'
    BY <1>1 DEF SessionsInv, OwnersOK, EntryOK
  <2>3. Alive(currentSession)' BY DEF Alive
  <2>4. OwnedOK' BY <1>1, <1>5 DEF OwnedOK, SessionsInv, OwnersOK
  <2> QED BY <2>1, <2>2, <2>3, <2>4, <1>1, <1>5 DEF OwnersOK, SessionsInv
<1>7. BindingsOK(TeardownsIn(calls))'
  <2>1. PICK T : T = TeardownsIn(calls) OBVIOUS
  <2>2. BindingsOK(T)'
    <3>1. \A c \in T : c.session \in Owners BY <2>1, TeardownFacts DEF SessionsInv
    <3>2. BindingsOK(T) BY <2>1 DEF SessionsInv
    <3> QED BY <3>1, <3>2, <1>2, <1>3, BindingsKept
  <2>3. TeardownsIn(calls)' = T BY <2>1, <1>5
  <2> QED BY <2>2, <2>3 DEF BindingsOK
<1>8. SessionsTypeOK'
  <2>1. ASSUME NEW c \in Range(calls')
        PROVE  /\ c.session \in Handles \union {Null} /\ c.prevSession \in Handles \union {Null}
               /\ c.prevEngine \in BOOLEAN
               /\ c.at \in UserCode \union {"loop", "modules", "sessions", "started", "return"}
    <3>1. c \in Frames BY <1>4 DEF StackOK, Range
    <3> QED BY <3>1 DEF Frames
  <2> QED BY <2>1, <1>1 DEF SessionsTypeOK, SessionsInv
<1> QED BY <1>4, <1>6, <1>7, <1>8 DEF SessionsInv

-----------------------------------------------------------------------------
(* Passes, and the start and the end of an application.                    *)

Walks == {"Recompose", "RecomposeAll", "EngineRecompose", "Start", "End"}

LEMMA WalkPushed ==
  ASSUME SessionsInv, NEW cs, Same(cs), NEW what \in Walks, NEW s \in Handles \union {Null},
         NEW at \in {"body", "loop", "onStart", "onEnd"}, Alive(s),
         what \in {"Start", "End"} => engine.live
  PROVE  Same(Append(cs, Call(what, s, 0, at)))
<1>1. PICK c : c = Call(what, s, 0, at) OBVIOUS
<1>2. /\ c \in Frames /\ c.call = what /\ c.at = at /\ c.session = s
      /\ c.prevEngine = currentEngine /\ (c.prevSession = Null \/ c.prevSession = currentSession)
  BY <1>1 DEF Call, Frames, Walks, UserCode, SessionsInv, SessionsTypeOK
<1>3. c.call \notin Teardowns BY <1>2 DEF Walks, Teardowns
<1>4. StageOK(c) BY <1>2, <1>3 DEF StageOK, Teardowns
<1>5. HoldsOK(c)
  <2>1. Alive(c.session) BY <1>2
  <2>2. Alive(c.prevSession) BY <1>2 DEF Alive, SessionsInv, OwnersOK
  <2>3. c.prevEngine \/ c.call \in {"Start", "End", "EngineDestroy"} => engine.live
    BY <1>2, <1>3 DEF SessionsInv, OwnersOK, Teardowns
  <2> QED BY <2>1, <2>2, <2>3 DEF HoldsOK
<1>6. /\ StackOK(Append(cs, c))
      /\ TeardownsIn(Append(cs, c)) = TeardownsIn(cs)
      /\ EngineGoing(Append(cs, c)) <=> IF cs = <<>> THEN c.call = "EngineDestroy" ELSE EngineGoing(cs)
  <2>1. c.call # "EngineDestroy" /\ c.call # "Destroy" /\ StackOK(cs)
    BY <1>3 DEF Same, Teardowns
  <2>2. /\ StackOK(Append(cs, c))
        /\ TeardownsIn(Append(cs, c)) = TeardownsIn(cs) \union (IF c.call \in Teardowns THEN {c} ELSE {})
        /\ EngineGoing(Append(cs, c)) <=> IF cs = <<>> THEN c.call = "EngineDestroy" ELSE EngineGoing(cs)
    BY ONLY <2>1, <1>2, <1>4, <1>5, PushIs
  <2> QED BY <2>2, <1>3
<1>7. EngineGoing(Append(cs, c)) <=> EngineGoing(cs)
  BY <1>6, <1>3 DEF EngineGoing, Teardowns
<1> QED BY <1>1, <1>6, <1>7 DEF Same

LEMMA WalkGoing ==
  ASSUME StackOK(calls), calls # <<>>, Top.call \notin Teardowns, NEW i \in Nat,
         NEW at \in {"loop", "return"}
  PROVE  Same(Going(at, i))
<1>1. Top \in Frames BY TopIs
<1>2. PICK c : c = [Top EXCEPT !.at = at, !.i = i] OBVIOUS
<1>3. c \in Frames /\ c.at = at /\ c.call = Top.call BY <1>1, <1>2 DEF Frames
<1>4. StageOK(c) BY <1>3 DEF StageOK, Teardowns
<1> QED BY <1>2, <1>3, <1>4, GoingIs DEF Same

LEMMA WalkReturned ==
  ASSUME StackOK(calls), calls # <<>>, Top.call \notin Teardowns
  PROVE  Same(Returned)
BY ReturnedIs DEF Same, Teardowns

LEMMA SameCalls == ASSUME SessionsInv PROVE Same(calls)
BY DEF Same, SessionsInv

\* The ambient pointers are safe to copy.
LEMMA AmbientOK ==
  ASSUME SessionsInv
  PROVE  /\ currentSession \in Handles \union {Null} /\ (currentSession # Null => session[currentSession].live)
         /\ currentEngine \in BOOLEAN /\ (currentEngine => engine.live)
         /\ \A s \in Handles : session[s].attached => session[s].live
BY DEF SessionsInv, SessionsTypeOK, OwnersOK, Alive, NoSession

\* A pass of s, or the next turn of a loop.
LEMMA PassStep ==
  ASSUME SessionsInv, NEW s \in Handles, session[s].live, NEW before, Same(before), Pass(s, before),
         UNCHANGED <<registry, session, currentEngine, module>>,
         \/ engine' = engine
         \/ engine.live /\ \E b \in BOOLEAN : engine' = [engine EXCEPT !.started = b]
  PROVE  SessionsInv'
<1>1. PICK cs : cs = Append(before, Call("Recompose", s, 0, "body")) OBVIOUS
<1>2. Same(cs) BY <1>1, WalkPushed DEF Alive, Walks
<1>3. Steps(cs) BY <1>1, <1>2 DEF Steps, Pass
<1>4. currentSession' = s BY DEF Pass
<1>5. s # Null BY SessionsAssumption
<1> QED BY <1>3, <1>4, <1>5, AmbientOK, WalkKept

LEMMA TurnStep ==
  ASSUME SessionsInv, NEW s \in Handles, NEW i \in Nat, calls # <<>>, Top.call \notin Teardowns,
         Turn(s, i), UNCHANGED <<registry, session, engine, currentEngine, module>>
  PROVE  SessionsInv'
<1>1. Same(Going("loop", i)) BY WalkGoing DEF SessionsInv
<1>2. CASE session[s].attached
  <2>1. session[s].live BY <1>2, AmbientOK
  <2>2. Pass(s, Going("loop", i)) BY <1>2 DEF Turn
  <2> QED BY <2>1, <2>2, <1>1, PassStep
<1>3. CASE ~session[s].attached
  <2>1. PICK cs : cs = Going("loop", i) OBVIOUS
  <2>2. Steps(cs) /\ currentSession' = currentSession BY <2>1, <1>1, <1>3 DEF Turn, Steps
  <2> QED BY <2>2, AmbientOK, WalkKept
<1> QED BY <1>2, <1>3

LEMMA SetCurrentSessionStep ==
  ASSUME SessionsInv, NEW s \in Handles \union {Null}, SetCurrentSession(s) PROVE SessionsInv'
<1>1. Steps(calls) BY SameCalls DEF Steps, SetCurrentSession
<1>2. s # Null => session[s].live BY DEF SetCurrentSession
<1> QED BY <1>1, <1>2, AmbientOK, WalkKept DEF SetCurrentSession

LEMMA EndPassStep ==
  ASSUME SessionsInv, NEW converged \in BOOLEAN, EndPass(converged) PROVE SessionsInv'
<1>1. calls # <<>> /\ Top.call = "Recompose" BY InCallIs DEF EndPass
<1>2. StackOK(calls) BY DEF SessionsInv
<1>3. Top \in Frames /\ HoldsOK(Top) BY <1>1, <1>2, TopIs
<1>4. PICK cs : cs = Returned OBVIOUS
<1>5. Steps(cs) BY <1>1, <1>2, <1>4, WalkReturned DEF Steps, EndPass, Teardowns
<1>6. /\ currentSession' \in Handles \union {Null}
      /\ currentSession' # Null => session[currentSession'].live
  BY <1>3, AmbientOK DEF EndPass, RestoredAfter, HoldsOK, Alive, Frames
<1>7. UNCHANGED <<registry, session, engine, currentEngine, module>> BY DEF EndPass
<1> QED BY <1>5, <1>6, <1>7, AmbientOK, WalkKept

LEMMA RecomposeStep ==
  ASSUME SessionsInv, NEW s \in Handles, Recompose(s) PROVE SessionsInv'
BY SameCalls, PassStep DEF Recompose

LEMMA BeginLoop ==
  ASSUME SessionsInv, NEW what \in {"RecomposeAll", "EngineRecompose"},
         calls' = Append(calls, Call(what, Null, 0, "loop")),
         UNCHANGED <<registry, session, engine, currentSession, currentEngine, module>>
  PROVE  SessionsInv'
<1>1. PICK cs : cs = Append(calls, Call(what, Null, 0, "loop")) OBVIOUS
<1>2. Alive(Null) BY DEF Alive
<1>3. what \in Walks /\ what \notin {"Start", "End"} BY DEF Walks
<1>4. Steps(cs) BY <1>1, <1>2, <1>3, SameCalls, WalkPushed DEF Steps
<1> QED BY <1>4, AmbientOK, WalkKept

LEMMA RecomposeAllTurnStep ==
  ASSUME SessionsInv, RecomposeAllTurn PROVE SessionsInv'
<1>1. calls # <<>> /\ Top.call \notin Teardowns BY InCallIs DEF RecomposeAllTurn, Teardowns
<1>2. Top \in Frames BY <1>1, TopIs DEF SessionsInv
<1>3. PICK i : i = Top.i + 1 /\ i \in Nat \ {0} BY <1>2 DEF Frames
<1>4. PICK S : S = [id : Ids, session : Handles] /\ registry \in Seq(S)
  BY BoundedIs, SessionsAssumption DEF SessionsInv, SessionsTypeOK
<1>5. i \in 1 .. Len(registry) BY <1>2, <1>3, <1>4 DEF RecomposeAllTurn, Frames
<1>6. registry[i] \in S BY <1>4, <1>5, ElementOfSeq
<1>7. PICK s : s = registry[i].session /\ s \in Handles BY <1>4, <1>6
<1>8. Turn(s, i) BY <1>3, <1>7 DEF RecomposeAllTurn
<1>9. UNCHANGED <<registry, session, engine, currentEngine, module>> BY DEF RecomposeAllTurn
<1> QED BY <1>1, <1>3, <1>7, <1>8, <1>9, TurnStep

LEMMA EngineTurnStep ==
  ASSUME SessionsInv, NEW n \in 0 .. MaxSecondary, EngineTurn(n) PROVE SessionsInv'
<1>1. calls # <<>> /\ Top.call \notin Teardowns BY InCallIs DEF EngineTurn, Teardowns
<1>2. PICK s : s = IF n = 0 THEN Main ELSE engine.secondary[n].session OBVIOUS
<1>3. s \in Handles
  <2>1. CASE n = 0 BY <2>1, <1>2, SessionsAssumption
  <2>2. CASE n # 0
    <3>1. n \in 1 .. MaxSecondary /\ engine.secondary[n] # NoEntry
      BY <2>2, SessionsAssumption DEF EngineTurn, Turns
    <3>2. EntryOK(engine.secondary[n]) BY <3>1 DEF SessionsInv, OwnersOK
    <3>3. engine.secondary[n].session \in Handles \union {Null}
      BY <3>1 DEF SessionsInv, SessionsTypeOK
    <3> QED BY <3>1, <3>2, <3>3, <2>2, <1>2 DEF EntryOK
  <2> QED BY <2>1, <2>2
<1>4. Turn(s, n + 1) /\ n + 1 \in Nat BY <1>2, SessionsAssumption DEF EngineTurn
<1>5. UNCHANGED <<registry, session, engine, currentEngine, module>> BY DEF EngineTurn
<1> QED BY <1>1, <1>3, <1>4, <1>5, TurnStep

LEMMA EndLoopStep ==
  ASSUME SessionsInv, EndLoop PROVE SessionsInv'
<1>1. calls # <<>> /\ Top.call \notin Teardowns BY InCallIs DEF EndLoop, Teardowns
<1>2. PICK cs : cs = Returned OBVIOUS
<1>3. Steps(cs) BY <1>1, <1>2, WalkReturned DEF Steps, EndLoop, SessionsInv
<1>4. UNCHANGED <<registry, session, engine, currentSession, currentEngine, module>>
  BY DEF EndLoop
<1> QED BY <1>3, <1>4, AmbientOK, WalkKept

\* The primary session is alive until the engine itself goes.
LEMMA MainAlive ==
  ASSUME SessionsInv, engine.live, calls = <<>> \/ ~EngineGoing(calls)
  PROVE  session[Main].live
BY DEF SessionsInv, OwnersOK, EngineGoing

LEMMA EngineStartStep ==
  ASSUME SessionsInv, EngineStart PROVE SessionsInv'
<1>1. session[Main].live /\ Main \in Handles /\ Main # Null /\ engine.live
  BY MainAlive, SessionsAssumption DEF EngineStart, InHost
<1>2. PICK cs : cs = Append(calls, Call("Start", Main, 0, "onStart")) OBVIOUS
<1>3. Same(cs) BY <1>1, <1>2, SameCalls, WalkPushed DEF Walks, Alive
<1>4. Steps(cs) BY <1>2, <1>3 DEF Steps, EngineStart
<1>5. UNCHANGED <<registry, session, engine, module>> /\ currentSession' = Main /\ currentEngine'
  BY DEF EngineStart
<1>6. currentEngine' \in BOOLEAN BY DEF EngineStart
<1> QED BY <1>1, <1>4, <1>5, <1>6, WalkKept

LEMMA StartedStep ==
  ASSUME SessionsInv, Started PROVE SessionsInv'
<1>1. calls # <<>> /\ Top.call = "Start" BY InCallIs DEF Started
<1>2. HoldsOK(Top) BY <1>1, TopIs DEF SessionsInv
<1>3. engine.live BY <1>1, <1>2 DEF HoldsOK
<1>4. Same(Going("return", 0)) BY <1>1, WalkGoing DEF SessionsInv, Teardowns
<1>5. /\ UNCHANGED <<registry, session, currentEngine, module>>
      /\ \E b \in BOOLEAN : engine' = [engine EXCEPT !.started = b]
  BY DEF Started
<1>6. CASE session[Main].attached
  <2>1. Main \in Handles /\ session[Main].live BY <1>6, AmbientOK, SessionsAssumption
  <2>2. Pass(Main, Going("return", 0)) BY <1>6 DEF Started
  <2> QED BY <2>1, <2>2, <1>3, <1>4, <1>5, PassStep
<1>7. CASE ~session[Main].attached
  <2>1. PICK cs : cs = Going("return", 0) OBVIOUS
  <2>2. Steps(cs) /\ currentSession' = currentSession BY <2>1, <1>4, <1>7 DEF Started, Steps
  <2> QED BY <2>2, <1>3, <1>5, AmbientOK, WalkKept
<1> QED BY <1>6, <1>7

LEMMA EngineEndStep ==
  ASSUME SessionsInv, EngineEnd PROVE SessionsInv'
<1>1. session[Main].live /\ Main \in Handles /\ Main # Null /\ engine.live
  BY MainAlive, SessionsAssumption DEF EngineEnd, InHost
<1>2. PICK cs : cs = Append(calls, Call("End", Main, 0, "onEnd")) OBVIOUS
<1>3. Same(cs) BY <1>1, <1>2, SameCalls, WalkPushed DEF Walks, Alive
<1>4. Steps(cs) BY <1>2, <1>3 DEF Steps, EngineEnd, End
<1>5. /\ UNCHANGED <<registry, session, engine, module>> /\ currentSession' = Main
      /\ currentEngine' = TRUE
  BY DEF EngineEnd, End
<1> QED BY <1>1, <1>4, <1>5, WalkKept

LEMMA EndedStep ==
  ASSUME SessionsInv, Ended PROVE SessionsInv'
<1>1. calls # <<>> /\ Top.call = "End" BY InCallIs DEF Ended
<1>2. HoldsOK(Top) BY <1>1, TopIs DEF SessionsInv
<1>3. engine.live BY <1>1, <1>2 DEF HoldsOK
<1>4. PICK cs : cs = Going("return", 0) OBVIOUS
<1>5. Steps(cs) BY <1>1, <1>4, WalkGoing DEF SessionsInv, Teardowns, Steps, Ended
<1>6. /\ UNCHANGED <<registry, session, currentSession, currentEngine, module>>
      /\ \E b \in BOOLEAN : engine' = [engine EXCEPT !.started = b]
  BY DEF Ended
<1> QED BY <1>3, <1>5, <1>6, AmbientOK, WalkKept

LEMMA ReturnRestoredStep ==
  ASSUME SessionsInv, ReturnRestored PROVE SessionsInv'
<1>1. calls # <<>> /\ Top.call \notin Teardowns BY InCallIs DEF ReturnRestored, Teardowns
<1>2. Top \in Frames /\ HoldsOK(Top) BY <1>1, TopIs DEF SessionsInv
<1>3. PICK cs : cs = Returned OBVIOUS
<1>4. Steps(cs) BY <1>1, <1>3, WalkReturned DEF Steps, ReturnRestored, SessionsInv
<1>5. /\ currentSession' \in Handles \union {Null}
      /\ currentSession' # Null => session[currentSession'].live
      /\ currentEngine' \in BOOLEAN /\ (currentEngine' => engine.live)
  BY <1>2 DEF ReturnRestored, HoldsOK, Alive, Frames
<1>6. UNCHANGED <<registry, session, engine, module>> BY DEF ReturnRestored
<1> QED BY <1>4, <1>5, <1>6, WalkKept

-----------------------------------------------------------------------------
(* Teardowns.                                                              *)

Tables == BoundedSeq(Binding, MaxModules)
Fates == {"new", "bound", "replaced", "gone", "twice"}
Entries == [id : Ids, session : Handles]

LEMMA TablesTyped ==
  ASSUME SessionsInv, NEW s \in Handles \union {Null}
  PROVE  /\ ModulesOf(s) \in Seq(Binding) /\ Len(ModulesOf(s)) <= MaxModules
         /\ \A k \in DOMAIN ModulesOf(s) : k \in Nat \ {0} /\ At(s, k) \in Modules
<1>1. ModulesOf(s) \in Tables BY DEF SessionsInv, SessionsTypeOK, ModulesOf, Tables
<1>2. ModulesOf(s) \in Seq(Binding) /\ Len(ModulesOf(s)) <= MaxModules
  BY <1>1, BoundedIs, SessionsAssumption DEF Tables
<1>3. ASSUME NEW k \in DOMAIN ModulesOf(s) PROVE k \in Nat \ {0} /\ At(s, k) \in Modules
  <2>1. k \in 1 .. Len(ModulesOf(s)) BY <1>2
  <2>2. ModulesOf(s)[k] \in Binding BY <1>2, <2>1, ElementOfSeq
  <2> QED BY <2>1, <2>2, <1>2 DEF At, Binding
<1> QED BY <1>2, <1>3

\* Calls begin, go on and end, sessions and the engine stay.
LEMMA CallsKept ==
  ASSUME SessionsInv, NEW cs, StackOK(cs), calls' = cs, UNCHANGED <<session, engine>>,
         engine.live /\ ~EngineGoing(cs) => session[Main].live,
         (\E c \in TeardownsIn(cs) : c.session = Main) =>
           \A n \in 1 .. MaxSecondary : engine.secondary[n] = NoEntry,
         registry' \in BoundedSeq([id : Ids, session : Handles], MaxSessions), RegistryOK',
         currentSession' \in Handles \union {Null}, currentSession' # Null => session[currentSession'].live,
         currentEngine' \in BOOLEAN, currentEngine' => engine.live,
         module' \in [Modules -> Fates], BindingsOK(TeardownsIn(cs))'
  PROVE  SessionsInv'
<1>1. \A s : ModulesOf(s)' = ModulesOf(s) BY DEF ModulesOf
<1>2. StackOK(calls)'
  <2>1. ASSUME NEW c \in Range(cs) PROVE StageOK(c) /\ HoldsOK(c)
    BY DEF Range, StackOK
  <2>2. ASSUME NEW c \in Range(cs) PROVE StageOK(c)' /\ HoldsOK(c)'
    BY <2>1, <1>1 DEF StageOK, HoldsOK, Alive
  <2> QED BY <2>2, StackKept
<1>3. TeardownsIn(calls)' = TeardownsIn(cs) /\ (EngineGoing(calls)' <=> EngineGoing(cs))
  BY DEF TeardownsIn, EngineGoing
<1>4. OwnersOK'
  <2>1. \A n \in 1 .. MaxSecondary : EntryOK(engine.secondary[n])'
    BY DEF SessionsInv, OwnersOK, EntryOK
  <2>2. Alive(currentSession)' BY DEF Alive
  <2>3. OwnedOK' BY <1>3 DEF OwnedOK, SessionsInv, OwnersOK
  <2> QED BY <2>1, <2>2, <2>3, <1>3 DEF OwnersOK, SessionsInv
<1>5. BindingsOK(TeardownsIn(calls))' BY <1>3 DEF BindingsOK
<1>6. SessionsTypeOK'
  <2>1. ASSUME NEW c \in Range(calls')
        PROVE  /\ c.session \in Handles \union {Null} /\ c.prevSession \in Handles \union {Null}
               /\ c.prevEngine \in BOOLEAN
               /\ c.at \in UserCode \union {"loop", "modules", "sessions", "started", "return"}
    <3>1. c \in Frames BY <1>2 DEF StackOK, Range
    <3> QED BY <3>1 DEF Frames
  <2> QED BY <2>1 DEF SessionsTypeOK, SessionsInv, Fates
<1> QED BY <1>2, <1>4, <1>5, <1>6 DEF SessionsInv

\* The innermost call is a teardown and becomes c: the modules at J go now.
Goes(c, at, i, J) ==
  /\ calls # <<>> /\ Top.call \in Teardowns
  /\ c = [Top EXCEPT !.at = at, !.i = i] /\ StageOK(c)
  /\ calls' = Going(at, i)
  /\ UNCHANGED <<registry, session, engine, currentSession, currentEngine>>
  /\ J \subseteq DOMAIN ModulesOf(Top.session)
  /\ \A k \in DOMAIN ModulesOf(Top.session) : HasGone(c, k) <=> HasGone(Top, k) \/ k \in J
  /\ module' \in [Modules -> Fates]
  /\ \A m \in Modules : module'[m] =
       IF \E k \in J : At(Top.session, k) = m THEN "gone" ELSE module[m]

LEMMA TeardownGoes ==
  ASSUME SessionsInv, NEW at, NEW i \in Nat, NEW c \in Frames, NEW J, Goes(c, at, i, J)
  PROVE  SessionsInv'
<1> USE DEF Goes
<1> PICK T : T = TeardownsIn(calls) OBVIOUS
<1> PICK U : U = (T \ {Top}) \union {c} OBVIOUS
<1>1. PICK cs : cs = Going(at, i) OBVIOUS
<1>2. StackOK(cs) /\ TeardownsIn(cs) = U /\ (EngineGoing(cs) <=> EngineGoing(calls))
  BY <1>1, GoingIs DEF SessionsInv
<1>3. Top \in T /\ Top \in Frames
  BY TopIs DEF TeardownsIn, Range, SessionsInv
<1>4. PICK s : s = Top.session /\ c.session = s /\ s \in Handles \union {Null}
  BY <1>3 DEF Frames
<1>5. \A d \in T : d.session \in Owners BY TeardownFacts DEF SessionsInv
<1>6. BindingsOK(T) BY DEF SessionsInv
<1>7. \A t, k : At(t, k)' = At(t, k) /\ ModulesOf(t)' = ModulesOf(t) BY DEF At, ModulesOf
<1>8. Owners' = Owners BY DEF Owners
<1>9. Owners \subseteq Handles \union {Null} BY DEF Owners
<1>10. \A t \in Owners : \A k \in DOMAIN ModulesOf(t) : At(t, k) \in Modules BY <1>9, TablesTyped
<1>11. \A t \in Owners : \A k \in DOMAIN ModulesOf(t) :
         module'[At(t, k)] = IF t = s /\ k \in J THEN "gone" ELSE module[At(t, k)]
  <2> SUFFICES ASSUME NEW t \in Owners, NEW k \in DOMAIN ModulesOf(t)
               PROVE  module'[At(t, k)] = IF t = s /\ k \in J THEN "gone" ELSE module[At(t, k)]
    OBVIOUS
  <2>1. s \in Owners BY <1>3, <1>4, <1>5
  <2>2. \A l \in J : At(s, l) = At(t, k) => s = t /\ l = k BY <2>1, <1>4, <1>6 DEF BindingsOK
  <2> QED BY <2>2, <1>4, <1>10
<1>12. \A d \in T : d.session = s => d = Top
  <2> SUFFICES ASSUME NEW d \in T, d.session = s PROVE d = Top OBVIOUS
  <2>1. PICK n \in DOMAIN calls : d = calls[n] BY DEF TeardownsIn, Range
  <2>2. PICK l : l = Len(calls) /\ l \in Nat /\ DOMAIN calls = 1 .. l /\ Top = calls[l] /\ l \in DOMAIN calls
    BY TopIs DEF SessionsInv, StackOK
  <2>3. /\ Top.call = "Destroy" => GoingOK(calls, l)
        /\ Top.call = "EngineDestroy" => l = 1
    BY <2>2 DEF SessionsInv, StackOK
  <2>4. n = l \/ n \in 1 .. l - 1 BY <2>1, <2>2
  <2>5. CASE n \in 1 .. l - 1
    <3>1. CASE Top.call = "Destroy"
      BY <3>1, <2>1, <2>2, <2>3, <2>5, <1>4 DEF GoingOK, Holding
    <3>2. CASE Top.call = "EngineDestroy" BY <3>2, <2>3, <2>5
    <3> QED BY <3>1, <3>2 DEF Teardowns
  <2> QED BY <2>1, <2>2, <2>4, <2>5
<1>13. BindingsOK(U)'
  <2>1. ASSUME NEW t \in Owners, \A d \in U : d.session # t, NEW k \in DOMAIN ModulesOf(t)
        PROVE  module'[At(t, k)] = "bound"
    <3>1. t # s /\ \A d \in T : d.session # t BY <2>1, <1>4
    <3>2. module[At(t, k)] = "bound" BY <3>1, <1>6 DEF BindingsOK
    <3> QED BY <3>1, <3>2, <1>11
  <2>2. ASSUME NEW d \in U, NEW k \in DOMAIN ModulesOf(d.session)
        PROVE  module'[At(d.session, k)] = IF HasGone(d, k) THEN "gone" ELSE "bound"
    <3>1. CASE d = c
      <4>1. module[At(s, k)] = IF HasGone(Top, k) THEN "gone" ELSE "bound"
        BY <3>1, <1>3, <1>4, <1>6 DEF BindingsOK
      <4>2. s \in Owners BY <1>3, <1>4, <1>5
      <4> QED BY <3>1, <4>1, <4>2, <1>4, <1>11
    <3>2. CASE d # c
      <4>1. d \in T /\ d # Top BY <3>2
      <4>2. d.session # s /\ d.session \in Owners BY <4>1, <1>5, <1>12
      <4>3. module[At(d.session, k)] = IF HasGone(d, k) THEN "gone" ELSE "bound"
        BY <4>1, <1>6 DEF BindingsOK
      <4> QED BY <4>2, <4>3, <1>11
    <3> QED BY <3>1, <3>2
  <2>3. ASSUME NEW x \in Owners, NEW t \in Owners, NEW k \in DOMAIN ModulesOf(x),
               NEW l \in DOMAIN ModulesOf(t), At(x, k) = At(t, l)
        PROVE  x = t /\ k = l
    BY <2>3, <1>6 DEF BindingsOK
  <2>4. ASSUME NEW m \in Modules
        PROVE  /\ module'[m] # "twice"
               /\ module'[m] = "bound" =>
                    \E t \in Owners : \E k \in DOMAIN ModulesOf(t) : At(t, k) = m
    <3>1. /\ module[m] # "twice"
          /\ module[m] = "bound" =>
               \E t \in Owners : \E k \in DOMAIN ModulesOf(t) : At(t, k) = m
      BY <1>6 DEF BindingsOK
    <3>2. module'[m] = "gone" \/ module'[m] = module[m] OBVIOUS
    <3> QED BY <3>1, <3>2
  <2>5. /\ \A t \in Owners' : (\A d \in U : d.session # t) =>
             \A k \in DOMAIN ModulesOf(t)' : module'[At(t, k)'] = "bound"
        /\ \A d \in U : \A k \in DOMAIN ModulesOf(d.session)' :
             module'[At(d.session, k)'] = IF HasGone(d, k) THEN "gone" ELSE "bound"
    BY <2>1, <2>2, <1>7, <1>8
  <2>6. \A x, t \in Owners' : \A k \in DOMAIN ModulesOf(x)', l \in DOMAIN ModulesOf(t)' :
          At(x, k)' = At(t, l)' => x = t /\ k = l
    BY <2>3, <1>7, <1>8
  <2>7. \A m \in Modules :
          /\ module'[m] # "twice"
          /\ module'[m] = "bound" =>
               \E t \in Owners' : \E k \in DOMAIN ModulesOf(t)' : At(t, k)' = m
    BY <2>4, <1>7, <1>8
  <2> QED BY <2>5, <2>6, <2>7 DEF BindingsOK
<1>14. \A d \in U : \E e \in T : e.session = d.session BY <1>3, <1>4
<1>15. RegistryOK'
  <2>1. TeardownsIn(calls)' = U BY <1>1, <1>2 DEF TeardownsIn
  <2> QED BY <2>1, <1>14 DEF RegistryOK, SessionsInv, OwnersOK
<1>16. /\ engine.live /\ ~EngineGoing(cs) => session[Main].live
       /\ (\E d \in U : d.session = Main) => \A n \in 1 .. MaxSecondary : engine.secondary[n] = NoEntry
  BY <1>2, <1>14 DEF SessionsInv, OwnersOK, OwnedOK
<1>17. registry' \in BoundedSeq([id : Ids, session : Handles], MaxSessions)
  BY DEF SessionsInv, SessionsTypeOK
<1>18. calls' = cs BY <1>1
<1> QED BY <1>2, <1>13, <1>15, <1>16, <1>17, <1>18, AmbientOK, CallsKept

LEMMA HooksFiredStep ==
  ASSUME SessionsInv, HooksFired PROVE SessionsInv'
<1>1. calls # <<>> /\ Top.call = "Destroy" /\ Top.at = "hooks" BY InCallIs DEF HooksFired
<1>2. Top \in Frames /\ StageOK(Top) BY <1>1, TopIs DEF SessionsInv
<1>3. PICK s : s = Top.session /\ s \in Handles BY <1>1, <1>2 DEF StageOK
<1>4. s # Null /\ ModulesOf(s) = session[s].modules BY <1>3, SessionsAssumption DEF ModulesOf
<1>5. PICK i : i = Len(ModulesOf(s)) /\ i \in Nat /\ DOMAIN ModulesOf(s) = 1 .. i BY <1>3, TablesTyped
<1>6. PICK c : c = [Top EXCEPT !.at = "modules", !.i = i] OBVIOUS
<1>7. /\ c \in Frames /\ c.call = "Destroy" /\ c.session = s /\ c.at = "modules" /\ c.i = i
  BY <1>1, <1>2, <1>3, <1>5, <1>6 DEF Frames
<1>8. StageOK(c) BY <1>3, <1>5, <1>7 DEF StageOK, Teardowns
<1>12. PICK J : J = {} OBVIOUS
<1>9. \A k \in DOMAIN ModulesOf(Top.session) : HasGone(c, k) <=> HasGone(Top, k) \/ k \in J
  BY <1>1, <1>3, <1>5, <1>7, <1>12 DEF HasGone
<1>10. /\ UNCHANGED <<registry, session, engine, currentSession, currentEngine>>
       /\ module' = module /\ calls' = Going("modules", i)
  BY <1>3, <1>4, <1>5 DEF HooksFired, FirstToGo
<1>11. module \in [Modules -> Fates] BY DEF SessionsInv, SessionsTypeOK, Fates
<1>13. /\ module' \in [Modules -> Fates] /\ J \in SUBSET DOMAIN ModulesOf(Top.session)
       /\ \A m \in Modules : module'[m] =
            IF \E k \in J : At(Top.session, k) = m THEN "gone" ELSE module[m]
  BY <1>10, <1>11, <1>12
<1>14. Top.call \in Teardowns BY <1>1 DEF Teardowns
<1>15. Goes(c, "modules", i, J)
  BY ONLY <1>1, <1>6, <1>8, <1>9, <1>10, <1>13, <1>14 DEF Goes
<1> QED BY <1>5, <1>7, <1>15, TeardownGoes

LEMMA CallOnDestroyStep ==
  ASSUME SessionsInv, CallOnDestroy PROVE SessionsInv'
<1>1. calls # <<>> /\ Top.call \in Teardowns /\ Top.at = "modules" /\ Top.i > 0
  BY InCallIs DEF CallOnDestroy, Teardowns
<1>2. Top \in Frames /\ StageOK(Top) BY <1>1, TopIs DEF SessionsInv
<1>3. PICK s : s = Top.session /\ s \in Handles \union {Null} BY <1>2 DEF Frames
<1>4. PICK i : i = Top.i /\ i \in Nat /\ i > 0 /\ i <= Len(ModulesOf(s))
  BY <1>1, <1>2, <1>3 DEF StageOK, Frames
<1>5. PICK n : n = Len(ModulesOf(s)) /\ n \in Nat /\ DOMAIN ModulesOf(s) = 1 .. n BY <1>3, TablesTyped
<1>6. PICK c : c = [Top EXCEPT !.at = "callback", !.i = i] OBVIOUS
<1>7. /\ c \in Frames /\ c.call = Top.call /\ c.session = s /\ c.prevSession = Top.prevSession
      /\ c.at = "callback" /\ c.i = i
  BY <1>2, <1>3, <1>4, <1>6 DEF Frames, UserCode
<1>8. StageOK(c) BY <1>1, <1>2, <1>3, <1>4, <1>7 DEF StageOK, Teardowns
<1>19. PICK J : J = {i} OBVIOUS
<1>9. \A k \in DOMAIN ModulesOf(Top.session) : HasGone(c, k) <=> HasGone(Top, k) \/ k \in J
  BY <1>1, <1>3, <1>4, <1>5, <1>7, <1>19 DEF HasGone
<1>10. PICK gone : gone = At(s, i) OBVIOUS
<1>11. i \in DOMAIN ModulesOf(s) BY <1>4, <1>5
<1>12. gone \in Modules BY <1>3, <1>10, <1>11, TablesTyped
<1>13. module[gone] = "bound"
  <2>1. Top \in TeardownsIn(calls) BY <1>1, TopIs DEF TeardownsIn, Range, SessionsInv
  <2>2. ~HasGone(Top, i) BY <1>1, <1>4 DEF HasGone
  <2> QED BY <2>1, <2>2, <1>3, <1>10, <1>11 DEF SessionsInv, BindingsOK
<1>14. module' = [module EXCEPT ![gone] = "gone"]
  BY <1>3, <1>4, <1>10, <1>13 DEF CallOnDestroy, At
<1>15. /\ UNCHANGED <<registry, session, engine, currentSession, currentEngine>>
       /\ calls' = Going("callback", i)
  BY <1>4 DEF CallOnDestroy
<1>16. module \in [Modules -> Fates] BY DEF SessionsInv, SessionsTypeOK, Fates
<1>17. /\ module' \in [Modules -> Fates]
       /\ \A m \in Modules : module'[m] =
            IF \E k \in J : At(Top.session, k) = m THEN "gone" ELSE module[m]
  BY <1>3, <1>10, <1>12, <1>14, <1>16, <1>19 DEF Fates
<1>18. J \in SUBSET DOMAIN ModulesOf(Top.session) BY <1>3, <1>11, <1>19
<1>20. Goes(c, "callback", i, J)
  BY ONLY <1>1, <1>6, <1>8, <1>9, <1>15, <1>17, <1>18 DEF Goes
<1> QED BY <1>4, <1>7, <1>20, TeardownGoes

LEMMA NextModuleStep ==
  ASSUME SessionsInv, NextModule PROVE SessionsInv'
<1>1. calls # <<>> /\ Top.call \in Teardowns /\ Top.at = "callback"
  BY InCallIs DEF NextModule, Teardowns
<1>2. Top \in Frames /\ StageOK(Top) BY <1>1, TopIs DEF SessionsInv
<1>3. PICK s : s = Top.session /\ s \in Handles \union {Null} BY <1>2 DEF Frames
<1>4. PICK n : n = Len(ModulesOf(s)) /\ n \in Nat /\ DOMAIN ModulesOf(s) = 1 .. n BY <1>3, TablesTyped
<1>5. PICK i : i = Top.i - 1 /\ i \in Nat /\ Top.i \in Nat /\ i < n
  BY <1>1, <1>2, <1>3, <1>4 DEF StageOK, Frames
<1>6. PICK c : c = [Top EXCEPT !.at = "modules", !.i = i] OBVIOUS
<1>7. /\ c \in Frames /\ c.call = Top.call /\ c.session = s /\ c.prevSession = Top.prevSession
      /\ c.at = "modules" /\ c.i = i
  BY <1>2, <1>3, <1>5, <1>6 DEF Frames
<1>8. StageOK(c) BY <1>1, <1>2, <1>3, <1>4, <1>5, <1>7 DEF StageOK, Teardowns
<1>12. PICK J : J = {} OBVIOUS
<1>9. \A k \in DOMAIN ModulesOf(Top.session) : HasGone(c, k) <=> HasGone(Top, k) \/ k \in J
  BY <1>1, <1>3, <1>4, <1>5, <1>7, <1>12 DEF HasGone
<1>10. /\ UNCHANGED <<registry, session, engine, currentSession, currentEngine>>
       /\ module' = module /\ calls' = Going("modules", i)
  BY <1>5 DEF NextModule
<1>11. module \in [Modules -> Fates] BY DEF SessionsInv, SessionsTypeOK, Fates
<1>13. /\ module' \in [Modules -> Fates] /\ J \in SUBSET DOMAIN ModulesOf(Top.session)
       /\ \A m \in Modules : module'[m] =
            IF \E k \in J : At(Top.session, k) = m THEN "gone" ELSE module[m]
  BY <1>10, <1>11, <1>12
<1>14. Top.call \in Teardowns BY <1>1 DEF Teardowns
<1>15. Goes(c, "modules", i, J)
  BY ONLY <1>1, <1>6, <1>8, <1>9, <1>10, <1>13, <1>14 DEF Goes
<1> QED BY <1>5, <1>7, <1>15, TeardownGoes

\* CelsEngineDestroy is at work itself, not a destruction it has called.
LEMMA EngineTop ==
  ASSUME SessionsInv, calls # <<>>, Top.call = "EngineDestroy"
  PROVE  /\ DOMAIN calls = {1} /\ calls[1] = Top /\ Top.session = Null /\ Top.prevSession = Null
         /\ TeardownsIn(calls) = {Top} /\ EngineGoing(calls) /\ Returned = <<>> /\ engine.live
         /\ Top \in Frames
<1>1. PICK n : n = Len(calls) /\ n \in Nat \ {0} /\ DOMAIN calls = 1 .. n /\ Top = calls[n]
  BY TopIs DEF SessionsInv, StackOK
<1>2. n = 1 BY <1>1 DEF SessionsInv, StackOK
<1>3. StageOK(Top) /\ HoldsOK(Top) /\ Top \in Frames BY TopIs DEF SessionsInv
<1>4. Returned = <<>> /\ EngineGoing(calls) BY ReturnedIs DEF SessionsInv
<1>5. DOMAIN calls = {1} /\ calls[1] = Top BY <1>1, <1>2
<1>6. TeardownsIn(calls) = {Top} BY <1>5 DEF TeardownsIn, Range, Teardowns
<1> QED BY <1>3, <1>4, <1>5, <1>6 DEF StageOK, HoldsOK

\* A session begins to go.
LEMMA DestroyBegins ==
  ASSUME SessionsInv, NEW s \in Handles, session[s].live,
         \A k \in DOMAIN calls : ~Holding(calls[k], s),
         session[s].engine => OfEngine(calls, Len(calls) + 1),
         s = Main => \A n \in 1 .. MaxSecondary : engine.secondary[n] = NoEntry,
         calls' = Append(calls, Call("Destroy", s, 0, "hooks")), currentSession' = s,
         UNCHANGED <<session, engine, currentEngine, module>>,
         registry' \in BoundedSeq([id : Ids, session : Handles], MaxSessions),
         \A k \in DOMAIN registry' : \E j \in DOMAIN registry : registry'[k] = registry[j],
         \A k, l \in DOMAIN registry' : registry'[k].session = registry'[l].session => k = l,
         \A k \in DOMAIN registry' : registry'[k].session # s
  PROVE  SessionsInv'
<1>1. PICK T : T = TeardownsIn(calls) OBVIOUS
<1>2. PICK c : c = Call("Destroy", s, 0, "hooks") OBVIOUS
<1>3. s # Null BY SessionsAssumption
<1>4. /\ c \in Frames /\ c.call = "Destroy" /\ c.at = "hooks" /\ c.session = s
      /\ c.prevEngine = currentEngine /\ c.prevSession = currentSession
  BY <1>2, <1>3 DEF Call, Frames, UserCode, Teardowns, SessionsInv, SessionsTypeOK
<1>5. StageOK(c) BY <1>4 DEF StageOK, Teardowns
<1>6. HoldsOK(c)
  <2>1. Alive(c.session) BY <1>4 DEF Alive
  <2>2. Alive(c.prevSession) BY <1>4 DEF SessionsInv, OwnersOK
  <2>3. c.prevEngine => engine.live BY <1>4 DEF SessionsInv, OwnersOK
  <2> QED BY <2>1, <2>2, <2>3, <1>4 DEF HoldsOK
<1>7. PICK cs : cs = Append(calls, c) OBVIOUS
<1>8. /\ StackOK(cs) /\ TeardownsIn(cs) = T \union {c}
      /\ EngineGoing(calls) => EngineGoing(cs)
  <2>1. StackOK(calls) /\ c.call # "EngineDestroy" BY <1>4 DEF SessionsInv
  <2>2. \A k \in DOMAIN calls : ~Holding(calls[k], c.session) BY <1>4
  <2>3. session[c.session].engine => OfEngine(calls, Len(calls) + 1) BY <1>4
  <2>4. /\ StackOK(cs)
        /\ TeardownsIn(cs) = TeardownsIn(calls) \union (IF c.call \in Teardowns THEN {c} ELSE {})
        /\ EngineGoing(cs) <=> IF calls = <<>> THEN c.call = "EngineDestroy" ELSE EngineGoing(calls)
    BY ONLY <2>1, <2>2, <2>3, <1>4, <1>5, <1>6, <1>7, PushIs
  <2> QED BY <2>4, <1>1, <1>4 DEF Teardowns, EngineGoing
<1>9. calls' = cs BY <1>2, <1>7
<1>10. \A d \in T : d.session # s BY <1>1 DEF TeardownsIn, Range, Holding
<1>11. /\ engine.live /\ ~EngineGoing(cs) => session[Main].live
       /\ (\E d \in TeardownsIn(cs) : d.session = Main) =>
            \A n \in 1 .. MaxSecondary : engine.secondary[n] = NoEntry
  BY <1>1, <1>4, <1>8 DEF SessionsInv, OwnersOK, OwnedOK
<1>12. RegistryOK'
  <2>1. \A d \in T \union {c} : \A k \in DOMAIN registry' : registry'[k].session # d.session
    BY <1>1, <1>4 DEF SessionsInv, OwnersOK, RegistryOK
  <2>2. TeardownsIn(calls)' = T \union {c} BY <1>8, <1>9 DEF TeardownsIn
  <2>3. \A k \in DOMAIN registry' :
          session[registry'[k].session].live /\ ~session[registry'[k].session].engine
    BY DEF SessionsInv, OwnersOK, RegistryOK
  <2> QED BY <2>1, <2>2, <2>3 DEF RegistryOK
<1>13. BindingsOK(T \union {c})
  <2>1. BindingsOK(T) BY <1>1 DEF SessionsInv
  <2>2. s \in Owners BY DEF Owners
  <2>3. \A k \in DOMAIN ModulesOf(s) : module[At(s, k)] = "bound" BY <2>1, <2>2, <1>10 DEF BindingsOK
  <2>4. \A k : ~HasGone(c, k) BY <1>4 DEF HasGone
  <2>5. \A d \in T \union {c} : \A k \in DOMAIN ModulesOf(d.session) :
          module[At(d.session, k)] = IF HasGone(d, k) THEN "gone" ELSE "bound"
    BY <2>1, <2>3, <2>4, <1>4 DEF BindingsOK
  <2>6. \A t \in Owners : (\A d \in T \union {c} : d.session # t) =>
          \A k \in DOMAIN ModulesOf(t) : module[At(t, k)] = "bound"
    BY <2>1 DEF BindingsOK
  <2> QED BY <2>1, <2>5, <2>6 DEF BindingsOK
<1>14. BindingsOK(TeardownsIn(cs))'
  <2>1. PICK U : U = T \union {c} OBVIOUS
  <2>2. BindingsOK(U)' BY <1>13, <2>1 DEF BindingsOK, Owners, ModulesOf, At
  <2> QED BY <2>1, <2>2, <1>8 DEF BindingsOK, TeardownsIn
<1>15. module' \in [Modules -> Fates] BY DEF SessionsInv, SessionsTypeOK, Fates
<1> QED BY <1>3, <1>8, <1>9, <1>11, <1>12, <1>14, <1>15, AmbientOK, CallsKept

\* No call of the stack holds what Held leaves out.
LEMMA NotHeld ==
  ASSUME NEW s, s \notin Held PROVE \A k \in DOMAIN calls : ~Holding(calls[k], s)
BY DEF Held, Holding, Range

LEMMA CarefulDestroyStep ==
  ASSUME SessionsInv, NEW s \in Handles, CarefulDestroy(s) PROVE SessionsInv'
<1>1. PICK S : S = [id : Ids, session : Handles] /\ registry \in Seq(S) /\ Len(registry) <= MaxSessions
  BY BoundedIs, SessionsAssumption DEF SessionsInv, SessionsTypeOK
<1>2. \A k, l \in DOMAIN registry : registry[k].session = registry[l].session => k = l
  BY DEF SessionsInv, OwnersOK, RegistryOK
<1>3. PICK q : q = Remaining(s) OBVIOUS
<1>4. /\ q \in Seq(S) /\ Len(q) <= MaxSessions
      /\ \A k \in DOMAIN q : \E j \in DOMAIN registry : q[k] = registry[j]
      /\ \A k, l \in DOMAIN q : q[k].session = q[l].session => k = l
      /\ \A k \in DOMAIN q : q[k].session # s
  <2>1. CASE q = registry /\ \A k \in DOMAIN registry : registry[k].session # s
    BY <2>1, <1>1, <1>2
  <2>2. CASE \E n \in DOMAIN registry : registry[n].session = s /\ q = RemoveAt(registry, n)
    <3>1. PICK n \in DOMAIN registry : registry[n].session = s /\ q = RemoveAt(registry, n) BY <2>2
    <3>2. PICK m : m = Len(registry) /\ m \in Nat /\ DOMAIN registry = 1 .. m BY <1>1
    <3>3. /\ q \in Seq(S) /\ Len(q) = m - 1
          /\ \A k \in 1 .. m - 1 : q[k] = IF k < n THEN registry[k] ELSE registry[k + 1]
      BY <3>1, <3>2, <1>1, RemoveAtIs
    <3>4. DOMAIN q = 1 .. m - 1 /\ n \in 1 .. m BY <3>1, <3>2, <3>3
    <3>5. PICK old : old = [k \in 1 .. m - 1 |-> IF k < n THEN k ELSE k + 1] OBVIOUS
    <3>6. ASSUME NEW k \in 1 .. m - 1
          PROVE  old[k] \in 1 .. m /\ old[k] # n /\ q[k] = registry[old[k]]
      BY <3>2, <3>3, <3>4, <3>5
    <3>7. ASSUME NEW k \in 1 .. m - 1, NEW l \in 1 .. m - 1, old[k] = old[l] PROVE k = l
      BY <3>2, <3>4, <3>5, <3>7
    <3>8. \A k \in DOMAIN q : \E j \in DOMAIN registry : q[k] = registry[j] BY <3>2, <3>4, <3>6
    <3>9. ASSUME NEW k \in DOMAIN q, NEW l \in DOMAIN q, q[k].session = q[l].session PROVE k = l
      <4>1. old[k] = old[l] BY <3>9, <3>2, <3>4, <3>6, <1>2
      <4> QED BY <4>1, <3>4, <3>7
    <3>10. \A k \in DOMAIN q : q[k].session # s BY <3>1, <3>2, <3>4, <3>6, <1>2
    <3>11. Len(q) <= MaxSessions BY <3>2, <3>3, <1>1, SessionsAssumption
    <3> QED BY <3>3, <3>8, <3>9, <3>10, <3>11
  <2> QED BY <2>1, <2>2, <1>1, <1>3, RemainingIs
<1>5. registry' = q BY <1>3 DEF CarefulDestroy
<1>6. registry' \in BoundedSeq([id : Ids, session : Handles], MaxSessions)
  BY <1>1, <1>4, <1>5, BoundedIs, SessionsAssumption
<1>7. \A k \in DOMAIN calls : ~Holding(calls[k], s) BY NotHeld DEF CarefulDestroy
<1>8. /\ session[s].live /\ ~session[s].engine
      /\ calls' = Append(calls, Call("Destroy", s, 0, "hooks")) /\ currentSession' = s
      /\ UNCHANGED <<session, engine, currentEngine, module>>
  BY DEF CarefulDestroy, SessionDestroy, SessionTeardown, UserDestroy, BeginDestroy
<1>9. s # Main BY <1>8 DEF SessionsInv, OwnersOK
<1>10. /\ \A k \in DOMAIN registry' : \E j \in DOMAIN registry : registry'[k] = registry[j]
       /\ \A k, l \in DOMAIN registry' : registry'[k].session = registry'[l].session => k = l
       /\ \A k \in DOMAIN registry' : registry'[k].session # s
  BY <1>4, <1>5
<1> QED BY <1>6, <1>7, <1>8, <1>9, <1>10, DestroyBegins

LEMMA DestroyOwnedStep ==
  ASSUME SessionsInv, NEW s \in Handles, DestroyOwned(s) PROVE SessionsInv'
<1>1. calls # <<>> /\ Top.at = "sessions" /\ Top.call = "EngineDestroy"
  BY InCallIs DEF DestroyOwned
<1>2. DOMAIN calls = {1} /\ calls[1] = Top /\ Top.session = Null /\ Top.prevSession = Null /\ EngineGoing(calls)
  BY <1>1, EngineTop
<1>3. s # Null BY SessionsAssumption
<1>4. \A k \in DOMAIN calls : ~Holding(calls[k], s) BY <1>2, <1>3 DEF Holding
<1>5. session[s].live /\ session[s].engine
  <2>1. CASE s = Main /\ session[s].live BY <2>1 DEF SessionsInv, OwnersOK
  <2>2. CASE \E n \in 1 .. MaxSecondary : engine.secondary[n].session = s
    <3>1. PICK n \in 1 .. MaxSecondary : engine.secondary[n].session = s BY <2>2
    <3>2. EntryOK(engine.secondary[n]) BY DEF SessionsInv, OwnersOK
    <3>3. engine.secondary[n] # NoEntry BY <3>1, <1>3 DEF NoEntry
    <3> QED BY <3>1, <3>2, <3>3 DEF EntryOK
  <2> QED BY <2>1, <2>2 DEF DestroyOwned
<1>6. s = Main => \A n \in 1 .. MaxSecondary : engine.secondary[n] = NoEntry
  <2>1. ASSUME s = Main, NEW n \in 1 .. MaxSecondary, engine.secondary[n].session = s PROVE FALSE
    <3>1. EntryOK(engine.secondary[n]) BY DEF SessionsInv, OwnersOK
    <3>2. engine.secondary[n] # NoEntry BY <2>1, SessionsAssumption DEF NoEntry
    <3> QED BY <2>1, <3>1, <3>2 DEF EntryOK
  <2> QED BY <2>1 DEF DestroyOwned
<1>7. /\ calls' = Append(calls, Call("Destroy", s, 0, "hooks")) /\ currentSession' = s
      /\ UNCHANGED <<registry, session, engine, currentEngine, module>>
  BY DEF DestroyOwned, BeginDestroy
<1>8. /\ registry \in BoundedSeq([id : Ids, session : Handles], MaxSessions)
      /\ \A k, l \in DOMAIN registry : registry[k].session = registry[l].session => k = l
      /\ \A k \in DOMAIN registry : registry[k].session # s
  BY <1>5 DEF SessionsInv, SessionsTypeOK, OwnersOK, RegistryOK
<1>9. Len(calls) = 1 BY <1>2 DEF SessionsInv, StackOK
<1>10. OfEngine(calls, Len(calls) + 1) BY <1>1, <1>2, <1>9 DEF OfEngine
<1> QED BY <1>4, <1>5, <1>6, <1>7, <1>8, <1>10, DestroyBegins

LEMMA EngineDestroyStep ==
  ASSUME SessionsInv, EngineDestroy PROVE SessionsInv'
<1>1. calls = <<>> /\ engine.live BY DEF EngineDestroy, InHost
<1>2. PICK c : c = Teardown OBVIOUS
<1>3. PICK i : i = Len(engine.modules) /\ i \in Nat /\ DOMAIN engine.modules = 1 .. i
  <2>1. ModulesOf(Null) = engine.modules BY DEF ModulesOf
  <2> QED BY <2>1, TablesTyped
<1>4. /\ c \in Frames /\ c.call = "EngineDestroy" /\ c.session = Null /\ c.prevSession = Null
      /\ c.at = "modules" /\ c.i = i /\ c.prevEngine = currentEngine
  BY <1>2, <1>3 DEF Teardown, Call, FirstToGo, Frames, Teardowns, SessionsInv, SessionsTypeOK
<1>5. StageOK(c) BY <1>3, <1>4 DEF StageOK, Teardowns, ModulesOf
<1>6. HoldsOK(c) BY <1>1, <1>4 DEF HoldsOK, Alive
<1>7. PICK bs : bs = Append(calls, c) OBVIOUS
<1>8. StackOK(bs) /\ TeardownsIn(bs) = {c} /\ EngineGoing(bs)
  <2>1. StackOK(calls) /\ TeardownsIn(calls) = {} BY <1>1 DEF SessionsInv, TeardownsIn, Range
  <2>2. /\ StackOK(bs)
        /\ TeardownsIn(bs) = TeardownsIn(calls) \union (IF c.call \in Teardowns THEN {c} ELSE {})
        /\ EngineGoing(bs) <=> IF calls = <<>> THEN c.call = "EngineDestroy" ELSE EngineGoing(calls)
    BY ONLY <2>1, <1>1, <1>4, <1>5, <1>6, <1>7, PushIs
  <2> QED BY <2>1, <2>2, <1>1, <1>4 DEF Teardowns
<1>9. PICK cs : /\ StackOK(cs) /\ TeardownsIn(cs) = {c} /\ EngineGoing(cs) /\ calls' = cs
                /\ UNCHANGED <<registry, session, engine, module>>
                /\ currentSession' \in {Main, currentSession} /\ currentEngine' \in {TRUE, currentEngine}
                /\ currentSession' = Main => session[Main].live
  <2>1. CASE ~engine.started
    <3>1. currentSession' = Main => session[Main].live
      BY <2>1, SessionsAssumption, AmbientOK DEF EngineDestroy
    <3> QED BY <2>1, <3>1, <1>2, <1>7, <1>8 DEF EngineDestroy
  <2>2. CASE engine.started
    <3>1. PICK d : d = Call("End", Main, 0, "onEnd") OBVIOUS
    <3>2. session[Main].live /\ Main \in Handles /\ Main # Null BY <1>1, MainAlive, SessionsAssumption
    <3>3. /\ d \in Frames /\ d.call = "End" /\ d.at = "onEnd" /\ d.session = Main
          /\ d.prevSession = currentSession /\ d.prevEngine = currentEngine
      BY <3>1, <3>2 DEF Call, Frames, UserCode, SessionsInv, SessionsTypeOK
    <3>4. StageOK(d) BY <3>3 DEF StageOK, Teardowns
    <3>5. HoldsOK(d) BY <3>2, <3>3, <1>1 DEF HoldsOK, Alive, SessionsInv, OwnersOK
    <3>6. bs # <<>> BY <1>8 DEF EngineGoing
    <3>7. PICK cs : cs = Append(bs, d) OBVIOUS
    <3>8. d.call # "EngineDestroy" /\ d.call # "Destroy" /\ d.call \notin Teardowns BY <3>3 DEF Teardowns
    <3>9. /\ StackOK(cs)
          /\ TeardownsIn(cs) = TeardownsIn(bs) \union (IF d.call \in Teardowns THEN {d} ELSE {})
          /\ EngineGoing(cs) <=> IF bs = <<>> THEN d.call = "EngineDestroy" ELSE EngineGoing(bs)
      BY ONLY <1>8, <3>3, <3>4, <3>5, <3>7, <3>8, PushIs
    <3>10. TeardownsIn(cs) = {c} /\ EngineGoing(cs) BY <3>6, <3>8, <3>9, <1>8
    <3>11. /\ calls' = cs /\ UNCHANGED <<registry, session, engine, module>>
           /\ currentSession' = Main /\ currentEngine' = TRUE
      BY <2>2, <3>1, <3>7, <1>2, <1>7 DEF EngineDestroy, End
    <3> QED BY <3>2, <3>9, <3>10, <3>11
  <2> QED BY <2>1, <2>2
<1>10. c.session # Main BY <1>4, SessionsAssumption
<1>11. RegistryOK'
  <2>1. TeardownsIn(calls)' = {c} BY <1>9 DEF TeardownsIn
  <2>2. registry \in Seq([id : Ids, session : Handles])
    BY BoundedIs, SessionsAssumption DEF SessionsInv, SessionsTypeOK
  <2>3. PICK S : S = [id : Ids, session : Handles] OBVIOUS
  <2>4. \A k \in DOMAIN registry : registry[k].session # Null
    <3>1. registry \in Seq(S) BY <2>2, <2>3
    <3>2. ASSUME NEW k \in DOMAIN registry PROVE registry[k].session # Null
      <4>1. k \in 1 .. Len(registry) BY <3>1
      <4>2. registry[k] \in S BY <3>1, <4>1, ElementOfSeq
      <4> QED BY <4>2, <2>3, SessionsAssumption
    <3> QED BY <3>2
  <2>5. /\ \A k \in DOMAIN registry :
             session[registry[k].session].live /\ ~session[registry[k].session].engine
        /\ \A k, l \in DOMAIN registry : registry[k].session = registry[l].session => k = l
    BY DEF SessionsInv, OwnersOK, RegistryOK
  <2> QED BY <2>1, <2>4, <2>5, <1>4, <1>9 DEF RegistryOK
<1>12. BindingsOK({c})
  <2>1. BindingsOK({})
    <3>1. TeardownsIn(calls) = {} BY <1>1 DEF TeardownsIn, Range
    <3> QED BY <3>1 DEF SessionsInv
  <2>2. \A s \in Owners : \A k \in DOMAIN ModulesOf(s) : module[At(s, k)] = "bound"
    BY <2>1 DEF BindingsOK
  <2>3. Null \in Owners /\ ModulesOf(Null) = engine.modules BY <1>1 DEF Owners, ModulesOf
  <2>4. \A k \in DOMAIN ModulesOf(Null) : ~HasGone(c, k) BY <2>3, <1>3, <1>4 DEF HasGone
  <2>5. \A d \in {c} : \A k \in DOMAIN ModulesOf(d.session) :
          module[At(d.session, k)] = IF HasGone(d, k) THEN "gone" ELSE "bound"
    BY <2>2, <2>3, <2>4, <1>4
  <2> QED BY <2>1, <2>2, <2>5 DEF BindingsOK
<1>13. BindingsOK(TeardownsIn(cs))'
  <2>1. PICK U : U = {c} OBVIOUS
  <2>2. BindingsOK(U)' BY <1>9, <1>12, <2>1 DEF BindingsOK, Owners, ModulesOf, At
  <2> QED BY <2>1, <2>2, <1>9 DEF BindingsOK, TeardownsIn
<1>14. /\ currentSession' \in Handles \union {Null}
       /\ currentSession' # Null => session[currentSession'].live
       /\ currentEngine' \in BOOLEAN /\ (currentEngine' => engine.live)
  BY <1>1, <1>9, AmbientOK, SessionsAssumption
<1>15. /\ registry' \in BoundedSeq([id : Ids, session : Handles], MaxSessions)
       /\ module' \in [Modules -> Fates]
  BY <1>9 DEF SessionsInv, SessionsTypeOK, Fates
<1> QED BY <1>9, <1>10, <1>11, <1>13, <1>14, <1>15, CallsKept

LEMMA EmptyTable == <<>> \in Tables
<1>1. <<>> \in Seq(Binding) /\ Len(<<>>) = 0 OBVIOUS
<1>2. MaxModules \in Nat /\ 0 <= MaxModules BY SessionsAssumption
<1> QED BY <1>1, <1>2, BoundedIs DEF Tables

LEMMA CallsTyped ==
  ASSUME StackOK(calls)'
  PROVE  \A c \in Range(calls') :
           /\ c.session \in Handles \union {Null} /\ c.prevSession \in Handles \union {Null}
           /\ c.prevEngine \in BOOLEAN
           /\ c.at \in UserCode \union {"loop", "modules", "sessions", "started", "return"}
<1> SUFFICES ASSUME NEW c \in Range(calls')
             PROVE  /\ c.session \in Handles \union {Null} /\ c.prevSession \in Handles \union {Null}
                    /\ c.prevEngine \in BOOLEAN
                    /\ c.at \in UserCode \union {"loop", "modules", "sessions", "started", "return"}
  OBVIOUS
<1>1. c \in Frames BY DEF StackOK, Range
<1> QED BY <1>1 DEF Frames

LEMMA ModulesGoneStep ==
  ASSUME SessionsInv, ModulesGone PROVE SessionsInv'
<1>1. calls # <<>> /\ Top.call = "EngineDestroy" /\ Top.at = "modules" /\ Top.i = 0
  BY InCallIs DEF ModulesGone
<1>2. PICK b : b = Top OBVIOUS
<1>3. /\ DOMAIN calls = {1} /\ calls[1] = b /\ b.session = Null /\ b.prevSession = Null
      /\ TeardownsIn(calls) = {b} /\ EngineGoing(calls) /\ engine.live /\ b \in Frames
      /\ calls \in Seq(Frames) /\ b.call = "EngineDestroy" /\ b.at = "modules" /\ b.i = 0
  BY <1>1, <1>2, EngineTop DEF SessionsInv, StackOK
<1>4. PICK c : c = [b EXCEPT !.at = "sessions", !.i = 0] OBVIOUS
<1>5. /\ c \in Frames /\ c.call = "EngineDestroy" /\ c.session = Null /\ c.prevSession = Null
      /\ c.at = "sessions"
  BY <1>3, <1>4 DEF Frames
<1>6. PICK cs : cs = Going("sessions", 0) OBVIOUS
<1>7. cs \in Seq(Frames) /\ DOMAIN cs = {1} /\ cs[1] = c /\ cs # <<>>
  <2>1. Len(calls) = 1 BY <1>3
  <2>2. cs = [calls EXCEPT ![1] = c] BY <2>1, <1>3, <1>4, <1>6 DEF Going
  <2>3. PICK n : n = Len(calls) /\ n \in Nat \ {0} /\ DOMAIN calls = 1 .. n BY <1>3
  <2>4. cs = [calls EXCEPT ![n] = c] BY <2>1, <2>2, <2>3
  <2>5. /\ cs \in Seq(Frames) /\ DOMAIN cs = 1 .. n /\ cs[n] = c /\ cs # <<>>
    BY <2>3, <2>4, <1>3, <1>5
  <2> QED BY <2>1, <2>3, <2>5, <1>3
<1>8. TeardownsIn(cs) = {c} BY <1>5, <1>7 DEF TeardownsIn, Range, Teardowns
<1>9. EngineGoing(cs) BY <1>5, <1>7 DEF EngineGoing
<1>10. /\ engine'.modules = <<>> /\ engine'.live = engine.live /\ engine'.secondary = engine.secondary
       /\ UNCHANGED <<registry, session, currentSession, currentEngine, module>> /\ calls' = cs
  BY <1>6 DEF ModulesGone, SessionsInv, SessionsTypeOK
<1>11. StackOK(calls)'
  <2>1. StageOK(c)' BY <1>5, <1>10 DEF StageOK, Teardowns
  <2>2. HoldsOK(c)' BY <1>3, <1>5, <1>10 DEF HoldsOK, Alive
  <2> QED BY <2>1, <2>2, <1>5, <1>7, <1>10 DEF StackOK
<1>12. TeardownsIn(calls)' = {c} /\ EngineGoing(calls)' BY <1>8, <1>9, <1>10 DEF TeardownsIn, EngineGoing
<1>13. OwnersOK'
  <2>1. \A n \in 1 .. MaxSecondary : EntryOK(engine.secondary[n])'
    BY <1>10 DEF SessionsInv, OwnersOK, EntryOK
  <2>2. Alive(currentSession)' BY <1>10 DEF Alive, SessionsInv, OwnersOK
  <2>3. OwnedOK'
    <3>1. c.session # Main BY <1>5, SessionsAssumption
    <3> QED BY <3>1, <1>10, <1>12 DEF OwnedOK, SessionsInv, OwnersOK
  <2>4. RegistryOK' BY <1>3, <1>5, <1>10, <1>12 DEF RegistryOK, SessionsInv, OwnersOK
  <2> QED BY <2>1, <2>2, <2>3, <2>4, <1>3, <1>10, <1>12 DEF OwnersOK, SessionsInv
<1>14. BindingsOK({c})'
  <2>1. BindingsOK({b}) BY <1>3 DEF SessionsInv
  <2>2. Owners' = Owners /\ Null \in Owners BY <1>3, <1>10 DEF Owners
  <2>3. \A s \in Owners : s # Null => ModulesOf(s)' = ModulesOf(s) BY <1>10 DEF ModulesOf
  <2>4. ModulesOf(Null)' = <<>> BY <1>10 DEF ModulesOf
  <2>5. \A s \in Owners : s # Null => \A k : At(s, k)' = At(s, k) BY <2>3 DEF At
  <2>6. \A s \in Owners : \A k \in DOMAIN ModulesOf(s)' : s # Null /\ k \in DOMAIN ModulesOf(s)
    BY <2>3, <2>4
  <2>7. ASSUME NEW s \in Owners, NEW k \in DOMAIN ModulesOf(s)' PROVE module'[At(s, k)'] = "bound"
    <3>1. s # Null /\ k \in DOMAIN ModulesOf(s) BY <2>6
    <3>2. module[At(s, k)] = "bound" BY <3>1, <2>1, <1>3 DEF BindingsOK
    <3> QED BY <3>1, <3>2, <2>5, <1>10
  <2>8. \A d \in {c} : \A k \in DOMAIN ModulesOf(d.session)' :
          module'[At(d.session, k)'] = IF HasGone(d, k) THEN "gone" ELSE "bound"
    BY <2>4, <1>5
  <2>9. ASSUME NEW s \in Owners, NEW t \in Owners, NEW k \in DOMAIN ModulesOf(s)',
               NEW l \in DOMAIN ModulesOf(t)', At(s, k)' = At(t, l)'
        PROVE  s = t /\ k = l
    <3>1. At(s, k) = At(t, l) /\ k \in DOMAIN ModulesOf(s) /\ l \in DOMAIN ModulesOf(t)
      BY <2>5, <2>6, <2>9
    <3> QED BY <3>1, <2>1 DEF BindingsOK
  <2>10. ASSUME NEW m \in Modules
         PROVE  /\ module'[m] # "twice"
                /\ module'[m] = "bound" =>
                     \E s \in Owners : \E k \in DOMAIN ModulesOf(s)' : At(s, k)' = m
    <3>1. module[m] # "twice" BY <2>1 DEF BindingsOK
    <3>2. ASSUME module[m] = "bound"
          PROVE  \E s \in Owners : \E k \in DOMAIN ModulesOf(s)' : At(s, k)' = m
      <4>1. PICK s \in Owners : \E k \in DOMAIN ModulesOf(s) : At(s, k) = m
        BY <2>1, <3>2 DEF BindingsOK
      <4>2. PICK k \in DOMAIN ModulesOf(s) : At(s, k) = m BY <4>1
      <4>3. s # Null
        <5>1. SUFFICES ASSUME s = Null PROVE FALSE OBVIOUS
        <5>2. k > 0 BY <4>2, <5>1, TablesTyped
        <5>3. HasGone(b, k) BY <5>2, <1>3 DEF HasGone
        <5>4. module[At(b.session, k)] = "gone" BY <5>1, <5>3, <4>2, <2>1, <1>3 DEF BindingsOK
        <5> QED BY <5>1, <5>4, <4>2, <3>2, <1>3
      <4> QED BY <4>2, <4>3, <2>3, <2>5
    <3> QED BY <3>1, <3>2, <1>10
  <2>11. PICK U : U = {c} OBVIOUS
  <2>12. BindingsOK(U)'
    BY <2>2, <2>7, <2>8, <2>9, <2>10, <2>11 DEF BindingsOK
  <2> QED BY <2>11, <2>12
<1>15. BindingsOK(TeardownsIn(calls))' BY <1>12, <1>14 DEF BindingsOK
<1>16. SessionsTypeOK'
  <2>1. <<>> \in Tables BY EmptyTable
  <2>2. engine' = [engine EXCEPT !.modules = <<>>] BY DEF ModulesGone
  <2> QED BY <2>1, <2>2, <1>10, <1>11, CallsTyped DEF SessionsTypeOK, SessionsInv, Tables
<1> QED BY <1>11, <1>13, <1>15, <1>16 DEF SessionsInv

LEMMA EndEngineDestroyStep ==
  ASSUME SessionsInv, EndEngineDestroy PROVE SessionsInv'
<1>1. calls # <<>> /\ Top.call = "EngineDestroy" /\ Top.at = "sessions"
  BY InCallIs DEF EndEngineDestroy
<1>2. StageOK(Top) BY <1>1, TopIs DEF SessionsInv
<1>3. engine.modules = <<>> BY <1>1, <1>2 DEF StageOK
<1>4. TeardownsIn(calls) = {Top} /\ Top.session = Null /\ Returned = <<>> /\ engine.live
  BY <1>1, EngineTop
<1>5. /\ ~session[Main].live /\ engine' = NoEngine /\ currentEngine' = FALSE /\ calls' = <<>>
      /\ UNCHANGED <<registry, session, currentSession, module>>
  BY <1>4 DEF EndEngineDestroy
<1>6. StackOK(calls)' BY <1>5 DEF StackOK
<1>7. TeardownsIn(calls)' = {} BY <1>5 DEF TeardownsIn, Range
<1>8. /\ engine'.live = FALSE /\ engine'.modules = <<>>
      /\ \A n \in 1 .. MaxSecondary : engine'.secondary[n] = NoEntry
  BY <1>5 DEF NoEngine
<1>9. \A s \in Handles : session[s].live => ~session[s].engine
  <2>1. \A n \in 1 .. MaxSecondary : engine.secondary[n] = NoEntry
    BY <1>5 DEF SessionsInv, OwnersOK, OwnedOK
  <2>2. \A n \in 1 .. MaxSecondary : engine.secondary[n].session = Null BY <2>1 DEF NoEntry
  <2> QED BY <2>2, <1>5, SessionsAssumption DEF SessionsInv, OwnersOK, OwnedOK
<1>10. OwnersOK'
  <2>1. \A n \in 1 .. MaxSecondary : EntryOK(engine.secondary[n])' BY <1>8 DEF EntryOK
  <2>2. Alive(currentSession)' BY <1>5 DEF Alive, SessionsInv, OwnersOK
  <2>3. OwnedOK' BY <1>5, <1>8, <1>9 DEF OwnedOK
  <2>4. RegistryOK' BY <1>5, <1>7 DEF RegistryOK, SessionsInv, OwnersOK
  <2> QED BY <2>1, <2>2, <2>3, <2>4, <1>5, <1>8 DEF OwnersOK, SessionsInv
<1>11. BindingsOK({})'
  <2>1. BindingsOK({Top}) BY <1>4 DEF SessionsInv
  <2>2. Owners = Owners' \union {Null} /\ Null \notin Owners'
    BY <1>4, <1>5, <1>8, SessionsAssumption DEF Owners
  <2>3. \A s \in Owners' : s # Null /\ s \in Owners /\ ModulesOf(s)' = ModulesOf(s)
    BY <2>2, <1>5 DEF ModulesOf
  <2>4. ModulesOf(Null) = <<>> BY <1>3 DEF ModulesOf
  <2>5. \A s \in Owners' : \A k : At(s, k)' = At(s, k) BY <2>3 DEF At
  <2>6. ASSUME NEW s \in Owners', NEW k \in DOMAIN ModulesOf(s)' PROVE module'[At(s, k)'] = "bound"
    <3>1. s # Null /\ s \in Owners /\ k \in DOMAIN ModulesOf(s) BY <2>3
    <3>2. module[At(s, k)] = "bound" BY <3>1, <2>1, <1>4 DEF BindingsOK
    <3> QED BY <3>2, <2>5, <1>5
  <2>7. ASSUME NEW s \in Owners', NEW t \in Owners', NEW k \in DOMAIN ModulesOf(s)',
               NEW l \in DOMAIN ModulesOf(t)', At(s, k)' = At(t, l)'
        PROVE  s = t /\ k = l
    <3>1. /\ At(s, k) = At(t, l) /\ s \in Owners /\ t \in Owners
          /\ k \in DOMAIN ModulesOf(s) /\ l \in DOMAIN ModulesOf(t)
      BY <2>3, <2>5, <2>7
    <3> QED BY <3>1, <2>1 DEF BindingsOK
  <2>8. ASSUME NEW m \in Modules
        PROVE  /\ module'[m] # "twice"
               /\ module'[m] = "bound" =>
                    \E s \in Owners' : \E k \in DOMAIN ModulesOf(s)' : At(s, k)' = m
    <3>1. module[m] # "twice" BY <2>1 DEF BindingsOK
    <3>2. ASSUME module[m] = "bound"
          PROVE  \E s \in Owners' : \E k \in DOMAIN ModulesOf(s)' : At(s, k)' = m
      <4>1. PICK s \in Owners : \E k \in DOMAIN ModulesOf(s) : At(s, k) = m
        BY <2>1, <3>2 DEF BindingsOK
      <4>2. PICK k \in DOMAIN ModulesOf(s) : At(s, k) = m BY <4>1
      <4>3. s # Null BY <4>2, <2>4
      <4>4. s \in Owners' BY <4>3, <2>2
      <4> QED BY <4>2, <4>4, <2>3, <2>5
    <3> QED BY <3>1, <3>2, <1>5
  <2> QED BY <2>6, <2>7, <2>8 DEF BindingsOK
<1>12. BindingsOK(TeardownsIn(calls))' BY <1>7, <1>11 DEF BindingsOK
<1>13. SessionsTypeOK'
  <2>1. <<>> \in Tables BY EmptyTable
  <2>2. NoEngine \in [live : BOOLEAN, started : BOOLEAN,
                      modules : BoundedSeq(Binding, MaxModules),
                      secondary : [1 .. MaxSecondary ->
                        [name : Names \union {Null}, session : Handles \union {Null}]]]
    BY <2>1 DEF NoEngine, NoEntry, Tables
  <2> QED BY <2>2, <1>5, <1>6, CallsTyped DEF SessionsTypeOK, SessionsInv
<1> QED BY <1>6, <1>10, <1>12, <1>13 DEF SessionsInv

LEMMA EndDestroyStep ==
  ASSUME SessionsInv, EndDestroy PROVE SessionsInv'
<1>1. calls # <<>> /\ Top.call = "Destroy" /\ Top.at = "modules" /\ Top.i = 0
  BY InCallIs DEF EndDestroy
<1>2. PICK b : b = Top OBVIOUS
<1>3. b \in Frames /\ StageOK(b) /\ HoldsOK(b) BY <1>1, <1>2, TopIs DEF SessionsInv
<1>4. PICK s : s = b.session /\ s \in Handles /\ s # Null
  BY <1>1, <1>2, <1>3, SessionsAssumption DEF StageOK
<1>5. PICK T : T = TeardownsIn(calls) OBVIOUS
<1>6. PICK cs : cs = Returned OBVIOUS
<1>7. /\ StackOK(cs) /\ TeardownsIn(cs) = T \ {b} /\ (EngineGoing(cs) <=> EngineGoing(calls))
      /\ \A k \in DOMAIN cs : ~Holding(cs[k], s)
      /\ b \in T
  <2>1. /\ StackOK(cs) /\ TeardownsIn(cs) = T \ {b} /\ (EngineGoing(cs) <=> EngineGoing(calls))
        /\ \A k \in DOMAIN cs : ~Holding(cs[k], s)
    BY <1>1, <1>2, <1>4, <1>5, <1>6, ReturnedIs DEF SessionsInv, Teardowns
  <2>2. b \in T BY <1>1, <1>2, <1>5, TopIs DEF SessionsInv, TeardownsIn, Range, Teardowns
  <2> QED BY <2>1, <2>2
<1>8. \A d \in T \ {b} : d.session # s BY <1>7 DEF TeardownsIn, Range, Holding
<1>9. /\ session' = [session EXCEPT ![s] = NoSession] /\ calls' = cs
      /\ currentSession' = Unbound(b.prevSession, s)
      /\ engine' = [engine EXCEPT !.secondary = [n \in 1 .. MaxSecondary |->
                      IF engine.secondary[n].session = s THEN NoEntry ELSE engine.secondary[n]]]
      /\ UNCHANGED <<registry, currentEngine, module>>
  <2>1. /\ session' = [session EXCEPT ![s] = NoSession] /\ calls' = cs
        /\ currentSession' = Unbound(b.prevSession, s)
        /\ UNCHANGED <<registry, currentEngine, module>>
    BY <1>2, <1>4, <1>6 DEF EndDestroy
  <2>2. PICK sec : sec = [n \in 1 .. MaxSecondary |->
            IF engine.secondary[n].session = s THEN NoEntry ELSE engine.secondary[n]]
    OBVIOUS
  <2>3. engine' = IF ByEngine THEN [engine EXCEPT !.secondary = sec] ELSE engine
    BY <2>2, <1>2, <1>4 DEF EndDestroy
  <2>4. ASSUME ~ByEngine, NEW n \in 1 .. MaxSecondary PROVE engine.secondary[n].session # s
    <3> SUFFICES ASSUME engine.secondary[n].session = s PROVE FALSE OBVIOUS
    <3>1. EntryOK(engine.secondary[n]) /\ engine.secondary[n] # NoEntry
      BY <1>4 DEF SessionsInv, OwnersOK, NoEntry
    <3>2. session[s].engine BY <3>1 DEF EntryOK
    <3>3. PICK l : l = Len(calls) /\ l \in DOMAIN calls /\ calls[l] = b /\ DOMAIN calls = 1 .. l
                   /\ l \in Nat
      BY <1>1, <1>2, TopIs DEF SessionsInv, StackOK
    <3>4. GoingOK(calls, l) BY <3>3, <1>1, <1>2 DEF SessionsInv, StackOK
    <3>5. OfEngine(calls, l) BY <3>2, <3>3, <3>4, <1>4 DEF GoingOK
    <3>6. ByEngine BY <3>3, <3>5 DEF ByEngine, OfEngine
    <3> QED BY <3>6, <2>4
  <2>5. ASSUME ~ByEngine PROVE engine' = [engine EXCEPT !.secondary = sec]
    <3>1. engine.secondary = sec
      <4>1. \A n \in 1 .. MaxSecondary : sec[n] = engine.secondary[n] BY <2>2, <2>4, <2>5
      <4>2. DOMAIN engine.secondary = 1 .. MaxSecondary
            /\ engine.secondary = [n \in 1 .. MaxSecondary |-> engine.secondary[n]]
        BY DEF SessionsInv, SessionsTypeOK
      <4> QED BY <4>1, <4>2, <2>2
    <3>2. engine = [engine EXCEPT !.secondary = sec] BY <3>1 DEF SessionsInv, SessionsTypeOK
    <3> QED BY <3>2, <2>3, <2>5
  <2>6. engine' = [engine EXCEPT !.secondary = sec] BY <2>3, <2>5
  <2> QED BY <2>1, <2>2, <2>6
<1>10. session \in [Handles -> [live : BOOLEAN, engine : BOOLEAN, attached : BOOLEAN,
                                modules : BoundedSeq(Binding, MaxModules)]]
  BY DEF SessionsInv, SessionsTypeOK
<1>11. session'[s] = NoSession /\ \A t \in Handles : t # s => session'[t] = session[t]
  BY <1>4, <1>9, <1>10
<1>12. /\ engine'.live = engine.live /\ engine'.modules = engine.modules
       /\ engine'.started = engine.started
       /\ engine'.secondary = [n \in 1 .. MaxSecondary |->
            IF engine.secondary[n].session = s THEN NoEntry ELSE engine.secondary[n]]
       /\ engine' \in [live : BOOLEAN, started : BOOLEAN,
                       modules : BoundedSeq(Binding, MaxModules),
                       secondary : [1 .. MaxSecondary ->
                         [name : Names \union {Null}, session : Handles \union {Null}]]]
  <2>1. engine \in [live : BOOLEAN, started : BOOLEAN,
                    modules : BoundedSeq(Binding, MaxModules),
                    secondary : [1 .. MaxSecondary ->
                      [name : Names \union {Null}, session : Handles \union {Null}]]]
    BY DEF SessionsInv, SessionsTypeOK
  <2>2. NoEntry \in [name : Names \union {Null}, session : Handles \union {Null}] BY DEF NoEntry
  <2>3. PICK sec : sec = [n \in 1 .. MaxSecondary |->
            IF engine.secondary[n].session = s THEN NoEntry ELSE engine.secondary[n]]
    OBVIOUS
  <2>4. sec \in [1 .. MaxSecondary -> [name : Names \union {Null}, session : Handles \union {Null}]]
    BY <2>1, <2>2, <2>3
  <2>5. engine' = [engine EXCEPT !.secondary = sec] BY <2>3, <1>9
  <2> QED BY <2>1, <2>3, <2>4, <2>5
<1>13. \A n \in 1 .. MaxSecondary : engine'.secondary[n] = NoEntry \/
         (engine'.secondary[n] = engine.secondary[n] /\ engine.secondary[n].session # s)
  BY <1>12
<1>14. \A t : t # s => (Alive(t) /\ t \in Handles \union {Null} => Alive(t)')
  BY <1>11 DEF Alive
<1>15. StackOK(calls)'
  <2>1. ASSUME NEW c \in Range(cs)
        PROVE  /\ StageOK(c)' /\ HoldsOK(c)'
               /\ c.call = "Destroy" => session'[c.session].engine = session[c.session].engine
    <3>1. PICK k \in DOMAIN cs : c = cs[k] BY DEF Range
    <3>2. c \in Frames /\ StageOK(c) /\ HoldsOK(c) /\ c.session # s /\ c.prevSession # s
      BY <3>1, <1>7 DEF StackOK, Holding
    <3>3. c.session \in Handles \union {Null} /\ c.prevSession \in Handles \union {Null}
      BY <3>2 DEF Frames
    <3>4. ModulesOf(c.session)' = ModulesOf(c.session) BY <3>2, <3>3, <1>11, <1>12 DEF ModulesOf
    <3>5. StageOK(c)' BY <3>2, <3>4, <1>12 DEF StageOK
    <3>6. HoldsOK(c)' BY <3>2, <3>3, <1>12, <1>14 DEF HoldsOK
    <3>7. c.call = "Destroy" => session'[c.session].engine = session[c.session].engine
      BY <3>2, <1>11 DEF StageOK
    <3> QED BY <3>5, <3>6, <3>7
  <2> QED BY <2>1, <1>7, <1>9, StackKept
<1>16. TeardownsIn(calls)' = T \ {b} /\ (EngineGoing(calls)' <=> EngineGoing(calls))
  BY <1>7, <1>9 DEF TeardownsIn, EngineGoing
<1>17. \A k \in DOMAIN registry : registry[k].session # s /\ registry[k].session \in Handles
  <2>1. PICK S : S = [id : Ids, session : Handles] /\ registry \in Seq(S)
    BY BoundedIs, SessionsAssumption DEF SessionsInv, SessionsTypeOK
  <2>2. ASSUME NEW k \in DOMAIN registry PROVE registry[k].session \in Handles
    <3>1. k \in 1 .. Len(registry) BY <2>1
    <3>2. registry[k] \in S BY <2>1, <3>1, ElementOfSeq
    <3> QED BY <3>2, <2>1
  <2> QED BY <2>2, <1>4, <1>5, <1>7 DEF SessionsInv, OwnersOK, RegistryOK
<1>18. OwnersOK'
  <2>1. RegistryOK'
    BY <1>5, <1>9, <1>11, <1>16, <1>17 DEF RegistryOK, SessionsInv, OwnersOK
  <2>2. ASSUME NEW n \in 1 .. MaxSecondary PROVE EntryOK(engine.secondary[n])'
    <3>1. EntryOK(engine.secondary[n]) BY DEF SessionsInv, OwnersOK
    <3>2. engine.secondary[n].session \in Handles \union {Null} BY DEF SessionsInv, SessionsTypeOK
    <3> QED BY <3>1, <3>2, <1>11, <1>13 DEF EntryOK
  <2>3. Alive(currentSession)'
    <3>1. Alive(b.prevSession) /\ b.prevSession \in Handles \union {Null} BY <1>3 DEF HoldsOK, Frames
    <3>2. currentSession' = Null \/ (currentSession' = b.prevSession /\ b.prevSession # s)
      BY <1>9 DEF Unbound
    <3> QED BY <3>1, <3>2, <1>11 DEF Alive
  <2>4. OwnedOK'
    <3>1. ASSUME NEW t \in Handles, session'[t].live, session'[t].engine
          PROVE  /\ engine'.live
                 /\ t = Main \/ \E n \in 1 .. MaxSecondary : engine'.secondary[n].session = t
      <4>1. t # s /\ session[t].live /\ session[t].engine BY <3>1, <1>11 DEF NoSession
      <4>2. engine.live /\ (t = Main \/ \E n \in 1 .. MaxSecondary : engine.secondary[n].session = t)
        BY <4>1 DEF SessionsInv, OwnersOK, OwnedOK
      <4> QED BY <4>1, <4>2, <1>12
    <3>2. ASSUME (\E c \in T \ {b} : c.session = Main) \/ ~session'[Main].live
          PROVE  \A n \in 1 .. MaxSecondary : engine'.secondary[n] = NoEntry
      <4>1. (\E c \in T : c.session = Main) \/ ~session[Main].live
        <5>1. CASE s = Main BY <5>1, <1>4, <1>7
        <5>2. CASE s # Main BY <5>2, <3>2, <1>11, SessionsAssumption
        <5> QED BY <5>1, <5>2
      <4>2. \A n \in 1 .. MaxSecondary : engine.secondary[n] = NoEntry
        BY <4>1, <1>5 DEF SessionsInv, OwnersOK, OwnedOK
      <4> QED BY <4>2, <1>13
    <3> QED BY <3>1, <3>2, <1>16 DEF OwnedOK
  <2>5. \A t \in Handles : ~session'[t].live => session'[t] = NoSession
    BY <1>11 DEF SessionsInv, OwnersOK
  <2>6. ~engine'.live => engine' = NoEngine
    <3> SUFFICES ASSUME ~engine.live PROVE engine' = NoEngine BY <1>12
    <3>1. engine = NoEngine BY DEF SessionsInv, OwnersOK
    <3>2. \A n \in 1 .. MaxSecondary : engine.secondary[n] = NoEntry BY <3>1 DEF NoEngine
    <3>3. \A n \in 1 .. MaxSecondary : engine'.secondary[n] = NoEntry BY <3>2, <1>13
    <3>4. engine'.secondary = [n \in 1 .. MaxSecondary |-> NoEntry] BY <3>3, <1>12
    <3> QED BY <3>1, <3>4, <1>12 DEF NoEngine
  <2>7. /\ session'[Main].live => session'[Main].engine /\ engine'.live
        /\ engine'.live /\ ~EngineGoing(calls)' => session'[Main].live
    <3>1. CASE s = Main
      <4>1. session[s].live BY <1>3, <1>4 DEF HoldsOK, Alive
      <4>2. session[s].engine BY <3>1, <4>1 DEF SessionsInv, OwnersOK
      <4>3. EngineGoing(calls)
        <5>1. PICK k \in DOMAIN calls : b = calls[k] BY <1>1, <1>2, TopIs DEF SessionsInv
        <5>2. GoingOK(calls, k) BY <5>1, <1>1, <1>2 DEF SessionsInv, StackOK
        <5> QED BY <5>1, <5>2, <4>2, <1>1, <1>4 DEF GoingOK, OfEngine, EngineGoing
      <4> QED BY <3>1, <4>3, <1>11, <1>16 DEF NoSession
    <3>2. CASE s # Main
      BY <3>2, <1>11, <1>12, <1>16, SessionsAssumption DEF SessionsInv, OwnersOK
    <3> QED BY <3>1, <3>2
  <2>8. currentEngine' => engine'.live BY <1>9, <1>12 DEF SessionsInv, OwnersOK
  <2> QED BY <2>1, <2>2, <2>3, <2>4, <2>5, <2>6, <2>7, <2>8 DEF OwnersOK
<1>19. BindingsOK(T \ {b})'
  <2>1. BindingsOK(T) BY <1>5 DEF SessionsInv
  <2>2. s \in Owners /\ Owners' = Owners \ {s}
    <3>1. session[s].live BY <1>3, <1>4 DEF HoldsOK, Alive
    <3>2. \A t \in Handles : session'[t].live <=> t # s /\ session[t].live
      BY <1>11 DEF NoSession
    <3> QED BY <3>1, <3>2, <1>4, <1>12 DEF Owners
  <2>3. \A t \in Owners' : t \in Owners /\ t # s /\ ModulesOf(t)' = ModulesOf(t)
    BY <2>2, <1>11, <1>12 DEF ModulesOf, Owners
  <2>4. \A t \in Owners' : \A k : At(t, k)' = At(t, k) BY <2>3 DEF At
  <2>5. ASSUME NEW t \in Owners', \A c \in T \ {b} : c.session # t, NEW k \in DOMAIN ModulesOf(t)'
        PROVE  module'[At(t, k)'] = "bound"
    <3>1. t \in Owners /\ k \in DOMAIN ModulesOf(t) /\ \A c \in T : c.session # t
      BY <2>3, <2>5, <1>4
    <3>2. module[At(t, k)] = "bound" BY <3>1, <2>1 DEF BindingsOK
    <3> QED BY <3>2, <2>4, <1>9
  <2>6. ASSUME NEW c \in T \ {b}, NEW k \in DOMAIN ModulesOf(c.session)'
        PROVE  module'[At(c.session, k)'] = IF HasGone(c, k) THEN "gone" ELSE "bound"
    <3>1. c.session \in Owners'
      <4>1. c.session \in Owners /\ c.session # s BY <1>5, <1>8, TeardownFacts DEF SessionsInv
      <4> QED BY <4>1, <2>2
    <3>2. k \in DOMAIN ModulesOf(c.session) BY <3>1, <2>3
    <3>3. module[At(c.session, k)] = IF HasGone(c, k) THEN "gone" ELSE "bound"
      BY <3>2, <2>1 DEF BindingsOK
    <3> QED BY <3>1, <3>3, <2>4, <1>9
  <2>7. ASSUME NEW x \in Owners', NEW t \in Owners', NEW k \in DOMAIN ModulesOf(x)',
               NEW l \in DOMAIN ModulesOf(t)', At(x, k)' = At(t, l)'
        PROVE  x = t /\ k = l
    <3>1. /\ At(x, k) = At(t, l) /\ x \in Owners /\ t \in Owners
          /\ k \in DOMAIN ModulesOf(x) /\ l \in DOMAIN ModulesOf(t)
      BY <2>3, <2>4, <2>7
    <3> QED BY <3>1, <2>1 DEF BindingsOK
  <2>8. ASSUME NEW m \in Modules
        PROVE  /\ module'[m] # "twice"
               /\ module'[m] = "bound" =>
                    \E t \in Owners' : \E k \in DOMAIN ModulesOf(t)' : At(t, k)' = m
    <3>1. module[m] # "twice" BY <2>1 DEF BindingsOK
    <3>2. ASSUME module[m] = "bound"
          PROVE  \E t \in Owners' : \E k \in DOMAIN ModulesOf(t)' : At(t, k)' = m
      <4>1. PICK t \in Owners : \E k \in DOMAIN ModulesOf(t) : At(t, k) = m
        BY <2>1, <3>2 DEF BindingsOK
      <4>2. PICK k \in DOMAIN ModulesOf(t) : At(t, k) = m BY <4>1
      <4>3. t # s
        <5>1. SUFFICES ASSUME t = s PROVE FALSE OBVIOUS
        <5>2. k > 0 BY <4>2, <5>1, <1>4, TablesTyped
        <5>3. HasGone(b, k) BY <5>2, <1>1, <1>2 DEF HasGone
        <5>4. module[At(b.session, k)] = "gone" BY <5>1, <5>3, <4>2, <2>1, <1>4, <1>7 DEF BindingsOK
        <5> QED BY <5>1, <5>4, <4>2, <3>2, <1>4
      <4>4. t \in Owners' BY <4>3, <2>2
      <4> QED BY <4>2, <4>4, <2>3, <2>4
    <3> QED BY <3>1, <3>2, <1>9
  <2>9. PICK U : U = T \ {b} OBVIOUS
  <2>10. BindingsOK(U)' BY <2>5, <2>6, <2>7, <2>8, <2>9 DEF BindingsOK
  <2> QED BY <2>9, <2>10
<1>20. BindingsOK(TeardownsIn(calls))' BY <1>16, <1>19 DEF BindingsOK
<1>21. SessionsTypeOK'
  <2>1. session' \in [Handles -> [live : BOOLEAN, engine : BOOLEAN, attached : BOOLEAN,
                                  modules : BoundedSeq(Binding, MaxModules)]]
    <3>1. NoSession \in [live : BOOLEAN, engine : BOOLEAN, attached : BOOLEAN,
                         modules : BoundedSeq(Binding, MaxModules)]
      BY EmptyTable DEF NoSession, Tables
    <3> QED BY <3>1, <1>9, <1>10
  <2>2. currentSession' \in Handles \union {Null} BY <1>3, <1>9 DEF Unbound, Frames
  <2> QED BY <2>1, <2>2, <1>9, <1>12, <1>15, CallsTyped DEF SessionsTypeOK, SessionsInv
<1> QED BY <1>15, <1>18, <1>20, <1>21 DEF SessionsInv

-----------------------------------------------------------------------------
(* Creation and registration, while nothing is torn down.                  *)

LEMMA QuietIs ==
  ASSUME SessionsInv, ~TearingDown
  PROVE  /\ TeardownsIn(calls) = {} /\ ~EngineGoing(calls)
         /\ \A c \in Range(calls) : c \in Frames /\ StageOK(c) /\ HoldsOK(c) /\ c.call \notin Teardowns
<1>1. \A c \in Range(calls) : c.call \notin Teardowns BY DEF TearingDown, Teardowns
<1>2. \A c \in Range(calls) : c \in Frames /\ StageOK(c) /\ HoldsOK(c)
  BY DEF SessionsInv, StackOK, Range
<1>3. ~EngineGoing(calls)
  <2>1. ASSUME EngineGoing(calls) PROVE FALSE
    <3>1. calls # <<>> /\ calls \in Seq(Frames) BY <2>1 DEF EngineGoing, SessionsInv, StackOK
    <3>2. 1 \in DOMAIN calls BY <3>1
    <3> QED BY <2>1, <3>2, <1>1 DEF EngineGoing, Range, Teardowns
  <2> QED BY <2>1
<1> QED BY <1>1, <1>2, <1>3 DEF TeardownsIn

\* Calls that are in progress go on when nothing goes away.
LEMMA QuietStack ==
  ASSUME SessionsInv, ~TearingDown, calls' = calls, engine.live => engine'.live,
         \A s \in Handles : session[s].live => session'[s].live
  PROVE  StackOK(calls)' /\ TeardownsIn(calls)' = {} /\ ~EngineGoing(calls)'
<1>1. PICK cs : cs = calls OBVIOUS
<1>2. ASSUME NEW c \in Range(cs)
      PROVE  /\ StageOK(c)' /\ HoldsOK(c)'
             /\ c.call = "Destroy" => session'[c.session].engine = session[c.session].engine
  <2>1. c \in Frames /\ StageOK(c) /\ HoldsOK(c) /\ c.call \notin Teardowns BY <1>1, <1>2, QuietIs
  <2>2. StageOK(c)' BY <2>1 DEF StageOK, Teardowns
  <2>3. HoldsOK(c)' BY <2>1 DEF HoldsOK, Alive, Frames
  <2> QED BY <2>1, <2>2, <2>3 DEF Teardowns
<1>3. StackOK(cs) /\ calls' = cs BY <1>1 DEF SessionsInv
<1>4. StackOK(calls)' BY <1>2, <1>3, StackKept
<1> QED BY <1>4, QuietIs DEF TeardownsIn, EngineGoing

SessionType == [live : BOOLEAN, engine : BOOLEAN, attached : BOOLEAN,
                modules : BoundedSeq(Binding, MaxModules)]
EngineType == [live : BOOLEAN, started : BOOLEAN, modules : BoundedSeq(Binding, MaxModules),
               secondary : [1 .. MaxSecondary ->
                 [name : Names \union {Null}, session : Handles \union {Null}]]]

\* Nothing is lost, and what is new has no modules yet.
LEMMA Created ==
  ASSUME SessionsInv, ~TearingDown, calls' = calls, module' = module, OwnersOK',
         engine.live => engine'.live, ~engine.live \/ engine'.modules = engine.modules,
         engine.live \/ engine'.modules = <<>>,
         \A s \in Handles : session[s].live =>
           session'[s].live /\ session'[s].modules = session[s].modules,
         \A s \in Handles : ~session[s].live => session'[s].modules = <<>>,
         registry' \in BoundedSeq([id : Ids, session : Handles], MaxSessions),
         session' \in [Handles -> SessionType], engine' \in EngineType,
         currentSession' \in Handles \union {Null}, currentEngine' \in BOOLEAN
  PROVE  SessionsInv'
<1>1. StackOK(calls)' /\ TeardownsIn(calls)' = {} BY QuietStack
<1>2. BindingsOK({}) BY QuietIs DEF SessionsInv
<1>3. Owners \subseteq Owners' BY DEF Owners
<1>4. \A s \in Owners : ModulesOf(s)' = ModulesOf(s) BY SessionsAssumption DEF Owners, ModulesOf
<1>5. \A s \in Owners' : s \in Owners \/ ModulesOf(s)' = <<>>
  BY SessionsAssumption DEF Owners, ModulesOf
<1>6. BindingsOK({})'
  <2>1. PICK T : T = {} OBVIOUS
  <2>2. BindingsOK(T) /\ \A c \in T : c.session \in Owners BY <2>1, <1>2
  <2>3. BindingsOK(T)' BY <2>2, <1>3, <1>4, <1>5, BindingsKept
  <2> QED BY <2>1, <2>3
<1>7. BindingsOK(TeardownsIn(calls))' BY <1>1, <1>6 DEF BindingsOK
<1>8. SessionsTypeOK'
  BY <1>1, CallsTyped DEF SessionsTypeOK, SessionsInv, SessionType, EngineType
<1> QED BY <1>1, <1>7, <1>8 DEF SessionsInv

LEMMA TypesOf ==
  ASSUME SessionsInv
  PROVE  /\ registry \in BoundedSeq([id : Ids, session : Handles], MaxSessions)
         /\ session \in [Handles -> SessionType] /\ engine \in EngineType
         /\ currentSession \in Handles \union {Null} /\ currentEngine \in BOOLEAN
BY DEF SessionsInv, SessionsTypeOK, SessionType, EngineType

LEMMA NewIs ==
  ASSUME NEW owned \in BOOLEAN
  PROVE  /\ NewSession(owned) \in SessionType /\ NewSession(owned).live
         /\ NewSession(owned).engine = owned /\ NewSession(owned).modules = <<>>
BY EmptyTable DEF NewSession, NoSession, SessionType, Tables

\* The sessions of the registry are in memory.
LEMMA RegisteredIs ==
  ASSUME SessionsInv, NEW k \in DOMAIN registry PROVE registry[k].session \in Handles
<1>1. PICK S : S = [id : Ids, session : Handles] /\ registry \in Seq(S)
  BY BoundedIs, SessionsAssumption DEF SessionsInv, SessionsTypeOK
<1>2. k \in 1 .. Len(registry) BY <1>1
<1>3. registry[k] \in S BY <1>1, <1>2, ElementOfSeq
<1> QED BY <1>1, <1>3

LEMMA EngineInitStep ==
  ASSUME SessionsInv, EngineInit PROVE SessionsInv'
<1>1. /\ calls = <<>> /\ ~engine.live /\ engine' = [NoEngine EXCEPT !.live = TRUE]
      /\ session' = [session EXCEPT ![Main] = NewSession(TRUE)] /\ currentEngine' = TRUE
      /\ UNCHANGED <<registry, currentSession, calls, module>>
  BY DEF EngineInit, InHost
<1>2. ~TearingDown BY <1>1 DEF TearingDown, Range
<1>3. /\ NoEngine \in EngineType /\ engine' \in EngineType /\ engine'.live /\ engine'.modules = <<>>
      /\ \A n \in 1 .. MaxSecondary : engine'.secondary[n] = NoEntry
  <2>1. NoEngine \in EngineType BY EmptyTable DEF NoEngine, NoEntry, EngineType, Tables
  <2> QED BY <2>1, <1>1 DEF NoEngine, EngineType
<1>4. ~session[Main].live /\ Main \in Handles /\ Main # Null
  BY <1>1, SessionsAssumption DEF SessionsInv, OwnersOK
<1>5. /\ session'[Main] = NewSession(TRUE) /\ \A s \in Handles : s # Main => session'[s] = session[s]
      /\ session' \in [Handles -> SessionType]
  BY <1>1, <1>4, TypesOf, NewIs
<1>6. TeardownsIn(calls)' = {} /\ TeardownsIn(calls) = {} /\ ~EngineGoing(calls)'
  BY <1>1 DEF TeardownsIn, Range, EngineGoing
<1>7. session'[Main].live /\ session'[Main].engine /\ session'[Main].modules = <<>> BY <1>5, NewIs
<1>8. OwnersOK'
  <2>1. RegistryOK'
    <3>1. \A k \in DOMAIN registry : registry[k].session \in Handles /\ registry[k].session # Main
      BY <1>4, RegisteredIs DEF SessionsInv, OwnersOK, RegistryOK
    <3> QED BY <3>1, <1>1, <1>5, <1>6 DEF RegistryOK, SessionsInv, OwnersOK
  <2>2. \A n \in 1 .. MaxSecondary : EntryOK(engine.secondary[n])' BY <1>3 DEF EntryOK
  <2>3. Alive(currentSession)' BY <1>1, <1>5, <1>7, TypesOf DEF Alive, SessionsInv, OwnersOK
  <2>4. OwnedOK'
    <3>1. ASSUME NEW t \in Handles, session'[t].live, session'[t].engine PROVE engine'.live /\ t = Main
      <4>1. t # Main => session[t].live /\ session[t].engine BY <3>1, <1>5
      <4> QED BY <4>1, <1>1, <1>3 DEF SessionsInv, OwnersOK, OwnedOK
    <3> QED BY <3>1, <1>3 DEF OwnedOK
  <2>5. \A t \in Handles : ~session'[t].live => session'[t] = NoSession
    BY <1>5, <1>7 DEF SessionsInv, OwnersOK
  <2> QED BY <2>1, <2>2, <2>3, <2>4, <2>5, <1>1, <1>3, <1>7 DEF OwnersOK
<1>9. \A s \in Handles : session[s].live =>
        session'[s].live /\ session'[s].modules = session[s].modules
  BY <1>4, <1>5
<1>10. \A s \in Handles : ~session[s].live => session'[s].modules = <<>>
  <2>1. \A s \in Handles : ~session[s].live => session[s].modules = <<>>
    BY DEF SessionsInv, OwnersOK, NoSession
  <2> QED BY <2>1, <1>5, <1>7
<1> QED BY <1>1, <1>2, <1>3, <1>5, <1>8, <1>9, <1>10, TypesOf, Created

\* A session of the host or of the engine is made.
LEMMA SessionMade ==
  ASSUME SessionsInv, Building, NEW s \in Handles, Free(s), NEW owned \in BOOLEAN,
         session' = [session EXCEPT ![s] = NewSession(owned)]
  PROVE  /\ s # Main /\ ~session[s].live /\ session'[s] = NewSession(owned)
         /\ session'[s].live /\ session'[s].engine = owned /\ session'[s].modules = <<>>
         /\ \A t \in Handles : t # s => session'[t] = session[t]
         /\ session' \in [Handles -> SessionType]
         /\ \A t \in Handles : session[t].live =>
              t # s /\ session'[t].live /\ session'[t].modules = session[t].modules
         /\ \A t \in Handles : ~session[t].live => session'[t].modules = <<>>
         /\ \A t \in Handles : ~session'[t].live => session'[t] = NoSession
         /\ currentSession' = currentSession => Alive(currentSession)'
<1>1. s # Main /\ ~session[s].live BY DEF Free
<1>2. /\ session'[s] = NewSession(owned) /\ \A t \in Handles : t # s => session'[t] = session[t]
      /\ session' \in [Handles -> SessionType]
  BY TypesOf, NewIs
<1>3. session'[s].live /\ session'[s].engine = owned /\ session'[s].modules = <<>> BY <1>2, NewIs
<1>4. \A t \in Handles : session[t].live =>
        t # s /\ session'[t].live /\ session'[t].modules = session[t].modules
  BY <1>1, <1>2
<1>5. \A t \in Handles : ~session[t].live => session'[t].modules = <<>>
  <2>1. \A t \in Handles : ~session[t].live => session[t].modules = <<>>
    BY DEF SessionsInv, OwnersOK, NoSession
  <2> QED BY <2>1, <1>2, <1>3
<1>6. \A t \in Handles : ~session'[t].live => session'[t] = NoSession
  BY <1>2, <1>3 DEF SessionsInv, OwnersOK
<1>7. currentSession' = currentSession => Alive(currentSession)'
  BY <1>4, TypesOf DEF Alive, SessionsInv, OwnersOK
<1> QED BY <1>1, <1>2, <1>3, <1>4, <1>5, <1>6, <1>7

LEMMA BuildingIs == ASSUME Building PROVE ~TearingDown BY DEF Building

\* A session of the host's own is made, and the registry lists it or not.
LEMMA UnownedMade ==
  ASSUME SessionsInv, Building, NEW s \in Handles, Free(s),
         session' = [session EXCEPT ![s] = NewSession(FALSE)],
         UNCHANGED <<engine, currentSession, currentEngine, calls, module>>,
         registry' \in BoundedSeq([id : Ids, session : Handles], MaxSessions),
         \A k \in DOMAIN registry' :
           session'[registry'[k].session].live /\ ~session'[registry'[k].session].engine,
         \A k, l \in DOMAIN registry' : registry'[k].session = registry'[l].session => k = l
  PROVE  SessionsInv'
<1>1. UNCHANGED <<engine, currentSession, currentEngine, calls, module>> OBVIOUS
<1>2. /\ s # Main /\ ~session[s].live /\ session'[s] = NewSession(FALSE)
      /\ session'[s].live /\ session'[s].engine = FALSE /\ session'[s].modules = <<>>
      /\ \A t \in Handles : t # s => session'[t] = session[t]
      /\ session' \in [Handles -> SessionType]
      /\ \A t \in Handles : session[t].live =>
           t # s /\ session'[t].live /\ session'[t].modules = session[t].modules
      /\ \A t \in Handles : ~session[t].live => session'[t].modules = <<>>
      /\ \A t \in Handles : ~session'[t].live => session'[t] = NoSession
      /\ Alive(currentSession)'
  BY SessionMade
<1>3. ~TearingDown BY BuildingIs
<1>4. TeardownsIn(calls) = {} /\ ~EngineGoing(calls) BY <1>3, QuietIs
<1>5. TeardownsIn(calls)' = {} /\ ~EngineGoing(calls)'
  BY <1>1, <1>4 DEF TeardownsIn, EngineGoing
<1>6. OwnersOK'
  <2>1. RegistryOK' BY <1>5 DEF RegistryOK
  <2>2. ASSUME NEW k \in 1 .. MaxSecondary PROVE EntryOK(engine.secondary[k])'
    <3>1. EntryOK(engine.secondary[k]) /\ engine.secondary[k].session \in Handles \union {Null}
      BY DEF SessionsInv, OwnersOK, SessionsTypeOK
    <3> QED BY <3>1, <1>1, <1>2 DEF EntryOK
  <2>3. OwnedOK'
    <3>1. ASSUME NEW t \in Handles, session'[t].live, session'[t].engine
          PROVE  engine.live /\ (t = Main \/ \E k \in 1 .. MaxSecondary : engine.secondary[k].session = t)
      <4>1. session[t].live /\ session[t].engine BY <3>1, <1>2
      <4> QED BY <4>1 DEF SessionsInv, OwnersOK, OwnedOK
    <3>2. session'[Main] = session[Main] BY <1>2, SessionsAssumption
    <3>3. ~session[Main].live => \A k \in 1 .. MaxSecondary : engine.secondary[k] = NoEntry
      BY DEF SessionsInv, OwnersOK, OwnedOK
    <3> QED BY ONLY <3>1, <3>2, <3>3, <1>1, <1>5 DEF OwnedOK
  <2>4. session'[Main] = session[Main] BY <1>2, SessionsAssumption
  <2>5. OwnersOK BY DEF SessionsInv
  <2> QED BY ONLY <2>1, <2>2, <2>3, <2>4, <2>5, <1>1, <1>2, <1>4, <1>5 DEF OwnersOK
<1>7. engine' \in EngineType /\ (engine.live \/ engine'.modules = <<>>)
  BY <1>1, TypesOf DEF SessionsInv, OwnersOK, NoEngine
<1> QED BY <1>1, <1>2, <1>3, <1>6, <1>7, TypesOf, Created

LEMMA SessionInitStep ==
  ASSUME SessionsInv, NEW s \in Handles, SessionInit(s) PROVE SessionsInv'
<1>1. /\ Building /\ Free(s) /\ session' = [session EXCEPT ![s] = NewSession(FALSE)]
      /\ UNCHANGED <<registry, engine, currentSession, currentEngine, calls, module>>
  BY DEF SessionInit
<1>2. /\ \A t \in Handles : t # s => session'[t] = session[t]
      /\ \A t \in Handles : session[t].live => t # s
  BY <1>1, SessionMade
<1>3. registry' \in BoundedSeq([id : Ids, session : Handles], MaxSessions)
  BY <1>1 DEF SessionsInv, SessionsTypeOK
<1>4. ASSUME NEW k \in DOMAIN registry
      PROVE  session'[registry[k].session].live /\ ~session'[registry[k].session].engine
  BY <1>2, RegisteredIs DEF SessionsInv, OwnersOK, RegistryOK
<1>5. \A k, l \in DOMAIN registry : registry[k].session = registry[l].session => k = l
  BY DEF SessionsInv, OwnersOK, RegistryOK
<1> QED BY <1>1, <1>3, <1>4, <1>5, UnownedMade

LEMMA SessionCreateStep ==
  ASSUME SessionsInv, NEW s \in Handles, NEW id \in Ids, SessionCreate(s, id) PROVE SessionsInv'
<1>1. /\ Building /\ Free(s) /\ session' = [session EXCEPT ![s] = NewSession(FALSE)]
      /\ registry' = Entered([id |-> id, session |-> s])
      /\ UNCHANGED <<engine, currentSession, currentEngine, calls, module>>
  BY DEF SessionCreate
<1>2. /\ s # Main /\ ~session[s].live /\ session'[s] = NewSession(FALSE)
      /\ session'[s].live /\ session'[s].engine = FALSE /\ session'[s].modules = <<>>
      /\ \A t \in Handles : t # s => session'[t] = session[t]
      /\ session' \in [Handles -> SessionType]
      /\ \A t \in Handles : session[t].live =>
           t # s /\ session'[t].live /\ session'[t].modules = session[t].modules
      /\ \A t \in Handles : ~session[t].live => session'[t].modules = <<>>
      /\ \A t \in Handles : ~session'[t].live => session'[t] = NoSession
      /\ Alive(currentSession)'
  BY <1>1, SessionMade
<1>6. PICK S : S = [id : Ids, session : Handles] /\ registry \in Seq(S) /\ Len(registry) <= MaxSessions
  BY BoundedIs, SessionsAssumption DEF SessionsInv, SessionsTypeOK
<1>7. PICK n : n = Len(registry) /\ n \in Nat /\ DOMAIN registry = 1 .. n BY <1>6
<1>18. PICK e : e = [id |-> id, session |-> s] OBVIOUS
<1>8. e = [id |-> id, session |-> s] /\ e \in S /\ e.session = s BY <1>6, <1>18
<1>9. PICK q : /\ q = registry' /\ q \in Seq(S) /\ Len(q) <= MaxSessions
               /\ \A k \in 1 .. n : q[k] = registry[k]
               /\ DOMAIN q = 1 .. n \/ (DOMAIN q = 1 .. n + 1 /\ q[n + 1] = e)
  <2>1. CASE n < MaxSessions
    <3>1. registry' = Append(registry, e) BY <2>1, <1>1, <1>7, <1>8 DEF Entered
    <3>2. PICK q : q = Append(registry, e) OBVIOUS
    <3>3. /\ q \in Seq(S) /\ Len(q) = n + 1 /\ DOMAIN q = 1 .. n + 1 /\ q[n + 1] = e
          /\ \A k \in 1 .. n : q[k] = registry[k]
      BY <3>2, <1>6, <1>7, <1>8
    <3>4. n + 1 <= MaxSessions BY <2>1, <1>7, SessionsAssumption
    <3> QED BY <3>1, <3>2, <3>3, <3>4
  <2>2. CASE ~(n < MaxSessions)
    <3>1. registry' = registry BY <2>2, <1>1, <1>7 DEF Entered
    <3> QED BY <3>1, <1>6, <1>7
  <2> QED BY <2>1, <2>2
<1>10. registry' \in BoundedSeq([id : Ids, session : Handles], MaxSessions)
  BY <1>6, <1>9, BoundedIs, SessionsAssumption
<1>11. \A k \in 1 .. n : /\ registry[k].session \in Handles
                         /\ session[registry[k].session].live /\ ~session[registry[k].session].engine
  BY <1>7, RegisteredIs DEF SessionsInv, OwnersOK, RegistryOK
<1>12. \A k \in 1 .. n : /\ q[k].session = registry[k].session /\ q[k].session # s
                         /\ session'[q[k].session].live /\ ~session'[q[k].session].engine
  BY <1>2, <1>9, <1>11
<1>13. \A k, l \in 1 .. n : registry[k].session = registry[l].session => k = l
  BY <1>7 DEF SessionsInv, OwnersOK, RegistryOK
<1>14. \A k, l \in DOMAIN q : q[k].session = q[l].session => k = l
  <2>1. \A k \in DOMAIN q : k \in 1 .. n \/ (k = n + 1 /\ q[k].session = s) BY <1>7, <1>8, <1>9
  <2> QED BY <2>1, <1>12, <1>13
<1>15. \A k \in DOMAIN q : session'[q[k].session].live /\ ~session'[q[k].session].engine
  <2>1. \A k \in DOMAIN q : k \in 1 .. n \/ q[k].session = s BY <1>7, <1>8, <1>9
  <2> QED BY <2>1, <1>2, <1>12
<1> QED BY <1>1, <1>9, <1>10, <1>14, <1>15, UnownedMade

LEMMA EngineCreateSessionStep ==
  ASSUME SessionsInv, NEW s \in Handles, NEW name \in Names, NEW n \in 1 .. MaxSecondary,
         EngineCreateSession(s, name, n)
  PROVE  SessionsInv'
<1>1. /\ Building /\ Free(s) /\ engine.live /\ session' = [session EXCEPT ![s] = NewSession(TRUE)]
      /\ engine.secondary[n] = NoEntry
      /\ engine' = [engine EXCEPT !.secondary[n] = [name |-> name, session |-> s]]
      /\ UNCHANGED <<registry, currentSession, currentEngine, calls, module>>
  BY DEF EngineCreateSession
<1>2. /\ s # Main /\ ~session[s].live /\ session'[s] = NewSession(TRUE)
      /\ session'[s].live /\ session'[s].engine = TRUE /\ session'[s].modules = <<>>
      /\ \A t \in Handles : t # s => session'[t] = session[t]
      /\ session' \in [Handles -> SessionType]
      /\ \A t \in Handles : session[t].live =>
           t # s /\ session'[t].live /\ session'[t].modules = session[t].modules
      /\ \A t \in Handles : ~session[t].live => session'[t].modules = <<>>
      /\ \A t \in Handles : ~session'[t].live => session'[t] = NoSession
      /\ Alive(currentSession)'
  BY <1>1, SessionMade
<1>3. ~TearingDown BY <1>1, BuildingIs
<1>4. TeardownsIn(calls) = {} /\ ~EngineGoing(calls) BY <1>3, QuietIs
<1>5. TeardownsIn(calls)' = {} /\ ~EngineGoing(calls)'
  BY <1>1, <1>4 DEF TeardownsIn, EngineGoing
<1>6. s # Null /\ Main \in Handles BY SessionsAssumption
<1>11. PICK e : e = [name |-> name, session |-> s] OBVIOUS
<1>7. e = [name |-> name, session |-> s] /\ e.session = s BY <1>11
<1>8. /\ engine'.live = engine.live /\ engine'.modules = engine.modules /\ engine' \in EngineType
      /\ engine'.secondary[n] = e
      /\ \A k \in 1 .. MaxSecondary : k # n => engine'.secondary[k] = engine.secondary[k]
  <2>1. engine \in EngineType BY TypesOf
  <2>2. PICK sec : sec = [engine.secondary EXCEPT ![n] = e] OBVIOUS
  <2>3. /\ sec \in [1 .. MaxSecondary -> [name : Names \union {Null}, session : Handles \union {Null}]]
        /\ sec[n] = e /\ \A k \in 1 .. MaxSecondary : k # n => sec[k] = engine.secondary[k]
    BY <2>1, <2>2, <1>7 DEF EngineType
  <2>4. engine' = [engine EXCEPT !.secondary = sec] BY <2>2, <1>1, <1>7
  <2> QED BY <2>1, <2>3, <2>4 DEF EngineType
<1>9. session[Main].live BY <1>1, <1>4 DEF SessionsInv, OwnersOK
<1>10. OwnersOK'
  <2>1. RegistryOK'
    <3>1. \A k \in DOMAIN registry : registry[k].session \in Handles /\ registry[k].session # s
      BY <1>2, RegisteredIs DEF SessionsInv, OwnersOK, RegistryOK
    <3> QED BY <3>1, <1>1, <1>2, <1>5 DEF RegistryOK, SessionsInv, OwnersOK
  <2>2. ASSUME NEW k \in 1 .. MaxSecondary PROVE EntryOK(engine.secondary[k])'
    <3>1. EntryOK(engine.secondary[k]) /\ engine.secondary[k].session \in Handles \union {Null}
      BY DEF SessionsInv, OwnersOK, SessionsTypeOK
    <3>2. CASE k = n BY <3>2, <1>2, <1>6, <1>7, <1>8 DEF EntryOK
    <3>3. CASE k # n BY <3>1, <3>3, <1>2, <1>8 DEF EntryOK
    <3> QED BY <3>2, <3>3
  <2>3. OwnedOK'
    <3>1. ASSUME NEW t \in Handles, session'[t].live, session'[t].engine
          PROVE  /\ engine'.live
                 /\ t = Main \/ \E k \in 1 .. MaxSecondary : engine'.secondary[k].session = t
      <4>1. CASE t = s BY <4>1, <1>1, <1>7, <1>8
      <4>2. CASE t # s
        <5>1. t = Main \/ \E k \in 1 .. MaxSecondary : engine.secondary[k].session = t
          BY <3>1, <4>2, <1>2 DEF SessionsInv, OwnersOK, OwnedOK
        <5>2. engine.secondary[n].session # t BY <1>1, SessionsAssumption DEF NoEntry
        <5> QED BY <5>1, <5>2, <1>1, <1>8
      <4> QED BY <4>1, <4>2
    <3>2. session'[Main].live BY <1>2, <1>6, <1>9
    <3> QED BY <3>1, <3>2, <1>5 DEF OwnedOK
  <2>4. session'[Main] = session[Main] BY <1>2, <1>6
  <2> QED BY <2>1, <2>2, <2>3, <2>4, <1>1, <1>2, <1>8, <1>9 DEF OwnersOK, SessionsInv
<1> QED BY <1>1, <1>2, <1>3, <1>8, <1>10, TypesOf, Created

LEMMA AttachStep ==
  ASSUME SessionsInv, NEW s \in Handles, Attach(s) PROVE SessionsInv'
<1>1. /\ Building /\ session[s].live /\ session' = [session EXCEPT ![s].attached = TRUE]
      /\ UNCHANGED <<registry, engine, currentSession, currentEngine, calls, module>>
  BY DEF Attach
<1>2. /\ \A t \in Handles : /\ session'[t].live = session[t].live
                            /\ session'[t].engine = session[t].engine
                            /\ session'[t].modules = session[t].modules
      /\ session' \in [Handles -> SessionType]
      /\ \A t \in Handles : t # s => session'[t] = session[t]
  BY <1>1, TypesOf DEF SessionType
<1>3. ~TearingDown BY <1>1, BuildingIs
<1>4. TeardownsIn(calls) = {} /\ ~EngineGoing(calls) BY <1>3, QuietIs
<1>5. TeardownsIn(calls)' = {} /\ ~EngineGoing(calls)'
  BY <1>1, <1>4 DEF TeardownsIn, EngineGoing
<1>6. OwnersOK'
  <2>1. RegistryOK'
    <3>1. \A k \in DOMAIN registry : registry[k].session \in Handles BY RegisteredIs
    <3> QED BY <3>1, <1>1, <1>2, <1>5 DEF RegistryOK, SessionsInv, OwnersOK
  <2>2. ASSUME NEW k \in 1 .. MaxSecondary PROVE EntryOK(engine.secondary[k])'
    <3>1. EntryOK(engine.secondary[k]) /\ engine.secondary[k].session \in Handles \union {Null}
      BY DEF SessionsInv, OwnersOK, SessionsTypeOK
    <3> QED BY <3>1, <1>1, <1>2 DEF EntryOK
  <2>3. OwnedOK' BY <1>1, <1>2, <1>5, SessionsAssumption DEF OwnedOK, SessionsInv, OwnersOK
  <2>4. Alive(currentSession)' BY <1>1, <1>2, TypesOf DEF Alive, SessionsInv, OwnersOK
  <2>5. \A t \in Handles : ~session'[t].live => session'[t] = NoSession
    BY <1>1, <1>2 DEF SessionsInv, OwnersOK
  <2> QED BY <2>1, <2>2, <2>3, <2>4, <2>5, <1>1, <1>2, <1>4, SessionsAssumption DEF OwnersOK, SessionsInv
<1>7. \A t \in Handles : ~session[t].live => session'[t].modules = <<>>
  <2>1. \A t \in Handles : ~session[t].live => session[t].modules = <<>>
    BY DEF SessionsInv, OwnersOK, NoSession
  <2> QED BY <2>1, <1>2
<1>8. engine' \in EngineType /\ (engine.live \/ engine'.modules = <<>>)
  BY <1>1, TypesOf DEF SessionsInv, OwnersOK, NoEngine
<1> QED BY <1>1, <1>2, <1>3, <1>6, <1>7, <1>8, TypesOf, Created

\* What was bound to where, with b in the table of t.
LEMMA Rebinding ==
  ASSUME SessionsInv, ~TearingDown, NEW t \in Owners, NEW b \in Binding, module[b.module] = "new",
         NEW ms, ms = ModulesOf(t), ModulesOf(t)' = WithModule(ms, b),
         \A s \in Owners : s # t => ModulesOf(s)' = ModulesOf(s),
         Owners' = Owners, module' = Rebound(ms, b)
  PROVE  /\ WithModule(ms, b) \in Tables /\ module' \in [Modules -> Fates]
         /\ BindingsOK({})'
<1>1. t \in Handles \union {Null} BY DEF Owners
<1>2. PICK n : /\ n = Len(ms) /\ n \in Nat /\ DOMAIN ms = 1 .. n /\ ms \in Seq(Binding)
               /\ n <= MaxModules
  BY <1>1, TablesTyped
<1>3. BindingsOK({}) BY QuietIs DEF SessionsInv
<1>4. b.module \in Modules /\ module \in [Modules -> Fates]
  BY DEF Binding, SessionsInv, SessionsTypeOK, Fates
<1>5. PICK q : q = WithModule(ms, b) OBVIOUS
<1>6. PICK lost : lost = Bound(ms, b.key) OBVIOUS
<1>7. \/ \E k \in 1 .. n : lost = ms[k].module /\ q = [ms EXCEPT ![k] = b]
      \/ n < MaxModules /\ lost = Null /\ q = Append(ms, b)
      \/ lost = Null /\ q = ms
  BY <1>2, <1>5, <1>6, WithModuleIs DEF HasRoom
<1>8. q \in Seq(Binding) /\ Len(q) <= MaxModules /\ DOMAIN q = 1 .. Len(q)
  <2>1. ASSUME NEW k \in 1 .. n, q = [ms EXCEPT ![k] = b] PROVE q \in Seq(Binding) /\ Len(q) = n
    BY <2>1, <1>2
  <2>2. ASSUME n < MaxModules, q = Append(ms, b) PROVE q \in Seq(Binding) /\ Len(q) <= MaxModules
    BY <2>2, <1>2, SessionsAssumption
  <2>3. q \in Seq(Binding) /\ Len(q) <= MaxModules BY <2>1, <2>2, <1>2, <1>7
  <2> QED BY <2>3
<1>9. q \in Tables BY <1>8, BoundedIs, SessionsAssumption DEF Tables
<1>10. \A s \in Owners : \A k \in DOMAIN ModulesOf(s) : module[At(s, k)] = "bound" /\ At(s, k) \in Modules
  <2>1. Owners \subseteq Handles \union {Null} BY DEF Owners
  <2> QED BY <2>1, <1>3, TablesTyped DEF BindingsOK
<1>11. \A k \in 1 .. n : ms[k].module = At(t, k) BY DEF At
<1>12. module' \in [Modules -> Fates] BY <1>4 DEF Rebound, Fates
<1>13. \A m \in Modules : module'[m] =
         IF b \notin Range(q) THEN module[m] ELSE IF m = b.module THEN "bound"
         ELSE IF m = lost THEN "replaced" ELSE module[m]
  BY <1>5, <1>6 DEF Rebound
<1>14. Null \notin Modules BY SessionsAssumption
\* The place of b, if it has got one; the others are as before.
<1>15. PICK p : /\ p \in DOMAIN q \union {0}
                /\ p # 0 => q[p] = b
                /\ p = 0 => b \notin Range(q)
                /\ \A k \in DOMAIN q : k # p => k \in 1 .. n /\ q[k] = ms[k]
                /\ \A k \in 1 .. n : k # p => k \in DOMAIN q
                /\ p \in 1 .. n => lost = At(t, p)
                /\ p \notin 1 .. n => lost = Null
  <2>1. CASE \E k \in 1 .. n : lost = ms[k].module /\ q = [ms EXCEPT ![k] = b]
    <3>1. PICK k \in 1 .. n : lost = ms[k].module /\ q = [ms EXCEPT ![k] = b] BY <2>1
    <3>2. DOMAIN q = 1 .. n /\ q[k] = b /\ \A l \in 1 .. n : l # k => q[l] = ms[l] BY <3>1, <1>2
    <3>3. k # 0 BY <1>2
    <3> WITNESS k
    <3> QED BY <3>1, <3>2, <3>3, <1>11
  <2>2. CASE n < MaxModules /\ lost = Null /\ q = Append(ms, b)
    <3>1. PICK p : p = n + 1 OBVIOUS
    <3>2. DOMAIN q = 1 .. p /\ q[p] = b /\ \A l \in 1 .. n : q[l] = ms[l] BY <2>2, <3>1, <1>2
    <3>3. p # 0 /\ p \in 1 .. p /\ p \notin 1 .. n /\ \A l \in 1 .. p : l = p \/ l \in 1 .. n
      BY <3>1, <1>2
    <3>4. \A l \in 1 .. n : l \in 1 .. p BY <3>1, <1>2
    <3> WITNESS p
    <3> QED BY <2>2, <3>2, <3>3, <3>4
  <2>3. CASE lost = Null /\ q = ms
    <3>1. ASSUME b \in Range(q) PROVE FALSE
      <4>1. PICK k \in 1 .. n : ms[k] = b BY <2>3, <3>1, <1>2 DEF Range
      <4>2. module[At(t, k)] = "bound" BY <4>1, <1>2, <1>10
      <4> QED BY <4>1, <4>2, <1>11
    <3>2. 0 \notin 1 .. n BY <1>2
    <3> WITNESS 0
    <3> QED BY <2>3, <3>1, <3>2, <1>2
  <2> QED BY <2>1, <2>2, <2>3, <1>7
<1>16. b \in Range(q) <=> p # 0
  <2>1. p # 0 => b \in Range(q) BY <1>15 DEF Range
  <2> QED BY <2>1, <1>15
<1>17. \A s \in Owners : s # t => ModulesOf(s)' = ModulesOf(s) /\ \A k : At(s, k)' = At(s, k)
  BY DEF At
<1>18. ModulesOf(t)' = q /\ \A k : At(t, k)' = q[k].module BY <1>5 DEF At
\* A place of a table holds what it held, or is that of b.
<1>19. ASSUME NEW s \in Owners, NEW k \in DOMAIN ModulesOf(s)'
       PROVE  \/ s = t /\ k = p /\ p # 0 /\ At(s, k)' = b.module
              \/ ~(s = t /\ k = p) /\ k \in DOMAIN ModulesOf(s) /\ At(s, k)' = At(s, k)
  <2>1. CASE s # t BY <2>1, <1>17
  <2>2. CASE s = t
    <3>1. k \in DOMAIN q /\ At(s, k)' = q[k].module BY <2>2, <1>18
    <3>2. CASE k = p
      <4>1. p # 0 BY <3>1, <3>2, <1>8
      <4> QED BY <4>1, <2>2, <3>1, <3>2, <1>15
    <3>3. CASE k # p BY <2>2, <3>1, <3>3, <1>2, <1>11, <1>15
    <3> QED BY <3>2, <3>3
  <2> QED BY <2>1, <2>2
<1>20. ASSUME NEW s \in Owners, NEW k \in DOMAIN ModulesOf(s), ~(s = t /\ k = p)
       PROVE  /\ k \in DOMAIN ModulesOf(s)' /\ At(s, k)' = At(s, k)
              /\ At(s, k) # b.module /\ At(s, k) # lost
  <2>1. module[At(s, k)] = "bound" /\ At(s, k) \in Modules BY <1>10
  <2>2. At(s, k) # lost
    <3>1. CASE p \in 1 .. n
      <4>1. lost = At(t, p) /\ p \in DOMAIN ModulesOf(t) BY <3>1, <1>2, <1>15
      <4> QED BY <4>1, <1>3, <1>20 DEF BindingsOK
    <3>2. CASE p \notin 1 .. n BY <3>2, <2>1, <1>14, <1>15
    <3> QED BY <3>1, <3>2
  <2>3. k \in DOMAIN ModulesOf(s)' /\ At(s, k)' = At(s, k)
    <3>1. CASE s # t BY <3>1, <1>17
    <3>2. CASE s = t
      <4>1. k \in 1 .. n /\ k # p BY <3>2, <1>2, <1>20
      <4> QED BY <4>1, <3>2, <1>11, <1>15, <1>18
    <3> QED BY <3>1, <3>2
  <2> QED BY <2>1, <2>2, <2>3
<1>21. ASSUME NEW s \in Owners', NEW k \in DOMAIN ModulesOf(s)' PROVE module'[At(s, k)'] = "bound"
  <2>1. CASE s = t /\ k = p /\ p # 0 /\ At(s, k)' = b.module BY <2>1, <1>4, <1>13, <1>16
  <2>2. CASE ~(s = t /\ k = p) /\ k \in DOMAIN ModulesOf(s) /\ At(s, k)' = At(s, k)
    <3>1. At(s, k) # b.module /\ At(s, k) # lost BY <2>2, <1>20
    <3>2. module[At(s, k)] = "bound" /\ At(s, k) \in Modules BY <2>2, <1>10
    <3> QED BY <2>2, <3>1, <3>2, <1>13
  <2> QED BY <2>1, <2>2, <1>19
<1>22. ASSUME NEW x \in Owners', NEW s \in Owners', NEW k \in DOMAIN ModulesOf(x)',
              NEW l \in DOMAIN ModulesOf(s)', At(x, k)' = At(s, l)'
       PROVE  x = s /\ k = l
  <2>1. CASE ~(x = t /\ k = p) /\ ~(s = t /\ l = p)
    <3>1. /\ k \in DOMAIN ModulesOf(x) /\ l \in DOMAIN ModulesOf(s) /\ At(x, k) = At(s, l)
      BY <2>1, <1>19, <1>22
    <3> QED BY <3>1, <1>3 DEF BindingsOK
  <2>2. CASE (x = t /\ k = p) /\ ~(s = t /\ l = p)
    <3>1. At(x, k)' = b.module BY <2>2, <1>19
    <3>2. l \in DOMAIN ModulesOf(s) BY <2>2, <1>19
    <3>3. At(s, l)' # b.module BY <2>2, <3>2, <1>20
    <3> QED BY <3>1, <3>3, <1>22
  <2>3. CASE ~(x = t /\ k = p) /\ (s = t /\ l = p)
    <3>1. At(s, l)' = b.module BY <2>3, <1>19
    <3>2. k \in DOMAIN ModulesOf(x) BY <2>3, <1>19
    <3>3. At(x, k)' # b.module BY <2>3, <3>2, <1>20
    <3> QED BY <3>1, <3>3, <1>22
  <2> QED BY <2>1, <2>2, <2>3
<1>23. ASSUME NEW m \in Modules
       PROVE  /\ module'[m] # "twice"
              /\ module'[m] = "bound" =>
                   \E s \in Owners' : \E k \in DOMAIN ModulesOf(s)' : At(s, k)' = m
  <2>1. module[m] # "twice" BY <1>3 DEF BindingsOK
  <2>2. ASSUME module'[m] = "bound"
        PROVE  \E s \in Owners' : \E k \in DOMAIN ModulesOf(s)' : At(s, k)' = m
    <3>1. CASE p # 0 /\ m = b.module
      <4>1. p \in DOMAIN ModulesOf(t)' /\ At(t, p)' = m BY <3>1, <1>15, <1>18
      <4> QED BY <4>1
    <3>2. CASE ~(p # 0 /\ m = b.module)
      <4>1. module[m] = "bound" /\ (p # 0 => m # lost) BY <3>2, <2>2, <1>13, <1>16
      <4>2. PICK s \in Owners : \E k \in DOMAIN ModulesOf(s) : At(s, k) = m
        BY <4>1, <1>3 DEF BindingsOK
      <4>3. PICK k \in DOMAIN ModulesOf(s) : At(s, k) = m BY <4>2
      <4>4. ~(s = t /\ k = p)
        <5>1. SUFFICES ASSUME s = t, k = p PROVE FALSE OBVIOUS
        <5>2. p \in 1 .. n BY <5>1, <1>2
        <5> QED BY <5>1, <5>2, <4>1, <4>3, <1>15
      <4>5. k \in DOMAIN ModulesOf(s)' /\ At(s, k)' = m BY <4>3, <4>4, <1>20
      <4> QED BY <4>5
    <3> QED BY <3>1, <3>2
  <2>3. module'[m] # "twice" BY <2>1, <1>13
  <2> QED BY <2>2, <2>3
<1>24. BindingsOK({})' BY <1>21, <1>22, <1>23 DEF BindingsOK
<1> QED BY <1>5, <1>9, <1>12, <1>24

\* A module is bound to the engine.
LEMMA EngineBinds ==
  ASSUME SessionsInv, ~TearingDown, NEW b \in Binding, module[b.module] = "new", engine.live,
         EngineRegisterModule(b), UNCHANGED <<registry, currentSession, currentEngine, calls>>
  PROVE  SessionsInv'
<1>1. PICK ms : ms = engine.modules OBVIOUS
<1>2. /\ engine' = [engine EXCEPT !.modules = WithModule(ms, b)] /\ session' = session
      /\ module' = Rebound(ms, b)
  BY <1>1 DEF EngineRegisterModule
<1>3. /\ engine'.live = engine.live /\ engine'.secondary = engine.secondary
      /\ engine'.started = engine.started /\ engine'.modules = WithModule(ms, b)
  BY <1>2, TypesOf DEF EngineType
<1>4. Null \in Owners /\ Owners' = Owners /\ ms = ModulesOf(Null) /\ ModulesOf(Null)' = WithModule(ms, b)
  BY <1>1, <1>2, <1>3 DEF Owners, ModulesOf
<1>5. \A s \in Owners : s # Null => ModulesOf(s)' = ModulesOf(s) BY <1>2 DEF ModulesOf
<1>6. WithModule(ms, b) \in Tables /\ module' \in [Modules -> Fates] /\ BindingsOK({})'
  BY <1>2, <1>4, <1>5, Rebinding
<1>7. StackOK(calls)' /\ TeardownsIn(calls)' = {} /\ ~EngineGoing(calls)'
  BY <1>2, <1>3, QuietStack
<1>8. TeardownsIn(calls) = {} /\ ~EngineGoing(calls) BY QuietIs
<1>9. OwnersOK'
  <2>1. RegistryOK' BY <1>2, <1>7 DEF RegistryOK, SessionsInv, OwnersOK
  <2>2. \A k \in 1 .. MaxSecondary : EntryOK(engine.secondary[k])'
    BY <1>2, <1>3 DEF SessionsInv, OwnersOK, EntryOK
  <2>3. OwnedOK' BY <1>2, <1>3, <1>7, <1>8 DEF OwnedOK, SessionsInv, OwnersOK
  <2>4. Alive(currentSession)' BY <1>2 DEF Alive, SessionsInv, OwnersOK
  <2> QED BY <2>1, <2>2, <2>3, <2>4, <1>2, <1>3, <1>7, <1>8 DEF OwnersOK, SessionsInv
<1>10. BindingsOK(TeardownsIn(calls))' BY <1>6, <1>7 DEF BindingsOK
<1>11. engine' \in EngineType BY <1>2, <1>6, TypesOf DEF EngineType, Tables
<1>12. SessionsTypeOK'
  BY <1>2, <1>6, <1>7, <1>11, CallsTyped DEF SessionsTypeOK, SessionsInv, EngineType, Fates
<1> QED BY <1>7, <1>9, <1>10, <1>12 DEF SessionsInv

\* A module is bound to a session, which may leave that to the engine.
LEMMA SessionBinds ==
  ASSUME SessionsInv, ~TearingDown, NEW b \in Binding, module[b.module] = "new",
         NEW s \in Handles, session[s].live, SessionRegisterModule(s, b),
         UNCHANGED <<registry, currentSession, currentEngine, calls>>
  PROVE  SessionsInv'
<1>1. CASE session[s].engine
  <2>1. engine.live BY <1>1 DEF SessionsInv, OwnersOK, OwnedOK
  <2>2. EngineRegisterModule(b) BY <1>1 DEF SessionRegisterModule
  <2> QED BY <2>1, <2>2, EngineBinds
<1>2. CASE ~session[s].engine
  <2>1. PICK ms : ms = session[s].modules OBVIOUS
  <2>2. /\ session' = [session EXCEPT ![s].modules = WithModule(ms, b)] /\ engine' = engine
        /\ module' = Rebound(ms, b)
    BY <2>1, <1>2 DEF SessionRegisterModule
  <2>3. /\ \A t \in Handles : session'[t].live = session[t].live /\ session'[t].engine = session[t].engine
        /\ \A t \in Handles : t # s => session'[t] = session[t]
        /\ session'[s].modules = WithModule(ms, b)
    BY <2>2, TypesOf DEF SessionType
  <2>4. s # Null BY SessionsAssumption
  <2>5. s \in Owners /\ Owners' = Owners /\ ms = ModulesOf(s) /\ ModulesOf(s)' = WithModule(ms, b)
    BY <2>1, <2>2, <2>3, <2>4 DEF Owners, ModulesOf
  <2>6. \A t \in Owners : t # s => ModulesOf(t)' = ModulesOf(t) BY <2>2, <2>3 DEF ModulesOf, Owners
  <2>7. WithModule(ms, b) \in Tables /\ module' \in [Modules -> Fates] /\ BindingsOK({})'
    BY <2>2, <2>5, <2>6, Rebinding
  <2>8. StackOK(calls)' /\ TeardownsIn(calls)' = {} /\ ~EngineGoing(calls)'
    BY <2>2, <2>3, QuietStack
  <2>9. TeardownsIn(calls) = {} /\ ~EngineGoing(calls) BY QuietIs
  <2>10. OwnersOK'
    <3>1. RegistryOK'
      <4>1. \A k \in DOMAIN registry : registry[k].session \in Handles BY RegisteredIs
      <4> QED BY <4>1, <2>3, <2>8 DEF RegistryOK, SessionsInv, OwnersOK
    <3>2. ASSUME NEW k \in 1 .. MaxSecondary PROVE EntryOK(engine.secondary[k])'
      <4>1. EntryOK(engine.secondary[k]) /\ engine.secondary[k].session \in Handles \union {Null}
        BY DEF SessionsInv, OwnersOK, SessionsTypeOK
      <4> QED BY <4>1, <2>2, <2>3 DEF EntryOK
    <3>3. OwnedOK' BY <2>2, <2>3, <2>8, <2>9, SessionsAssumption DEF OwnedOK, SessionsInv, OwnersOK
    <3>4. Alive(currentSession)' BY <2>3, TypesOf DEF Alive, SessionsInv, OwnersOK
    <3>5. \A t \in Handles : ~session'[t].live => session'[t] = NoSession
      BY <2>3 DEF SessionsInv, OwnersOK
    <3> QED BY <3>1, <3>2, <3>3, <3>4, <3>5, <2>2, <2>3, <2>8, <2>9, SessionsAssumption
      DEF OwnersOK, SessionsInv
  <2>11. BindingsOK(TeardownsIn(calls))' BY <2>7, <2>8 DEF BindingsOK
  <2>12. session' \in [Handles -> SessionType] BY <2>2, <2>7, TypesOf DEF SessionType, Tables
  <2>13. SessionsTypeOK'
    BY <2>2, <2>7, <2>8, <2>12, CallsTyped DEF SessionsTypeOK, SessionsInv, SessionType, Fates
  <2> QED BY <2>8, <2>10, <2>11, <2>13 DEF SessionsInv
<1> QED BY <1>1, <1>2

LEMMA RegisterModuleStep ==
  ASSUME SessionsInv, NEW s \in Handles \union {Null}, NEW b \in Binding, RegisterModule(s, b)
  PROVE  SessionsInv'
<1>1. /\ ~TearingDown /\ module[b.module] = "new"
      /\ UNCHANGED <<registry, currentSession, currentEngine, calls>>
  BY BuildingIs DEF RegisterModule
<1>2. CASE s # Null
  <2>1. s \in Handles /\ session[s].live /\ SessionRegisterModule(s, b) BY <1>2 DEF RegisterModule
  <2> QED BY <2>1, <1>1, SessionBinds
<1>3. CASE s = Null /\ currentEngine
  <2>1. EngineRegisterModule(b) /\ engine.live BY <1>3, AmbientOK DEF RegisterModule
  <2> QED BY <2>1, <1>1, EngineBinds
<1>4. CASE s = Null /\ ~currentEngine
  <2>1. PICK t : t = currentSession OBVIOUS
  <2>2. /\ t # Null /\ SessionRegisterModule(t, b) BY <2>1, <1>4 DEF RegisterModule
  <2>3. t \in Handles /\ session[t].live BY <2>1, <2>2, AmbientOK
  <2> QED BY <2>2, <2>3, <1>1, SessionBinds
<1> QED BY <1>2, <1>3, <1>4

-----------------------------------------------------------------------------
(* The theorems.                                                           *)

LEMMA SessionsInitInv == ASSUME SessionsInit PROVE SessionsInv
<1>1. /\ registry = <<>> /\ session = [s \in Handles |-> NoSession] /\ engine = NoEngine
      /\ currentSession = Null /\ currentEngine = FALSE /\ calls = <<>>
      /\ module = [m \in Modules |-> "new"]
  BY DEF SessionsInit
<1>2. TeardownsIn(calls) = {} /\ ~EngineGoing(calls) BY <1>1 DEF TeardownsIn, Range, EngineGoing
<1>3. StackOK(calls) BY <1>1 DEF StackOK
<1>4. /\ ~engine.live /\ engine.modules = <<>> /\ \A n \in 1 .. MaxSecondary : engine.secondary[n] = NoEntry
      /\ \A s \in Handles : ~session[s].live /\ session[s].modules = <<>> /\ session[s] = NoSession
  BY <1>1 DEF NoEngine, NoSession
<1>5. OwnersOK
  <2>1. RegistryOK BY <1>1, <1>2 DEF RegistryOK
  <2>2. OwnedOK BY <1>4 DEF OwnedOK
  <2>3. \A n \in 1 .. MaxSecondary : EntryOK(engine.secondary[n]) BY <1>4 DEF EntryOK
  <2> QED BY <2>1, <2>2, <2>3, <1>1, <1>4, SessionsAssumption DEF OwnersOK, Alive
<1>6. BindingsOK(TeardownsIn(calls))
  <2>1. Owners = {} BY <1>4 DEF Owners
  <2> QED BY <2>1, <1>1, <1>2 DEF BindingsOK
<1>7. SessionsTypeOK
  <2>1. registry \in BoundedSeq([id : Ids, session : Handles], MaxSessions)
    <3>1. PICK S : S = [id : Ids, session : Handles] OBVIOUS
    <3>2. <<>> \in Seq(S) /\ Len(<<>>) = 0 OBVIOUS
    <3>3. MaxSessions \in Nat /\ 0 <= MaxSessions BY SessionsAssumption
    <3> QED BY <3>1, <3>2, <3>3, <1>1, BoundedIs
  <2>2. NoSession \in SessionType BY EmptyTable DEF NoSession, SessionType, Tables
  <2>3. NoEngine \in EngineType BY EmptyTable DEF NoEngine, NoEntry, EngineType, Tables
  <2>4. Range(calls) = {} BY <1>1 DEF Range
  <2> QED BY <2>1, <2>2, <2>3, <2>4, <1>1 DEF SessionsTypeOK, SessionType, EngineType
<1> QED BY <1>3, <1>5, <1>6, <1>7 DEF SessionsInv

LEMMA SessionsStutter ==
  ASSUME SessionsInv, UNCHANGED sessionsVars PROVE SessionsInv'
<1>1. Steps(calls) BY SameCalls DEF Steps, sessionsVars
<1> QED BY <1>1, AmbientOK, WalkKept DEF sessionsVars

\* What a step of the host, of user code or of the runtime leaves true.
LEMMA SessionsStep ==
  ASSUME SessionsInv, [CarefulSessionsNext]_sessionsVars PROVE SessionsInv'
<1>1. CASE Create
  BY <1>1, EngineInitStep, SessionInitStep, SessionCreateStep, EngineCreateSessionStep, SetCurrentSessionStep,
     RegisterModuleStep, AttachStep DEF Create
<1>2. CASE RunPasses
  <2>1. CASE RecomposeAllSessions
    BY <2>1, BeginLoop DEF RecomposeAllSessions
  <2>2. CASE EngineRecompose
    BY <2>2, BeginLoop DEF EngineRecompose
  <2> QED BY <2>1, <2>2, <1>2, RecomposeStep, RecomposeAllTurnStep, EngineTurnStep, EndLoopStep,
             EndPassStep, EngineStartStep, StartedStep, EngineEndStep, EndedStep, ReturnRestoredStep
          DEF RunPasses
<1>3. CASE TearDown
  BY <1>3, DestroyOwnedStep, HooksFiredStep, CallOnDestroyStep, NextModuleStep,
     EndDestroyStep, EngineDestroyStep, ModulesGoneStep, EndEngineDestroyStep DEF TearDown
<1>4. CASE UNCHANGED sessionsVars BY <1>4, SessionsStutter
<1> QED BY <1>1, <1>2, <1>3, <1>4, CarefulDestroyStep DEF CarefulSessionsNext

\* The stack of calls, the owners and the tables fit each other in every
\* state that host, runtime and careful user code reach.
THEOREM SessionsInvariant == CarefulSessionsSpec => []SessionsInv
<1>1. SessionsInit => SessionsInv BY SessionsInitInv
<1>2. SessionsInv /\ [CarefulSessionsNext]_sessionsVars => SessionsInv' BY SessionsStep
<1> QED BY <1>1, <1>2, PTL DEF CarefulSessionsSpec

\* Every table, entry and call has its type, at any size of the tables.
THEOREM SessionsTyped == CarefulSessionsSpec => []SessionsTypeOK
<1>1. SessionsInv => SessionsTypeOK BY DEF SessionsInv
<1> QED BY <1>1, SessionsInvariant, PTL

\* No entry, ambient pointer or call in progress is left with a session or an
\* engine that is gone, however deep user code calls back into the runtime, if
\* it leaves the engine its sessions, destroys none that a call has saved and
\* takes the entry of the others out.
THEOREM SessionsStayLive == CarefulSessionsSpec => []SessionsLive
<1>1. ASSUME SessionsInv PROVE SessionsLive
  <2>1. \A e \in Range(registry) : session[e.session].live /\ ~session[e.session].engine
    BY <1>1 DEF SessionsInv, OwnersOK, RegistryOK, Range
  <2>2. IsInjective([n \in DOMAIN registry |-> registry[n].session])
    BY <1>1 DEF SessionsInv, OwnersOK, RegistryOK, IsInjective
  <2>3. engine.live /\ ~TearingDown => session[Main].live
    BY <1>1, QuietIs DEF SessionsInv, OwnersOK
  <2>4. \A n \in 1 .. MaxSecondary : engine.secondary[n] # NoEntry =>
          LET s == engine.secondary[n].session IN session[s].live /\ session[s].engine
    BY <1>1 DEF SessionsInv, OwnersOK, EntryOK
  <2>5. currentSession # Null => session[currentSession].live BY <1>1, AmbientOK
  <2>6. currentEngine => engine.live BY <1>1, AmbientOK
  <2>7. \A c \in Range(calls) : c.session # Null => session[c.session].live
    BY <1>1 DEF SessionsInv, StackOK, HoldsOK, Alive, Range
  <2> QED BY <2>1, <2>2, <2>3, <2>4, <2>5, <2>6, <2>7 DEF SessionsLive
<1> QED BY <1>1, SessionsInvariant, PTL

\* Of careful users again: every module that is bound and not replaced is
\* released once, by the teardown of the table that holds it and in reverse
\* order, and is not offered afterwards.
THEOREM ModulesReleasedOnce == CarefulSessionsSpec => []ReleasedOnce
<1>1. ASSUME SessionsInv PROVE ReleasedOnce
  <2>1. PICK T : T = TeardownsIn(calls) OBVIOUS
  <2>2. BindingsOK(T) BY <1>1, <2>1 DEF SessionsInv
  <2>3. ASSUME NEW s \in Owners, NEW b \in Range(ModulesOf(s))
        PROVE  \E k \in DOMAIN ModulesOf(s) : At(s, k) = b.module
    BY <2>3 DEF Range, At
  <2>4. ASSUME NEW m \in Modules
        PROVE  LET holders == {s \in Owners : \E b \in Range(ModulesOf(s)) : b.module = m} IN
                 /\ module[m] # "twice"
                 /\ module[m] = "bound" => holders # {}
                 /\ module[m] = "gone" => \A s \in holders : Emptying(s)
                 /\ ~TearingDown /\ module[m] = "gone" => \A key \in Keys : Resolved(key) # m
    <3>1. PICK holders : holders = {s \in Owners : \E b \in Range(ModulesOf(s)) : b.module = m} OBVIOUS
    <3>2. module[m] # "twice" BY <2>2 DEF BindingsOK
    <3>3. ASSUME module[m] = "bound" PROVE holders # {}
      <4>1. PICK s \in Owners : \E k \in DOMAIN ModulesOf(s) : At(s, k) = m
        BY <3>3, <2>2 DEF BindingsOK
      <4>2. s \in holders BY <4>1, <3>1 DEF At, Range
      <4> QED BY <4>2
    <3>4. ASSUME module[m] = "gone", NEW s \in holders PROVE Emptying(s)
      <4>1. PICK k \in DOMAIN ModulesOf(s) : At(s, k) = m BY <3>1, <2>3
      <4>2. s \in Owners BY <3>1
      <4>3. PICK c \in T : c.session = s BY <4>1, <4>2, <3>4, <2>2 DEF BindingsOK
      <4> QED BY <4>3, <2>1 DEF Emptying, TeardownsIn, Teardowns
    <3>5. ASSUME ~TearingDown, module[m] = "gone", NEW key \in Keys PROVE Resolved(key) # m
      <4>1. T = {} BY <1>1, <2>1, <3>5, QuietIs
      <4>2. ASSUME NEW s \in Owners, NEW k \in DOMAIN ModulesOf(s) PROVE At(s, k) # m
        BY <4>1, <4>2, <2>2, <3>5 DEF BindingsOK
      <4>3. ASSUME NEW s \in Owners PROVE Bound(ModulesOf(s), key) # m
        <5>1. s \in Handles \union {Null} BY DEF Owners
        <5>2. ModulesOf(s) \in Seq(Binding) BY <5>1, <1>1, TablesTyped
        <5>3. m # Null BY SessionsAssumption
        <5> QED BY <5>2, <5>3, <4>2, BoundIs DEF At
      <4>4. engine.live => Bound(engine.modules, key) # m
        <5>1. engine.live => Null \in Owners BY DEF Owners
        <5>2. ModulesOf(Null) = engine.modules BY DEF ModulesOf
        <5> QED BY <5>1, <5>2, <4>3
      <4>5. PICK s : s = currentSession OBVIOUS
      <4>6. s # Null => SessionModule(s, key) # m
        <5>1. SUFFICES ASSUME s # Null PROVE SessionModule(s, key) # m OBVIOUS
        <5>2. s \in Handles /\ session[s].live BY <5>1, <4>5, <1>1, AmbientOK
        <5>3. session[s].engine => engine.live BY <5>2, <1>1 DEF SessionsInv, OwnersOK, OwnedOK
        <5>4. s \in Owners /\ ModulesOf(s) = session[s].modules BY <5>1, <5>2 DEF Owners, ModulesOf
        <5> QED BY <5>3, <5>4, <4>3, <4>4 DEF SessionModule
      <4>7. currentEngine => engine.live BY <1>1, AmbientOK
      <4>8. m # Null BY SessionsAssumption
      <4> QED BY <4>4, <4>5, <4>6, <4>7, <4>8 DEF Resolved
    <3> QED BY <3>1, <3>2, <3>3, <3>4, <3>5
  <2>5. ASSUME NEW c \in Range(calls), c.call = "Destroy" \/ c.call = "EngineDestroy",
               NEW k \in DOMAIN ModulesOf(c.session)
        PROVE  LET gone == module[ModulesOf(c.session)[k].module] = "gone" IN
                 CASE c.at = "hooks" -> ~gone
                   [] c.at = "callback" -> gone <=> k >= c.i
                   [] OTHER -> gone <=> k > c.i
    <3>1. c \in T BY <2>1, <2>5 DEF TeardownsIn, Teardowns
    <3>2. module[ModulesOf(c.session)[k].module] = IF HasGone(c, k) THEN "gone" ELSE "bound"
      BY <3>1, <2>2 DEF BindingsOK, At
    <3> QED BY <3>2 DEF HasGone
  <2> QED BY <2>4, <2>5 DEF ReleasedOnce
<1> QED BY <1>1, SessionsInvariant, PTL

-----------------------------------------------------------------------------
(* Applications and their libraries.                                       *)

Libraries == Path \ {HostImage, Nowhere}

\* Has the application a library loaded?  It may be linked into the host.
Loaded(a) == apps[a].isLoaded /\ ~apps[a].isStatic

Using(a, p) == Loaded(a) /\ apps[a].loadedPath = p
Users(p) == {a \in Apps : Using(a, p)}
HeldImage(p) == call.at = "release" /\ call.old = p

\* How often a library should be open, and how often it is.
Opens(p) == Cardinality(Users(p)) + (IF HeldImage(p) THEN 1 ELSE 0)
Refs(im, p) == IF p \in DOMAIN im THEN im[p].refs ELSE 0

AppOK(app, image) ==
  /\ ~app.isLoaded => app = NoApp /\ image = Nowhere
  /\ app.isLoaded /\ app.isStatic => app.loadedPath = HostImage
  /\ app.isLoaded /\ ~app.isStatic =>
       app.loadedPath \in Libraries /\ app.instanceId > 0
  /\ image = Nowhere \/ image = app.loadedPath

AppsOK == \A a \in Apps : AppOK(apps[a], body[a])

ActiveOK == \A i \in DOMAIN active : Loaded(active[i])

LoadCalls ==
  [at : {"copy", "open"}, kind : {"load", "reload"}, app : Apps,
   auto : BOOLEAN, time : Nat, id : 1 .. MaxInstances, n : Nat \ {0}]
ReleaseCalls == [at : {"release"}, app : Apps, old : Libraries]

LoadOK ==
  /\ call \in LoadCalls
  /\ call.at = "copy" => Windows
  /\ call.kind = "load" => ~apps[call.app].isLoaded
  /\ call.kind = "reload" => Loaded(call.app)

CallOK == call = NoCall \/ LoadOK \/ call \in ReleaseCalls

ImageOK(p) == IsFiniteSet(Users(p)) /\ Refs(images, p) = Opens(p)
ImagesOK == HostImage \in DOMAIN images /\ \A p \in Libraries : ImageOK(p)

\* From its first step a load finds a disk without the copies of earlier
\* processes, whether it succeeds or not.
Busy == call.at # "none" \/ \E a \in Apps : Loaded(a)
ShadowsOK == Windows /\ Busy => \A p \in Shadows : Owned(p)

Inv ==
  /\ TypeOK /\ AppsOK /\ ActiveOK /\ CallOK /\ ImagesOK /\ ShadowsOK

-----------------------------------------------------------------------------
(* The types, with names for their parts.                                  *)

AppType == [isLoaded : BOOLEAN, isStarted : BOOLEAN, isStatic : BOOLEAN,
            loadedPath : Path, build : 0 .. MaxBuilds, lastWriteTime : Nat,
            instanceId : 0 .. MaxInstances, reloadCount : Nat]
FileType == [build : 0 .. MaxBuilds, content : Contents]
ImageType == [build : 0 .. MaxBuilds, refs : Nat \ {0}]

DiskOK(d) == DOMAIN d \subseteq Libraries /\ \A p \in DOMAIN d : d[p] \in FileType
MapOK(im) == DOMAIN im \subseteq Path /\ \A p \in DOMAIN im : im[p] \in ImageType
ActiveTyped(s) ==
  s \in Seq(Apps) /\ Len(s) <= MaxActive /\ IsInjective(s)
CallTyped == call.at \in {"none", "copy", "open", "release"}

\* TypeOK by these names.
LEMMA Types ==
  TypeOK <=>
    /\ DiskOK(disk) /\ pdbs \subseteq Path
    /\ mtime \in Nat \ {0} /\ linking \in BOOLEAN
    /\ MapOK(images)
    /\ apps \in [Apps -> AppType]
    /\ ActiveTyped(active)
    /\ instances \in 0 .. MaxInstances
    /\ process \in 1 .. MaxProcesses
    /\ body \in [Apps -> Path]
    /\ CallTyped
BY DEF TypeOK, DiskOK, MapOK, AppType, FileType, ImageType, ActiveTyped,
   CallTyped, Libraries

\* What every step leaves to prove.
LEMMA Assemble ==
  ASSUME DiskOK(disk)', (pdbs \subseteq Path)',
         (mtime \in Nat \ {0} /\ linking \in BOOLEAN)',
         MapOK(images)', (apps \in [Apps -> AppType])', ActiveTyped(active)',
         (instances \in 0 .. MaxInstances)', (process \in 1 .. MaxProcesses)',
         (body \in [Apps -> Path])',
         AppsOK', ActiveOK', CallOK', ImagesOK', ShadowsOK'
  PROVE  Inv'
<1>1. CallTyped'
  BY DEF CallOK, CallTyped, NoCall, LoadOK, LoadCalls, ReleaseCalls
<1>2. TypeOK'
  BY <1>1 DEF TypeOK, DiskOK, MapOK, AppType, FileType, ImageType, ActiveTyped,
     CallTyped, Libraries
<1> QED
  BY <1>2 DEF Inv

\* The paths are tuples that differ: copies carry the number of a process,
\* which is not zero.
LEMMA Paths ==
  /\ Original \in Libraries /\ HostImage \in Path /\ Nowhere \in Path
  /\ HostImage # Nowhere
  /\ \A k \in 1 .. MaxProcesses, id \in 1 .. MaxInstances, n \in Nat \ {0} :
       <<k, id, n>> \in Libraries
<1>1. HostImage # Nowhere /\ HostImage # Original /\ Nowhere # Original
  BY DEF HostImage, Nowhere, Original
<1>2. ASSUME NEW k \in 1 .. MaxProcesses, NEW id \in 1 .. MaxInstances,
             NEW n \in Nat \ {0}
      PROVE  <<k, id, n>> \in Libraries
  <2>1. k # 0
    BY AppModulesAssumption
  <2>2. <<k, id, n>> # HostImage /\ <<k, id, n>> # Nowhere
    BY <2>1 DEF HostImage, Nowhere
  <2>3. <<k, id, n>> \in Path
    BY DEF Path
  <2> QED
    BY <2>2, <2>3 DEF Libraries
<1> QED
  BY <1>1, <1>2 DEF Libraries, Path

\* A load works on a library.
LEMMA CandidateIsLibrary ==
  ASSUME LoadOK, process \in 1 .. MaxProcesses
  PROVE  Candidate \in Libraries
<1>1. call.id \in 1 .. MaxInstances /\ call.n \in Nat \ {0}
  BY DEF LoadOK, LoadCalls
<1> QED
  BY <1>1, Paths DEF Candidate, ShadowPath

-----------------------------------------------------------------------------
(* The images.                                                             *)

\* One more handle of a library.
LEMMA OpenedRefs ==
  ASSUME NEW im, MapOK(im), NEW p \in Path, DiskOK(disk),
         p \in DOMAIN im \/ p \in DOMAIN disk
  PROVE  /\ MapOK(Opened(im, p))
         /\ DOMAIN Opened(im, p) = DOMAIN im \union {p}
         /\ Refs(Opened(im, p), p) = Refs(im, p) + 1
         /\ \A q : q # p => Refs(Opened(im, p), q) = Refs(im, q)
<1> DEFINE op == Opened(im, p)
<1>1. CASE p \in DOMAIN im
  <2>1. op = [im EXCEPT ![p].refs = @ + 1]
    BY <1>1 DEF Opened
  <2>2. im[p] \in ImageType
    BY <1>1 DEF MapOK
  <2>3. [im[p] EXCEPT !.refs = @ + 1] \in ImageType
    BY <2>2 DEF ImageType
  <2>4. DOMAIN op = DOMAIN im
    BY <2>1
  <2>5. op[p] = [im[p] EXCEPT !.refs = @ + 1]
    BY <2>1, <1>1
  <2>6. op[p].refs = im[p].refs + 1
    BY <2>5, <2>2 DEF ImageType
  <2>7. \A q \in DOMAIN im : q # p => op[q] = im[q]
    BY <2>1
  <2> HIDE DEF op
  <2> QED
    BY <1>1, <2>3, <2>4, <2>5, <2>6, <2>7 DEF op, MapOK, Refs
<1>2. CASE p \notin DOMAIN im
  <2>1. op = [q \in DOMAIN im \union {p} |->
                IF q = p THEN [build |-> disk[p].build, refs |-> 1] ELSE im[q]]
    BY <1>2 DEF Opened
  <2>2. disk[p].build \in 0 .. MaxBuilds
    BY <1>2 DEF DiskOK, FileType
  <2>3. [build |-> disk[p].build, refs |-> 1] \in ImageType
    BY <2>2 DEF ImageType
  <2>4. op[p].refs = 1
    BY <2>1
  <2>5. \A q \in DOMAIN im : q # p => op[q] = im[q]
    BY <2>1
  <2>6. DOMAIN op = DOMAIN im \union {p}
    BY <2>1
  <2>7. op[p] \in ImageType
    BY <2>1, <2>3
  <2> HIDE DEF op
  <2> QED
    BY <1>2, <2>4, <2>5, <2>6, <2>7 DEF op, MapOK, Refs
<1> QED
  BY <1>1, <1>2

\* One handle less.
LEMMA ClosedRefs ==
  ASSUME NEW im, MapOK(im), NEW p \in DOMAIN im
  PROVE  /\ MapOK(Closed(im, p))
         /\ DOMAIN im \ {p} \subseteq DOMAIN Closed(im, p)
         /\ DOMAIN Closed(im, p) \subseteq DOMAIN im
         /\ Refs(Closed(im, p), p) = Refs(im, p) - 1
         /\ \A q : q # p => Refs(Closed(im, p), q) = Refs(im, q)
<1> DEFINE cl == Closed(im, p)
<1>0. im[p] \in ImageType
  BY DEF MapOK
<1>1. CASE im[p].refs > 1
  <2>1. cl = [im EXCEPT ![p].refs = @ - 1]
    BY <1>1 DEF Closed
  <2>3. [im[p] EXCEPT !.refs = @ - 1] \in ImageType
    BY <1>0, <1>1 DEF ImageType
  <2>4. DOMAIN cl = DOMAIN im
    BY <2>1
  <2>5. cl[p] = [im[p] EXCEPT !.refs = @ - 1]
    BY <2>1
  <2>6. cl[p].refs = im[p].refs - 1
    BY <2>5, <1>0 DEF ImageType
  <2>7. \A q \in DOMAIN im : q # p => cl[q] = im[q]
    BY <2>1
  <2> HIDE DEF cl
  <2> QED
    BY <2>3, <2>4, <2>5, <2>6, <2>7 DEF cl, MapOK, Refs
<1>2. CASE ~(im[p].refs > 1)
  <2>1. cl = [q \in DOMAIN im \ {p} |-> im[q]]
    BY <1>2 DEF Closed, Restrict
  <2>2. im[p].refs = 1
    BY <1>0, <1>2 DEF ImageType
  <2>3. DOMAIN cl = DOMAIN im \ {p} /\ \A q \in DOMAIN im \ {p} : cl[q] = im[q]
    BY <2>1
  <2> HIDE DEF cl
  <2> QED
    BY <2>2, <2>3 DEF cl, MapOK, Refs
<1> QED
  BY <1>1, <1>2

\* What is mapped is open at least once.
LEMMA MappedOpen ==
  ASSUME NEW im, MapOK(im), NEW p
  PROVE  Refs(im, p) \in Nat /\ (p \in DOMAIN im <=> Refs(im, p) # 0)
BY DEF MapOK, Refs, ImageType

\* A library that an application has loaded is mapped, and one that is mapped
\* is loaded or held by the reload in progress.
LEMMA MappedUsed ==
  ASSUME MapOK(images), NEW p \in Libraries, ImageOK(p)
  PROVE  p \in DOMAIN images <=> HeldImage(p) \/ \E a \in Apps : Using(a, p)
<1>1. p \in DOMAIN images <=> Opens(p) # 0
  BY MappedOpen DEF ImageOK
<1>2. Cardinality(Users(p)) \in Nat
  BY FS_CardinalityType DEF ImageOK
<1>3. Cardinality(Users(p)) = 0 <=> Users(p) = {}
  BY FS_EmptySet DEF ImageOK
<1>4. Users(p) = {} <=> ~\E a \in Apps : Using(a, p)
  BY DEF Users
<1> QED
  BY <1>1, <1>2, <1>3, <1>4 DEF Opens

-----------------------------------------------------------------------------
(* Parts that several steps leave alone.                                   *)

\* Between calls.
LEMMA IdleCall ==
  ASSUME CallOK, Idle
  PROVE  call = NoCall /\ (\A p : ~HeldImage(p))
         /\ \A p : Owned(p) => \E a \in Apps : apps[a].loadedPath = p
<1>1. call.at = "none"
  BY DEF Idle
<1>2. call = NoCall
  BY <1>1 DEF CallOK, LoadOK, LoadCalls, ReleaseCalls
<1> QED
  BY <1>1, <1>2 DEF HeldImage, Owned

\* While a library is loaded nothing is released.
LEMMA LoadingCall ==
  ASSUME CallOK, call.at \in {"copy", "open"}
  PROVE  LoadOK /\ (\A p : ~HeldImage(p))
BY DEF CallOK, NoCall, ReleaseCalls, HeldImage

\* A step that leaves alone what is loaded and what is mapped.
LEMMA ImagesKept ==
  ASSUME ImagesOK, images' = images,
         \A a \in Apps : Loaded(a)' <=> Loaded(a),
         \A a \in Apps : Loaded(a) =>
           apps'[a].loadedPath = apps[a].loadedPath,
         \A p : ~HeldImage(p), call'.at # "release"
  PROVE  ImagesOK'
<1>1. ASSUME NEW p \in Libraries
      PROVE  ImageOK(p)'
  <2>1. Users(p)' = Users(p)
    BY DEF Users, Using
  <2>2. Opens(p)' = Opens(p)
    BY <2>1 DEF Opens, HeldImage
  <2> QED
    BY <2>1, <2>2 DEF ImagesOK, ImageOK
<1>2. Libraries' = Libraries /\ HostImage' = HostImage
  BY DEF Libraries, Path, HostImage, Nowhere, Original
<1> QED
  BY <1>1, <1>2 DEF ImagesOK

\* An application as it comes out of a load is what AppOK says.
LEMMA AppsKept ==
  ASSUME AppsOK, apps' = apps, body' = body
  PROVE  AppsOK'
BY DEF AppsOK, AppOK, NoApp, Libraries, Path, HostImage, Nowhere, Original

\* What is registered stays loaded.
LEMMA ActiveKept ==
  ASSUME ActiveOK, active' = active, active \in Seq(Apps),
         \A a \in Apps : Loaded(a) => Loaded(a)'
  PROVE  ActiveOK'
<1> SUFFICES ASSUME NEW i \in DOMAIN active
             PROVE  Loaded(active[i])'
  BY DEF ActiveOK
<1>1. active[i] \in Apps /\ Loaded(active[i])
  BY DEF ActiveOK
<1> QED
  BY <1>1 DEF Loaded

\* A step that takes files off the disk and leaves their owners alone.
LEMMA OwnedKept ==
  ASSUME ShadowsOK, DOMAIN disk' \subseteq DOMAIN disk \union {Original},
         Windows /\ Busy' => Busy,
         \A p \in DOMAIN disk' \ {Original} : Owned(p) => Owned(p)'
  PROVE  ShadowsOK'
BY DEF ShadowsOK, Shadows, Original

\* Nothing that is swept away is in use: what is left is the library, or
\* mapped.
LEMMA SweptDisk ==
  ASSUME DiskOK(disk), NEW im
  PROVE  /\ DiskOK(Swept(disk, im))
         /\ DOMAIN Swept(disk, im) \subseteq DOMAIN disk
         /\ \A p \in DOMAIN Swept(disk, im) : p = Original \/ p \in DOMAIN im
BY DEF Swept, Restrict, DiskOK

\* A file that is deleted is gone, unless it is mapped.
LEMMA DeletedDisk ==
  ASSUME NEW d, DiskOK(d), NEW im, NEW p
  PROVE  /\ DiskOK(Deleted(d, p, im))
         /\ DOMAIN Deleted(d, p, im) \subseteq DOMAIN d
         /\ Windows /\ p \in DOMAIN Deleted(d, p, im) => p \in DOMAIN im
BY DEF Deleted, Restrict, DiskOK

-----------------------------------------------------------------------------
(* Loading.                                                                *)

\* A load that finds nothing registered sweeps the disk first; if something
\* is registered, every copy has its owner already.
LEMMA LoadBeginStep ==
  ASSUME Inv, NEW a \in Apps, NEW auto \in BOOLEAN, LoadBegin(a, auto)
  PROVE  Inv'
<1> USE DEF Inv
<1>0. /\ Idle /\ ~apps[a].isLoaded /\ instances < MaxInstances
      /\ disk' = IF active = <<>> THEN Swept(disk, images) ELSE disk
      /\ pdbs' = IF active = <<>> THEN {} ELSE pdbs
      /\ UNCHANGED <<mtime, linking, images, apps, active, process, body>>
  BY DEF LoadBegin
<1>1. call = NoCall /\ (\A p : ~HeldImage(p))
      /\ \A p : Owned(p) => \E b \in Apps : apps[b].loadedPath = p
  BY <1>0, IdleCall
<1>2. DiskOK(disk)' /\ DOMAIN disk' \subseteq DOMAIN disk
  <2>1. DiskOK(disk)
    BY Types
  <2>2. DiskOK(disk') /\ DOMAIN disk' \subseteq DOMAIN disk
    BY <2>1, <1>0, SweptDisk
  <2> QED
    BY <2>2 DEF DiskOK, Libraries, Path, HostImage, Nowhere, Original, FileType,
       Contents
<1>3. CallOK' /\ call'.at # "release" /\ instances' \in 0 .. MaxInstances
  <2>1. CASE call' = call /\ instances' = instances
    BY <2>1, <1>1, Types DEF CallOK, NoCall
  <2>2. CASE /\ instances' = instances + 1
             /\ call' = [at |-> IF Windows THEN "copy" ELSE "open",
                         kind |-> "load", app |-> a, auto |-> auto,
                         time |-> mtime, id |-> instances + 1, n |-> 1]
    <3>1. instances + 1 \in 1 .. MaxInstances /\ mtime \in Nat
      BY <1>0, Types, AppModulesAssumption
    <3>2. call' \in LoadCalls
      BY <3>1, <2>2 DEF LoadCalls
    <3>3. LoadCalls' = LoadCalls
      BY DEF LoadCalls
    <3>4. (call'.at = "copy" => Windows) /\ call'.kind = "load"
          /\ call'.app = a /\ call'.at # "release"
      BY <2>2
    <3>5. LoadOK'
      BY <3>2, <3>3, <3>4, <1>0 DEF LoadOK
    <3> QED
      BY <3>5, <3>4, <3>1, <2>2 DEF CallOK
  <2> QED
    BY <2>1, <2>2 DEF LoadBegin
<1>4. ImagesOK'
  BY <1>0, <1>1, <1>3, ImagesKept DEF Loaded
<1>5. ShadowsOK'
  <2> SUFFICES ASSUME Windows, NEW p \in DOMAIN disk', p # Original
               PROVE  \E b \in Apps : apps[b].loadedPath = p
    BY <1>0 DEF ShadowsOK, Owned, Shadows, Original
  <2>1. CASE active = <<>>
    <3>1. p \in DOMAIN images /\ p \in Libraries
      BY <2>1, <1>0, Types, SweptDisk DEF DiskOK
    <3>2. \E b \in Apps : Using(b, p)
      BY <3>1, <1>1, Types, MappedUsed DEF ImagesOK
    <3> QED
      BY <3>2 DEF Using
  <2>2. CASE active # <<>>
    <3>1. active \in Seq(Apps)
      BY Types DEF ActiveTyped
    <3>2. 1 \in DOMAIN active /\ active[1] \in Apps
      BY <3>1, <2>2
    <3>3. Busy
      BY <3>2 DEF ActiveOK, Busy
    <3>4. Owned(p)
      BY <3>3, <2>2, <1>0 DEF ShadowsOK, Shadows
    <3> QED
      BY <3>4, <1>1
  <2> QED
    BY <2>1, <2>2
<1>6. AppsOK' /\ ActiveOK'
  BY <1>0, Types, AppsKept, ActiveKept DEF ActiveTyped, Loaded
<1>7. /\ (pdbs \subseteq Path)' /\ (mtime \in Nat \ {0} /\ linking \in BOOLEAN)'
      /\ MapOK(images)' /\ (apps \in [Apps -> AppType])' /\ ActiveTyped(active)'
      /\ (process \in 1 .. MaxProcesses)' /\ (body \in [Apps -> Path])'
  BY <1>0, Types DEF MapOK, ImageType, AppType, ActiveTyped, Path, HostImage,
     Nowhere, Original
<1> QED
  BY <1>2, <1>3, <1>4, <1>5, <1>6, <1>7, Assemble

\* An application that is linked into the host has no library.
LEMMA AppBindStaticStep ==
  ASSUME Inv, NEW a \in Apps, AppBindStatic(a)
  PROVE  Inv'
<1> USE DEF Inv
<1> DEFINE new == [NoApp EXCEPT !.isLoaded = TRUE, !.isStatic = TRUE,
                                !.loadedPath = HostImage]
<1>0. /\ Idle /\ ~apps[a].isLoaded
      /\ apps' = [apps EXCEPT ![a] = new]
      /\ UNCHANGED <<disk, pdbs, mtime, linking, images, active, instances,
                     process, body, call>>
  BY DEF AppBindStatic
<1>1. call = NoCall /\ (\A p : ~HeldImage(p))
      /\ \A p : Owned(p) => \E b \in Apps : apps[b].loadedPath = p
  BY <1>0, IdleCall
<1>2. /\ new \in AppType /\ new.isLoaded /\ new.isStatic
      /\ new.loadedPath = HostImage
  <2>1. 0 \in 0 .. MaxBuilds /\ 0 \in 0 .. MaxInstances
    BY AppModulesAssumption
  <2>2. NoApp \in AppType
    BY <2>1, Paths DEF NoApp, AppType
  <2> QED
    BY <2>2, Paths DEF AppType
<1>3. apps \in [Apps -> AppType] /\ apps[a] = NoApp /\ body[a] = Nowhere
  BY <1>0, Types DEF AppsOK, AppOK
<1> HIDE DEF new
<1>4. apps' \in [Apps -> AppType] /\ apps'[a] = new
      /\ \A b \in Apps : b # a => apps'[b] = apps[b]
  BY <1>0, <1>2, <1>3
<1>5. \A b \in Apps : Loaded(b)' <=> Loaded(b)
  BY <1>2, <1>3, <1>4 DEF Loaded, NoApp
<1>6. ~Loaded(a)
  BY <1>0 DEF Loaded
<1>7. call'.at = "none"
  BY <1>0, <1>1 DEF NoCall
<1>8. ImagesOK'
  BY <1>0, <1>1, <1>4, <1>5, <1>6, <1>7, ImagesKept
<1>9. AppsOK'
  <2>1. AppOK(new, Nowhere)'
    BY <1>2 DEF AppOK, HostImage, Nowhere
  <2>2. \A b \in Apps : b # a => AppOK(apps[b], body[b])'
    BY <1>0, <1>4 DEF AppsOK, AppOK, NoApp, Libraries, Path, HostImage, Nowhere,
       Original
  <2> QED
    BY <2>1, <2>2, <1>0, <1>3, <1>4 DEF AppsOK, AppOK, Nowhere
<1>10. ShadowsOK'
  <2>1. Busy' => Busy
    BY <1>0, <1>5 DEF Busy
  <2>2. ASSUME NEW p \in DOMAIN disk' \ {Original}, Owned(p)
        PROVE  Owned(p)'
    <3>1. PICK b \in Apps : apps[b].loadedPath = p
      BY <2>2, <1>1
    <3>2. p \in Libraries
      BY <1>0, Types DEF DiskOK
    <3>3. b # a
      BY <3>1, <3>2, <1>3 DEF NoApp, Libraries
    <3> QED
      BY <3>1, <3>3, <1>4 DEF Owned
  <2> QED
    BY <2>1, <2>2, <1>0, OwnedKept
<1>11. ActiveOK'
  BY <1>0, <1>5, Types, ActiveKept DEF ActiveTyped
<1>12. CallOK'
  BY <1>0, <1>1 DEF CallOK, NoCall
<1>13. /\ DiskOK(disk)' /\ (pdbs \subseteq Path)'
       /\ (mtime \in Nat \ {0} /\ linking \in BOOLEAN)'
       /\ MapOK(images)' /\ ActiveTyped(active)' /\ (body \in [Apps -> Path])'
       /\ (instances \in 0 .. MaxInstances)' /\ (process \in 1 .. MaxProcesses)'
  BY <1>0, Types DEF DiskOK, FileType, Contents, MapOK, ImageType, ActiveTyped,
     Path, HostImage, Nowhere, Original, Libraries
<1>14. (apps \in [Apps -> AppType])'
  BY <1>4 DEF AppType, Path, HostImage, Nowhere, Original
<1> QED
  BY <1>8, <1>9, <1>10, <1>11, <1>12, <1>13, <1>14, Assemble

\* Between two steps of a call only the linker and the end of the process
\* intervene, so a call that fails leaves everything as it was, but for the
\* file it would have loaded.
LEMMA FailStep ==
  ASSUME Inv, LoadOK, call.at \in {"copy", "open"}, Fail,
         UNCHANGED <<pdbs, mtime, linking, images, instances, process>>,
         DiskOK(disk)', DOMAIN disk' \subseteq DOMAIN disk,
         Windows /\ call.at = "open" => Candidate \notin DOMAIN disk'
  PROVE  Inv'
<1> USE DEF Inv
<1>0. UNCHANGED <<pdbs, mtime, linking, images, instances, process, apps, active,
                  body>> /\ call' = NoCall
  BY DEF Fail
<1>1. (\A p : ~HeldImage(p)) /\ call'.at # "release" /\ call'.at = "none"
  BY <1>0, LoadingCall DEF NoCall
<1>2. ImagesOK'
  BY <1>0, <1>1, ImagesKept DEF Loaded
<1>3. ShadowsOK'
  <2>1. ASSUME NEW p \in DOMAIN disk' \ {Original}, Windows, Owned(p)
        PROVE  Owned(p)'
    <3>1. ~(call.at = "open" /\ p = Candidate) /\ call.at # "release"
      BY <2>1
    <3>2. \E a \in Apps : apps[a].loadedPath = p
      BY <2>1, <3>1 DEF Owned
    <3> QED
      BY <3>2, <1>0 DEF Owned
  <2>2. Busy
    BY DEF Busy
  <2> QED
    BY <2>1, <2>2 DEF ShadowsOK, Shadows, Original
<1>4. AppsOK' /\ ActiveOK'
  BY <1>0, Types, AppsKept, ActiveKept DEF ActiveTyped, Loaded
<1>5. CallOK'
  BY <1>0 DEF CallOK, NoCall
<1>6. /\ (pdbs \subseteq Path)' /\ (mtime \in Nat \ {0} /\ linking \in BOOLEAN)'
      /\ MapOK(images)' /\ (apps \in [Apps -> AppType])' /\ ActiveTyped(active)'
      /\ (instances \in 0 .. MaxInstances)'
      /\ (process \in 1 .. MaxProcesses)' /\ (body \in [Apps -> Path])'
  BY <1>0, Types DEF MapOK, ImageType, AppType, ActiveTyped, Path, HostImage,
     Nowhere, Original
<1> QED
  BY <1>2, <1>3, <1>4, <1>5, <1>6, Assemble

\* The copy: it belongs to the call that made it.
LEMMA CopyStep ==
  ASSUME Inv, Copy
  PROVE  Inv'
<1> USE DEF Inv
<1>0. /\ call.at = "copy" /\ LoadOK /\ Windows /\ (\A p : ~HeldImage(p))
      /\ UNCHANGED <<mtime, linking, images, instances, process>>
  BY LoadingCall DEF Copy, LoadOK
<1>1. CASE Fail /\ UNCHANGED <<disk, pdbs>>
  <2>1. DiskOK(disk)' /\ DOMAIN disk' \subseteq DOMAIN disk
    BY <1>1, Types DEF DiskOK, Libraries, Path, HostImage, Nowhere, Original,
       FileType, Contents
  <2> QED
    BY <1>0, <1>1, <2>1, FailStep
<1>2. CASE /\ Original \in DOMAIN disk
           /\ disk' = [p \in DOMAIN disk \union {Candidate} |->
                        IF p = Candidate THEN disk[Original] ELSE disk[p]]
           /\ pdbs' = pdbs \union {Candidate}
           /\ call' = [call EXCEPT !.at = "open"]
           /\ UNCHANGED <<apps, active, body>>
  <2>1. Candidate \in Libraries
    BY <1>0, Types, CandidateIsLibrary
  <2>2. DiskOK(disk')
    BY <1>2, <2>1, Types DEF DiskOK
  <2>3. call \in LoadCalls
    BY <1>0 DEF LoadOK
  <2>4. call' \in LoadCalls /\ call'.at = "open" /\ call'.kind = call.kind
        /\ call'.app = call.app /\ call'.id = call.id /\ call'.n = call.n
    BY <2>3, <1>2 DEF LoadCalls
  <2>5. LoadOK'
    BY <1>0, <1>2, <2>4 DEF LoadOK, LoadCalls, Loaded
  <2>6. Candidate' = Candidate
    BY <1>0, <2>4 DEF Candidate, ShadowPath
  <2>7. ImagesOK'
    BY <1>0, <1>2, <2>4, ImagesKept DEF Loaded
  <2>8. ShadowsOK'
    <3> SUFFICES ASSUME NEW p \in DOMAIN disk', p # Original, p # Candidate
                 PROVE  Owned(p)'
      BY <2>4, <2>6 DEF ShadowsOK, Owned, Shadows, Original
    <3>1. Owned(p)
      BY <1>0, <1>2 DEF ShadowsOK, Busy, Shadows
    <3> QED
      BY <3>1, <1>0, <1>2 DEF Owned
  <2>9. AppsOK' /\ ActiveOK'
    BY <1>2, Types, AppsKept, ActiveKept DEF ActiveTyped, Loaded
  <2>10. (pdbs \subseteq Path)'
    BY <1>2, <2>1, Types DEF Libraries, Path, HostImage, Nowhere, Original
  <2>11. /\ (mtime \in Nat \ {0} /\ linking \in BOOLEAN)'
         /\ MapOK(images)' /\ (apps \in [Apps -> AppType])'
         /\ ActiveTyped(active)' /\ (instances \in 0 .. MaxInstances)'
         /\ (process \in 1 .. MaxProcesses)' /\ (body \in [Apps -> Path])'
    BY <1>0, <1>2, Types DEF MapOK, ImageType, AppType, ActiveTyped, Path,
       HostImage, Nowhere, Original
  <2>12. DiskOK(disk)'
    BY <2>2 DEF DiskOK, Libraries, Path, HostImage, Nowhere, Original, FileType,
       Contents
  <2>13. CallOK'
    BY <2>5 DEF CallOK
  <2> QED
    BY <2>7, <2>8, <2>9, <2>10, <2>11, <2>12, <2>13, Assemble
<1> QED
  BY <1>1, <1>2 DEF Copy

\* A library that cannot be used is not mapped, so that its file can be
\* deleted.
LEMMA OpenFailsStep ==
  ASSUME Inv, OpenRefused \/ OpenForeign
  PROVE  Inv'
<1> USE DEF Inv
<1>0. /\ call.at = "open" /\ Candidate \notin DOMAIN images
      /\ disk' = Deleted(disk, Candidate, images) /\ Fail
      /\ UNCHANGED <<pdbs, mtime, linking, images, instances, process>>
  BY DEF OpenRefused, OpenForeign, CanOpen, HasEntry
<1>1. LoadOK
  BY <1>0, LoadingCall
<1>2. /\ DiskOK(disk') /\ DOMAIN disk' \subseteq DOMAIN disk
      /\ Windows => Candidate \notin DOMAIN disk'
  BY <1>0, Types, DeletedDisk
<1>3. DiskOK(disk)'
  BY <1>2 DEF DiskOK, Libraries, Path, HostImage, Nowhere, Original, FileType,
     Contents
<1> QED
  BY <1>0, <1>1, <1>2, <1>3, FailStep

-----------------------------------------------------------------------------
(* A library comes into use.                                               *)

\* The call has opened its library: the application that gets it uses no
\* other, except that a reload holds the one it used before.
LEMMA ImagesOpened ==
  ASSUME Inv, LoadOK, call.at = "open", CanOpen(Candidate),
         NEW a, a = call.app, NEW c, c = Candidate,
         images' = Opened(images, c), Using(a, c)',
         \A b \in Apps : b # a => apps'[b] = apps[b],
         \/ ~Loaded(a) /\ call'.at # "release"
         \/ /\ Loaded(a) /\ call'.at = "release"
            /\ call'.old = apps[a].loadedPath
  PROVE  ImagesOK' /\ MapOK(images)'
<1> USE DEF Inv
<1>0. a \in Apps /\ c \in Libraries /\ c \in Path /\ (\A p : ~HeldImage(p))
  BY Types, CandidateIsLibrary, LoadingCall DEF LoadOK, LoadCalls, Libraries
<1>1. /\ MapOK(images') /\ DOMAIN images' = DOMAIN images \union {c}
      /\ Refs(images', c) = Refs(images, c) + 1
      /\ \A q : q # c => Refs(images', q) = Refs(images, q)
  <2>1. c \in DOMAIN images \/ c \in DOMAIN disk
    BY DEF CanOpen
  <2> QED
    BY <2>1, <1>0, Types, OpenedRefs
<1>3. ASSUME NEW p \in Libraries
      PROVE  ImageOK(p)'
  <2> DEFINE others == {b \in Apps : b # a /\ Using(b, p)}
  <2>1. IsFiniteSet(Users(p)) /\ Refs(images, p) = Cardinality(Users(p))
    <3>1. ImageOK(p)
      BY DEF ImagesOK
    <3> QED
      BY <3>1, <1>0, FS_CardinalityType DEF ImageOK, Opens
  <2>2. Users(p) = IF Using(a, p) THEN others \union {a} ELSE others
    BY <1>0 DEF Users
  <2>3. Users(p)' = IF p = c THEN others \union {a} ELSE others
    <3>1. \A b \in Apps : b # a => (Using(b, p)' <=> Using(b, p))
      BY DEF Using, Loaded
    <3>2. Using(a, p)' <=> p = c
      BY DEF Using
    <3> QED
      BY <3>1, <3>2, <1>0 DEF Users
  <2>4. a \notin others /\ IsFiniteSet(others)
    <3>1. others \subseteq Users(p)
      BY DEF Users
    <3> QED
      BY <3>1, <2>1, FS_Subset
  <2>5. HeldImage(p)' <=> Using(a, p)
    BY <1>0 DEF HeldImage, Using, Loaded
  <2> HIDE DEF others
  <2>6. /\ IsFiniteSet(others \union {a})
        /\ Cardinality(others \union {a}) = Cardinality(others) + 1
        /\ Cardinality(others) \in Nat
    BY <2>4, FS_AddElement, FS_CardinalityType
  <2>7. Refs(images', p) = Refs(images, p) + (IF p = c THEN 1 ELSE 0)
    <3>1. Refs(images, p) \in Nat
      BY <2>1, FS_CardinalityType
    <3> QED
      BY <3>1, <1>1
  <2>8. IsFiniteSet(Users(p)')
    BY <2>3, <2>4, <2>6
  <2>9. Refs(images', p) = Cardinality(Users(p)') + (IF Using(a, p) THEN 1 ELSE 0)
    <3>1. Cardinality(Users(p)) =
            Cardinality(others) + (IF Using(a, p) THEN 1 ELSE 0)
      BY <2>2, <2>6
    <3>2. Cardinality(Users(p)') =
            Cardinality(others) + (IF p = c THEN 1 ELSE 0)
      BY <2>3, <2>6
    <3> QED
      BY <3>1, <3>2, <2>1, <2>6, <2>7
  <2> QED
    BY <2>5, <2>8, <2>9 DEF ImageOK, Opens
<1>4. HostImage \in DOMAIN images'
  BY <1>1 DEF ImagesOK
<1> QED
  BY <1>1, <1>3, <1>4 DEF ImagesOK, Libraries, Path, HostImage, Nowhere, Original,
     MapOK, ImageType

\* The application that CelsAppModuleLoadEntryInternal fills in.
LEMMA LoadOpenStep ==
  ASSUME Inv, LoadOpen
  PROVE  Inv'
<1> USE DEF Inv
<1>a. PICK a, c : a = call.app /\ c = Candidate
  OBVIOUS
<1> DEFINE new == [isLoaded |-> TRUE, isStarted |-> call.auto, isStatic |-> FALSE,
                   loadedPath |-> c, build |-> images'[c].build,
                   lastWriteTime |-> call.time, instanceId |-> call.id,
                   reloadCount |-> 1]
<1>0. /\ call.at = "open" /\ call.kind = "load" /\ CanOpen(c)
      /\ images' = Opened(images, c)
      /\ apps' = [apps EXCEPT ![a] = new]
      /\ body' = IF call.auto THEN [body EXCEPT ![a] = c] ELSE body
      /\ active' = Registered(a) /\ call' = NoCall
      /\ UNCHANGED <<disk, pdbs, mtime, linking, instances, process>>
  <2>1. /\ call.at = "open" /\ call.kind = "load" /\ CanOpen(c)
        /\ images' = Opened(images, c)
        /\ apps' = [apps EXCEPT ![a] = new]
        /\ active' = Registered(a) /\ call' = NoCall
        /\ UNCHANGED <<disk, pdbs, mtime, linking, instances, process>>
    BY <1>a DEF LoadOpen
  <2>2. /\ call.app \in Apps /\ ~apps[a].isLoaded
    BY <1>a, <2>1, LoadingCall DEF LoadOK, LoadCalls
  <2>3. body[a] = Nowhere /\ body \in [Apps -> Path]
    BY <1>a, <2>2, Types DEF AppsOK, AppOK
  <2>4. PICK kept \in {body[a], Nowhere} :
          body' = [body EXCEPT ![a] = IF call.auto THEN c ELSE kept]
    BY <1>a DEF LoadOpen, Attached
  <2>5. kept = body[a]
    BY <2>3, <2>4
  <2>6. CASE call.auto
    BY <2>1, <2>4, <2>6
  <2>7. CASE ~call.auto
    <3>1. body' = body
      BY <2>3, <2>4, <2>5, <2>7
    <3> QED
      BY <2>1, <2>7, <3>1
  <2> QED
    BY <2>6, <2>7
<1>1. /\ LoadOK /\ (\A p : ~HeldImage(p)) /\ a \in Apps /\ ~Loaded(a)
      /\ apps[a] = NoApp /\ body[a] = Nowhere /\ c \in Libraries /\ c \in Path
      /\ call.auto \in BOOLEAN /\ call.time \in Nat /\ call.id \in 1 .. MaxInstances
  BY <1>a, <1>0, Types, LoadingCall, CandidateIsLibrary DEF LoadOK, LoadCalls,
     AppsOK, AppOK, Loaded, Libraries
<1>2. /\ new.isLoaded /\ ~new.isStatic /\ new.loadedPath = c
      /\ new.instanceId = call.id /\ call'.at = "none"
  BY <1>0 DEF NoCall
<1>3. apps'[a] = new /\ \A b \in Apps : b # a => apps'[b] = apps[b]
  BY <1>0, <1>1, Types
<1>4. Using(a, c)'
  BY <1>2, <1>3 DEF Using, Loaded
<1>5. ImagesOK' /\ MapOK(images)'
  BY <1>a, <1>0, <1>1, <1>2, <1>3, <1>4, ImagesOpened
<1>6. new \in AppType
  <2>1. c \in DOMAIN images'
    <3>1. c \in DOMAIN images \/ c \in DOMAIN disk
      BY <1>0 DEF CanOpen
    <3>2. MapOK(images) /\ DiskOK(disk)
      BY Types
    <3>3. DOMAIN Opened(images, c) = DOMAIN images \union {c}
      BY <3>1, <3>2, <1>1, OpenedRefs
    <3> QED
      BY <3>3, <1>0
  <2>2. images'[c] \in ImageType
    BY <2>1, <1>5 DEF MapOK, ImageType
  <2>3. images'[c].build \in 0 .. MaxBuilds
    BY <2>2 DEF ImageType
  <2> QED
    BY <2>3, <1>1 DEF AppType
<1> HIDE DEF new
<1>7. (apps \in [Apps -> AppType])'
  <2>1. apps' \in [Apps -> AppType]
    BY <1>0, <1>1, <1>6, Types
  <2> QED
    BY <2>1 DEF AppType, Path, HostImage, Nowhere, Original
<1>8. (body \in [Apps -> Path])' /\ body'[a] \in {Nowhere, c}
      /\ \A b \in Apps : b # a => body'[b] = body[b]
  <2>1. body' \in [Apps -> Path]
    BY <1>0, <1>1, Types
  <2> QED
    BY <2>1, <1>0, <1>1, Types DEF Path, HostImage, Nowhere, Original
<1>9. AppsOK'
  <2>1. AppOK(new, body'[a])
    BY <1>1, <1>2, <1>8 DEF AppOK
  <2>2. \A b \in Apps : AppOK(apps'[b], body'[b])
    BY <2>1, <1>3, <1>8 DEF AppsOK
  <2> QED
    BY <2>2 DEF AppsOK, AppOK, NoApp, Libraries, Path, HostImage, Nowhere, Original
<1>10. ActiveTyped(active)' /\ ActiveOK'
  <2>1. active \in Seq(Apps) /\ Len(active) <= MaxActive /\ IsInjective(active)
    BY Types DEF ActiveTyped
  <2>2. \A b \in Apps : Loaded(b) => Loaded(b)'
    BY <1>1, <1>3 DEF Loaded
  <2>3. Loaded(a)'
    BY <1>4 DEF Using
  <2>4. CASE active' = active
    BY <2>1, <2>2, <2>4, ActiveKept DEF ActiveTyped, IsInjective
  <2>5. CASE active' = Append(active, a) /\ Len(active) < MaxActive
    <3>1. \A i \in DOMAIN active : active[i] \in Apps /\ active[i] # a
      BY <2>1, <1>1 DEF ActiveOK
    <3>2. active' \in Seq(Apps) /\ Len(active') = Len(active) + 1
      BY <2>1, <2>5, <1>1
    <3>3. \A i \in DOMAIN active' :
            \/ i \in DOMAIN active /\ active'[i] = active[i]
            \/ i = Len(active) + 1 /\ active'[i] = a
      BY <2>1, <2>5, <1>1
    <3>4. IsInjective(active')
      BY <3>1, <3>3, <2>1 DEF IsInjective
    <3>5. Len(active') <= MaxActive
      BY <3>2, <2>1, <2>5, AppModulesAssumption
    <3>6. ASSUME NEW i \in DOMAIN active'
          PROVE  Loaded(active[i])'
      <4>1. CASE i \in DOMAIN active /\ active'[i] = active[i]
        BY <4>1, <3>1, <2>2 DEF ActiveOK, Loaded
      <4>2. CASE active'[i] = a
        BY <4>2, <2>3 DEF Loaded
      <4> QED
        BY <4>1, <4>2, <3>3
    <3> QED
      BY <3>2, <3>4, <3>5, <3>6 DEF ActiveTyped, ActiveOK, IsInjective
  <2> QED
    BY <2>4, <2>5, <1>0 DEF Registered
<1>11. ShadowsOK'
  <2> SUFFICES ASSUME Windows, NEW p \in DOMAIN disk', p # Original
               PROVE  \E b \in Apps : apps'[b].loadedPath = p
    BY DEF ShadowsOK, Owned, Shadows, Original
  <2>1. Owned(p)
    BY <1>0 DEF ShadowsOK, Busy, Shadows
  <2>2. CASE p = c
    BY <2>2, <1>1, <1>2, <1>3
  <2>3. CASE p # c
    <3>1. PICK b \in Apps : apps[b].loadedPath = p
      BY <1>a, <2>1, <2>3, <1>0 DEF Owned
    <3>2. p # Nowhere
      BY <1>0, Types DEF DiskOK, Libraries
    <3>3. b # a
      BY <3>1, <3>2, <1>1 DEF NoApp
    <3> QED
      BY <3>1, <3>3, <1>3
  <2> QED
    BY <2>2, <2>3
<1>12. CallOK'
  BY <1>0 DEF CallOK, NoCall
<1>13. /\ DiskOK(disk)' /\ (pdbs \subseteq Path)'
       /\ (mtime \in Nat \ {0} /\ linking \in BOOLEAN)'
       /\ (instances \in 0 .. MaxInstances)' /\ (process \in 1 .. MaxProcesses)'
  BY <1>0, Types DEF DiskOK, FileType, Contents,
     Path, HostImage, Nowhere, Original, Libraries
<1> QED
  BY <1>5, <1>7, <1>8, <1>9, <1>10, <1>11, <1>12, <1>13, Assemble

\* onStart attaches the body of the library that is loaded.
LEMMA AppStartStep ==
  ASSUME Inv, NEW a \in Apps, AppStart(a)
  PROVE  Inv'
<1> USE DEF Inv
<1> DEFINE new == [apps[a] EXCEPT !.isStarted = TRUE]
<1>0. /\ Idle /\ apps[a].isLoaded
      /\ body' = [body EXCEPT ![a] = apps[a].loadedPath]
      /\ apps' = [apps EXCEPT ![a] = new]
      /\ UNCHANGED <<disk, pdbs, mtime, linking, images, active, instances,
                     process, call>>
  <2>1. apps' = [apps EXCEPT ![a].isStarted = TRUE]
    BY DEF AppStart
  <2> QED
    BY <2>1 DEF AppStart, Attached
<1>1. call = NoCall /\ (\A p : ~HeldImage(p)) /\ call'.at = "none"
  BY <1>0, IdleCall DEF NoCall
<1>2. apps[a] \in AppType
  BY Types
<1>3. /\ new \in AppType /\ new.isLoaded = apps[a].isLoaded
      /\ new.isStatic = apps[a].isStatic /\ new.loadedPath = apps[a].loadedPath
      /\ new.instanceId = apps[a].instanceId
  BY <1>2 DEF AppType
<1> HIDE DEF new
<1>4. apps' \in [Apps -> AppType] /\ apps'[a] = new
      /\ \A b \in Apps : b # a => apps'[b] = apps[b]
  BY <1>0, <1>3, Types
<1>5. body' \in [Apps -> Path] /\ body'[a] = apps[a].loadedPath
      /\ \A b \in Apps : b # a => body'[b] = body[b]
  <2>1. apps[a].loadedPath \in Path
    BY <1>2 DEF AppType
  <2> QED
    BY <2>1, <1>0, Types
<1>6. \A b \in Apps : /\ Loaded(b)' <=> Loaded(b)
                      /\ apps'[b].loadedPath = apps[b].loadedPath
  BY <1>3, <1>4 DEF Loaded
<1>7. ImagesOK'
  BY <1>0, <1>1, <1>6, ImagesKept
<1>8. AppsOK'
  <2>1. AppOK(new, body'[a])
    BY <1>0, <1>3, <1>5 DEF AppsOK, AppOK
  <2>2. \A b \in Apps : AppOK(apps'[b], body'[b])
    BY <2>1, <1>4, <1>5 DEF AppsOK
  <2> QED
    BY <2>2 DEF AppsOK, AppOK, NoApp, Libraries, Path, HostImage, Nowhere, Original
<1>9. ShadowsOK'
  <2>1. Busy' => Busy
    BY <1>0, <1>6 DEF Busy
  <2>2. ASSUME NEW p, Owned(p)
        PROVE  Owned(p)'
    BY <2>2, <1>0, <1>1, <1>6, IdleCall DEF Owned
  <2> QED
    BY <2>1, <2>2, <1>0, OwnedKept
<1>10. ActiveOK'
  BY <1>0, <1>6, Types, ActiveKept DEF ActiveTyped
<1>11. CallOK'
  BY <1>0, <1>1 DEF CallOK, NoCall
<1>12. /\ DiskOK(disk)' /\ (pdbs \subseteq Path)'
       /\ (mtime \in Nat \ {0} /\ linking \in BOOLEAN)'
       /\ MapOK(images)' /\ ActiveTyped(active)' /\ (body \in [Apps -> Path])'
       /\ (instances \in 0 .. MaxInstances)' /\ (process \in 1 .. MaxProcesses)'
  BY <1>0, <1>5, Types DEF DiskOK, FileType, Contents, MapOK, ImageType,
     ActiveTyped, Path, HostImage, Nowhere, Original, Libraries
<1>13. (apps \in [Apps -> AppType])'
  BY <1>4 DEF AppType, Path, HostImage, Nowhere, Original
<1> QED
  BY <1>7, <1>8, <1>9, <1>10, <1>11, <1>12, <1>13, Assemble

-----------------------------------------------------------------------------
(* Reloading.                                                              *)

\* The call that a reload begins.
LEMMA ReloadCallOK ==
  ASSUME Inv, NEW a \in Apps, Loaded(a)
  PROVE  /\ ReloadCall(a) \in LoadCalls
         /\ ReloadCall(a).at \in {"copy", "open"}
         /\ ReloadCall(a).at = "copy" => Windows
         /\ ReloadCall(a).kind = "reload" /\ ReloadCall(a).app = a
<1>1. apps[a] \in AppType /\ apps[a].instanceId > 0 /\ mtime \in Nat
  BY Types DEF Inv, AppsOK, AppOK, Loaded
<1>2. apps[a].instanceId \in 1 .. MaxInstances
      /\ apps[a].reloadCount + 1 \in Nat \ {0}
  BY <1>1, AppModulesAssumption DEF AppType
<1> QED
  BY <1>1, <1>2 DEF ReloadCall, LoadCalls

\* A check that leaves apps alone, and one that forgets the write time: what
\* AppOK says, and what is loaded, is the same before and after.
LEMMA CheckedStep ==
  ASSUME Inv, NEW a \in Apps, Idle, Loaded(a),
         NEW time \in Nat,
         apps' = [apps EXCEPT ![a].lastWriteTime = time],
         call' = ReloadCall(a) \/ call' = NoCall,
         UNCHANGED <<disk, pdbs, mtime, linking, images, active, instances,
                     process, body>>
  PROVE  Inv'
<1> USE DEF Inv
<1> DEFINE new == [apps[a] EXCEPT !.lastWriteTime = time]
<1>1. call = NoCall /\ (\A p : ~HeldImage(p))
  BY IdleCall DEF NoCall
<1>2. apps[a] \in AppType
  BY Types
<1>3. /\ new \in AppType /\ new.isLoaded = apps[a].isLoaded
      /\ new.isStatic = apps[a].isStatic /\ new.loadedPath = apps[a].loadedPath
      /\ new.instanceId = apps[a].instanceId
  BY <1>2 DEF AppType
<1> HIDE DEF new
<1>4. apps' \in [Apps -> AppType] /\ apps'[a] = new
      /\ \A b \in Apps : b # a => apps'[b] = apps[b]
  BY <1>3, Types DEF new
<1>6. \A b \in Apps : /\ Loaded(b)' <=> Loaded(b)
                      /\ apps'[b].loadedPath = apps[b].loadedPath
  BY <1>3, <1>4 DEF Loaded
<1>7. CallOK' /\ call'.at # "release"
  <2>1. CASE call' = NoCall
    BY <2>1 DEF CallOK, NoCall
  <2>2. CASE call' = ReloadCall(a)
    <3>1. /\ call' \in LoadCalls /\ call'.at \in {"copy", "open"}
          /\ call'.at = "copy" => Windows
          /\ call'.kind = "reload" /\ call'.app = a
      BY <2>2, ReloadCallOK
    <3>2. LoadOK'
      BY <3>1, <1>6 DEF LoadOK, LoadCalls, Loaded
    <3> QED
      BY <3>1, <3>2 DEF CallOK
  <2> QED
    BY <2>1, <2>2
<1>8. ImagesOK'
  BY <1>1, <1>6, <1>7, ImagesKept
<1>9. AppsOK'
  <2>1. AppOK(new, body[a])
    BY <1>3 DEF AppsOK, AppOK, Loaded
  <2>2. \A b \in Apps : AppOK(apps'[b], body'[b])
    BY <2>1, <1>4 DEF AppsOK
  <2> QED
    BY <2>2 DEF AppsOK, AppOK, NoApp, Libraries, Path, HostImage, Nowhere, Original
<1>10. ShadowsOK'
  <2>1. Busy
    BY DEF Busy
  <2>2. ASSUME NEW p, Owned(p)
        PROVE  Owned(p)'
    BY <2>2, <1>6, IdleCall DEF Owned
  <2> QED
    BY <2>1, <2>2, OwnedKept
<1>11. ActiveOK'
  BY <1>6, Types, ActiveKept DEF ActiveTyped
<1>12. /\ DiskOK(disk)' /\ (pdbs \subseteq Path)'
       /\ (mtime \in Nat \ {0} /\ linking \in BOOLEAN)'
       /\ MapOK(images)' /\ ActiveTyped(active)' /\ (body \in [Apps -> Path])'
       /\ (instances \in 0 .. MaxInstances)' /\ (process \in 1 .. MaxProcesses)'
  BY Types DEF DiskOK, FileType, Contents, MapOK, ImageType,
     ActiveTyped, Path, HostImage, Nowhere, Original, Libraries
<1>13. (apps \in [Apps -> AppType])'
  BY <1>4 DEF AppType, Path, HostImage, Nowhere, Original
<1> QED
  BY <1>7, <1>8, <1>9, <1>10, <1>11, <1>12, <1>13, Assemble

\* CelsAppCheckReload writes nothing but the call it begins.
LEMMA CheckReloadStep ==
  ASSUME Inv, NEW a \in Apps, CheckReload(a)
  PROVE  Inv'
<1>1. apps \in [Apps -> AppType] /\ apps[a] \in AppType
  BY Types DEF Inv
<1>2. apps[a].lastWriteTime \in Nat
  BY <1>1 DEF AppType
<1>3. apps' = [apps EXCEPT ![a].lastWriteTime = apps[a].lastWriteTime]
  <2>1. [apps[a] EXCEPT !.lastWriteTime = apps[a].lastWriteTime] = apps[a]
    BY <1>1 DEF AppType
  <2> QED
    BY <2>1, <1>1 DEF CheckReload
<1> QED
  BY <1>2, <1>3, CheckedStep DEF CheckReload, Loaded

\* CelsAppReload writes the time it forgets.
LEMMA AppReloadStep ==
  ASSUME Inv, NEW a \in Apps, AppReload(a)
  PROVE  Inv'
BY CheckedStep DEF AppReload, Loaded

\* The swap: the application uses the new library and the call holds the old
\* one, until it is released.
LEMMA SwapStep ==
  ASSUME Inv, Swap
  PROVE  Inv'
<1> USE DEF Inv
<1>a. PICK a, c : a = call.app /\ c = Candidate
  OBVIOUS
<1>0. /\ call.at = "open" /\ call.kind = "reload" /\ CanOpen(c)
      /\ images' = Opened(images, c)
      /\ apps' = [apps EXCEPT ![a].loadedPath = c,
                              ![a].build = images'[c].build,
                              ![a].reloadCount = call.n,
                              ![a].lastWriteTime = call.time]
      /\ body' = [body EXCEPT ![a] = c]
      /\ call' = [at |-> "release", app |-> a, old |-> apps[a].loadedPath]
      /\ UNCHANGED <<disk, pdbs, mtime, linking, active, instances, process>>
  BY <1>a DEF Swap, Attached, TimeSeen
<1>1. /\ LoadOK /\ (\A p : ~HeldImage(p)) /\ a \in Apps /\ Loaded(a)
      /\ apps \in [Apps -> AppType] /\ apps[a] \in AppType
      /\ apps[a].loadedPath \in Libraries
      /\ apps[a].instanceId > 0 /\ c \in Libraries /\ c \in Path
      /\ call.n \in Nat /\ call.time \in Nat
  BY <1>a, <1>0, Types, LoadingCall, CandidateIsLibrary DEF LoadOK, LoadCalls,
     AppsOK, AppOK, Loaded, Libraries
<1>2. /\ \A b \in Apps : b # a => apps'[b] = apps[b]
      /\ apps'[a].isLoaded = apps[a].isLoaded
      /\ apps'[a].isStatic = apps[a].isStatic
      /\ apps'[a].isStarted = apps[a].isStarted
      /\ apps'[a].instanceId = apps[a].instanceId
      /\ apps'[a].loadedPath = c /\ apps'[a].build = images'[c].build
      /\ apps'[a].reloadCount = call.n /\ apps'[a].lastWriteTime = call.time
  BY <1>0, <1>1 DEF AppType
<1>3. call'.at = "release" /\ call'.old = apps[a].loadedPath
  BY <1>0
<1>4. Using(a, c)'
  BY <1>1, <1>2 DEF Using, Loaded
<1>5. ImagesOK' /\ MapOK(images)'
  <2>1. call.at = "open" /\ CanOpen(Candidate) /\ images' = Opened(images, c)
    BY <1>a, <1>0
  <2>2. LoadOK /\ Loaded(a)
    BY <1>1
  <2>3. \A b \in Apps : b # a => apps'[b] = apps[b]
    BY <1>2
  <2> QED
    BY <2>1, <2>2, <2>3, <1>a, <1>3, <1>4, ImagesOpened
<1>6. apps' \in [Apps -> AppType]
  <2>1. c \in DOMAIN images \/ c \in DOMAIN disk
    BY <1>0 DEF CanOpen
  <2>2. c \in DOMAIN images'
    BY <2>1, <1>0, <1>1, Types, OpenedRefs
  <2>3. images'[c].build \in 0 .. MaxBuilds
    BY <2>2, <1>5 DEF MapOK, ImageType
  <2>4. apps'[a] = [apps[a] EXCEPT !.loadedPath = c,
                                   !.build = images'[c].build,
                                   !.reloadCount = call.n,
                                   !.lastWriteTime = call.time]
    BY <1>0, <1>1
  <2>5. apps'[a] \in AppType
    BY <2>3, <2>4, <1>1 DEF AppType
  <2>6. DOMAIN apps' = Apps /\ apps' = [b \in Apps |-> apps'[b]]
    BY <1>0, <1>1
  <2> QED
    BY <2>5, <2>6, <1>1, <1>2
<1>7. (apps \in [Apps -> AppType])'
  BY <1>6 DEF AppType, Path, HostImage, Nowhere, Original
<1>8. (body \in [Apps -> Path])' /\ body'[a] = c
      /\ \A b \in Apps : b # a => body'[b] = body[b]
  <2>1. body' \in [Apps -> Path]
    BY <1>0, <1>1, Types
  <2> QED
    BY <2>1, <1>0, <1>1, Types DEF Path, HostImage, Nowhere, Original
<1>9. AppsOK'
  <2>1. AppOK(apps'[a], body'[a])
    BY <1>1, <1>2, <1>8 DEF AppOK, Loaded
  <2>2. \A b \in Apps : AppOK(apps'[b], body'[b])
    BY <2>1, <1>2, <1>8 DEF AppsOK
  <2> QED
    BY <2>2 DEF AppsOK, AppOK, NoApp, Libraries, Path, HostImage, Nowhere, Original
<1>10. ActiveOK'
  <2>1. \A b \in Apps : Loaded(b) => Loaded(b)'
    BY <1>2 DEF Loaded
  <2> QED
    BY <2>1, <1>0, Types, ActiveKept DEF ActiveTyped
<1>11. ShadowsOK'
  <2> SUFFICES ASSUME Windows, NEW p \in DOMAIN disk', p # Original,
                      p # apps[a].loadedPath
               PROVE  \E b \in Apps : apps'[b].loadedPath = p
    BY <1>3 DEF ShadowsOK, Owned, Shadows, Original
  <2>1. Owned(p)
    BY <1>0 DEF ShadowsOK, Busy, Shadows
  <2>2. CASE p = c
    BY <2>2, <1>1, <1>2
  <2>3. CASE p # c
    <3>1. PICK b \in Apps : apps[b].loadedPath = p
      BY <1>a, <2>1, <2>3, <1>0 DEF Owned
    <3> QED
      BY <3>1, <1>2
  <2> QED
    BY <2>2, <2>3
<1>12. CallOK'
  <2>1. call' \in ReleaseCalls
    BY <1>0, <1>1 DEF ReleaseCalls
  <2> QED
    BY <2>1 DEF CallOK, ReleaseCalls, Libraries, Path, HostImage, Nowhere, Original
<1>13. /\ DiskOK(disk)' /\ (pdbs \subseteq Path)' /\ ActiveTyped(active)'
       /\ (mtime \in Nat \ {0} /\ linking \in BOOLEAN)'
       /\ (instances \in 0 .. MaxInstances)' /\ (process \in 1 .. MaxProcesses)'
  BY <1>0, Types DEF DiskOK, FileType, Contents, ActiveTyped,
     Path, HostImage, Nowhere, Original, Libraries
<1> QED
  BY <1>5, <1>7, <1>8, <1>9, <1>10, <1>11, <1>12, <1>13, Assemble

\* The old library is freed before its file is deleted: if it is still
\* mapped then, another application has it loaded.
LEMMA ReleaseStep ==
  ASSUME Inv, Release
  PROVE  Inv'
<1> USE DEF Inv
<1>a. PICK old : old = call.old
  OBVIOUS
<1>0. /\ call.at = "release" /\ images' = Closed(images, old) /\ call' = NoCall
      /\ disk' = Deleted(disk, old, images')
      /\ UNCHANGED <<pdbs, mtime, linking, apps, active, instances, process, body>>
  BY <1>a DEF Release, Released
<1>1. old \in Libraries /\ call'.at = "none"
      /\ \A p : HeldImage(p) <=> p = old
  BY <1>a, <1>0 DEF CallOK, NoCall, LoadOK, LoadCalls, ReleaseCalls, HeldImage
<1>2. MapOK(images) /\ DiskOK(disk) /\ old \in DOMAIN images
  BY <1>1, Types, MappedUsed DEF ImagesOK
<1>3. /\ MapOK(images') /\ DOMAIN images \ {old} \subseteq DOMAIN images'
      /\ DOMAIN images' \subseteq DOMAIN images
      /\ Refs(images', old) = Refs(images, old) - 1
      /\ \A q : q # old => Refs(images', q) = Refs(images, q)
  BY <1>0, <1>2, ClosedRefs
<1>4. ImagesOK'
  <2>1. ASSUME NEW p \in Libraries
        PROVE  ImageOK(p)'
    <3>1. IsFiniteSet(Users(p)) /\ Refs(images, p) = Opens(p)
          /\ Cardinality(Users(p)) \in Nat
      BY FS_CardinalityType DEF ImagesOK, ImageOK
    <3>2. Users(p)' = Users(p)
      BY <1>0 DEF Users, Using, Loaded
    <3>3. ~HeldImage(p)'
      BY <1>1 DEF HeldImage
    <3>4. Refs(images', p) = Cardinality(Users(p))
      BY <3>1, <1>1, <1>3 DEF Opens
    <3>5. Refs(images', p) = Opens(p)'
      BY <3>1, <3>2, <3>3, <3>4 DEF Opens
    <3> QED
      BY <3>1, <3>2, <3>5 DEF ImageOK
  <2>2. HostImage \in DOMAIN images'
    BY <1>1, <1>3 DEF ImagesOK, Libraries
  <2> QED
    BY <2>1, <2>2 DEF ImagesOK, Libraries, Path, HostImage, Nowhere, Original
<1>5. /\ DiskOK(disk') /\ DOMAIN disk' \subseteq DOMAIN disk
      /\ Windows /\ old \in DOMAIN disk' => old \in DOMAIN images'
  BY <1>0, <1>2, DeletedDisk
<1>6. ShadowsOK'
  <2> SUFFICES ASSUME Windows, NEW p \in DOMAIN disk', p # Original
               PROVE  \E b \in Apps : apps[b].loadedPath = p
    BY <1>0 DEF ShadowsOK, Owned, Shadows, Original
  <2>1. CASE p = old
    <3>1. p \in DOMAIN images'
      BY <2>1, <1>5
    <3>2. ImageOK(p)'
      BY <2>1, <1>1, <1>4 DEF ImagesOK, Libraries, Path, HostImage, Nowhere,
         Original
    <3>3. Opens(p)' # 0 /\ ~HeldImage(p)'
      BY <3>1, <3>2, <1>1, <1>3, MappedOpen DEF ImageOK, HeldImage
    <3>4. Cardinality(Users(p)') # 0
      BY <3>3, <3>2, FS_CardinalityType DEF Opens, ImageOK
    <3>5. Users(p)' # {}
      BY <3>4, FS_EmptySet
    <3> QED
      BY <3>5, <1>0 DEF Users, Using
  <2>2. CASE p # old
    <3>1. Owned(p)
      BY <1>0, <1>5 DEF ShadowsOK, Busy, Shadows
    <3> QED
      BY <1>a, <2>2, <3>1, <1>0 DEF Owned
  <2> QED
    BY <2>1, <2>2
<1>7. AppsOK' /\ ActiveOK'
  BY <1>0, Types, AppsKept, ActiveKept DEF ActiveTyped, Loaded
<1>8. CallOK'
  BY <1>0 DEF CallOK, NoCall
<1>9. DiskOK(disk)' /\ MapOK(images)'
  BY <1>3, <1>5 DEF DiskOK, MapOK, ImageType, FileType, Contents, Libraries,
     Path, HostImage, Nowhere, Original
<1>10. /\ (pdbs \subseteq Path)' /\ (mtime \in Nat \ {0} /\ linking \in BOOLEAN)'
       /\ (apps \in [Apps -> AppType])' /\ ActiveTyped(active)'
       /\ (instances \in 0 .. MaxInstances)'
       /\ (process \in 1 .. MaxProcesses)' /\ (body \in [Apps -> Path])'
  BY <1>0, Types DEF AppType, ActiveTyped, Path, HostImage, Nowhere, Original
<1> QED
  BY <1>4, <1>6, <1>7, <1>8, <1>9, <1>10, Assemble

-----------------------------------------------------------------------------
(* Unloading, and the end of the process.                                  *)

\* What leaves the registry is one application, and the others keep their
\* order.
LEMMA UnregisteredOK ==
  ASSUME NEW a \in Apps, ActiveTyped(active)
  PROVE  /\ ActiveTyped(Unregistered(a))
         /\ \A i \in DOMAIN Unregistered(a) :
              \E k \in DOMAIN active :
                Unregistered(a)[i] = active[k] /\ active[k] # a
<1> DEFINE un == Unregistered(a)
<1>0. /\ active \in Seq(Apps) /\ Len(active) \in Nat /\ Len(active) <= MaxActive
      /\ DOMAIN active = 1 .. Len(active) /\ IsInjective(active)
      /\ MaxActive \in Nat
  BY AppModulesAssumption DEF ActiveTyped
<1>1. CASE a \notin Range(active)
  <2>1. un = active
    BY <1>1 DEF Unregistered
  <2>2. \A k \in DOMAIN active : active[k] # a
    BY <1>1 DEF Range
  <2> HIDE DEF un
  <2> QED
    BY <2>1, <2>2, <1>0 DEF un, ActiveTyped
<1>2. CASE a \in Range(active)
  <2> DEFINE i == CHOOSE k \in DOMAIN active : active[k] = a
  <2>1. i \in DOMAIN active /\ active[i] = a
    BY <1>2 DEF Range
  <2>2. un = [k \in 1 .. Len(active) - 1 |->
                IF k < i THEN active[k] ELSE active[k + 1]]
    BY <1>2 DEF Unregistered
  <2> HIDE DEF i
  <2>3. Len(active) - 1 \in Nat
    BY <2>1, <1>0
  <2>4. \A k \in 1 .. Len(active) - 1 :
          LET j == IF k < i THEN k ELSE k + 1 IN
            j \in DOMAIN active /\ un[k] = active[j] /\ j # i
    BY <2>1, <2>2, <1>0
  <2>5. un \in Seq(Apps) /\ Len(un) = Len(active) - 1
        /\ DOMAIN un = 1 .. Len(active) - 1
    <3>1. \A k \in 1 .. Len(active) - 1 : un[k] \in Apps
      BY <2>4, <1>0
    <3>2. un \in [1 .. Len(active) - 1 -> Apps]
      BY <3>1, <2>2
    <3> HIDE DEF un
    <3> QED
      BY <3>2, <2>3
  <2>6. IsInjective(un)
    <3> SUFFICES ASSUME NEW k \in DOMAIN un, NEW l \in DOMAIN un, un[k] = un[l]
                 PROVE  k = l
      BY DEF IsInjective
    <3> HIDE DEF un
    <3> DEFINE at(n) == IF n < i THEN n ELSE n + 1
    <3>1. k \in 1 .. Len(active) - 1 /\ l \in 1 .. Len(active) - 1
          /\ i \in Nat
      BY <2>1, <2>5, <1>0
    <3>2. /\ at(k) \in DOMAIN active /\ at(l) \in DOMAIN active
          /\ active[at(k)] = active[at(l)]
      BY <2>4, <3>1
    <3>3. at(k) = at(l)
      <4> HIDE DEF at
      <4> QED
        BY <3>2, <1>0 DEF IsInjective
    <3> QED
      BY <3>1, <3>3, <1>0
  <2>7. \A k \in DOMAIN un : \E j \in DOMAIN active :
          un[k] = active[j] /\ active[j] # a
    <3> SUFFICES ASSUME NEW k \in DOMAIN un
                 PROVE  \E j \in DOMAIN active : un[k] = active[j] /\ active[j] # a
      OBVIOUS
    <3> HIDE DEF un
    <3>1. PICK j \in DOMAIN active : un[k] = active[j] /\ j # i
      BY <2>4, <2>5
    <3>2. active[j] # a
      BY <3>1, <2>1, <1>0 DEF IsInjective
    <3> QED
      BY <3>1, <3>2
  <2> HIDE DEF un
  <2> QED
    BY <2>3, <2>5, <2>6, <2>7, <1>0 DEF un, ActiveTyped
<1> QED
  BY <1>1, <1>2

\* An application that is gone uses nothing and runs nothing.
LEMMA GoneApp ==
  ASSUME Inv, NEW a \in Apps, apps' = [apps EXCEPT ![a] = NoApp],
         body' = [body EXCEPT ![a] = Nowhere]
  PROVE  /\ AppsOK' /\ (apps \in [Apps -> AppType])' /\ (body \in [Apps -> Path])'
         /\ ~Loaded(a)' /\ apps'[a] = NoApp
         /\ \A b \in Apps : b # a => apps'[b] = apps[b]
<1> USE DEF Inv
<1>1. NoApp \in AppType
  BY Paths, AppModulesAssumption DEF NoApp, AppType
<1>2. /\ apps' \in [Apps -> AppType] /\ apps'[a] = NoApp
      /\ \A b \in Apps : b # a => apps'[b] = apps[b]
  BY <1>1, Types
<1>3. /\ body' \in [Apps -> Path] /\ body'[a] = Nowhere
      /\ \A b \in Apps : b # a => body'[b] = body[b]
  BY Types, Paths
<1>4. AppsOK'
  <2>1. AppOK(NoApp, Nowhere)
    BY DEF AppOK, NoApp
  <2>2. \A b \in Apps : AppOK(apps'[b], body'[b])
    BY <2>1, <1>2, <1>3 DEF AppsOK
  <2> QED
    BY <2>2 DEF AppsOK, AppOK, NoApp, Libraries, Path, HostImage, Nowhere, Original
<1> QED
  BY <1>2, <1>3, <1>4 DEF Loaded, NoApp, AppType, Path, HostImage, Nowhere, Original

\* The application of an executable leaves nothing to free.
LEMMA DestroyStaticStep ==
  ASSUME Inv, NEW a \in Apps, AppDestroy(a), apps[a].isStatic
  PROVE  Inv'
<1> USE DEF Inv
<1>0. /\ Idle /\ apps[a].isLoaded
      /\ apps' = [apps EXCEPT ![a] = NoApp]
      /\ body' = [body EXCEPT ![a] = Nowhere]
      /\ UNCHANGED <<active, images, disk, pdbs>>
      /\ UNCHANGED <<mtime, linking, instances, process, call>>
  BY DEF AppDestroy
<1>1. call = NoCall /\ (\A p : ~HeldImage(p)) /\ call'.at = "none"
  BY <1>0, IdleCall DEF NoCall
<1>2. /\ AppsOK' /\ (apps \in [Apps -> AppType])' /\ (body \in [Apps -> Path])'
      /\ ~Loaded(a)' /\ apps'[a] = NoApp
      /\ \A b \in Apps : b # a => apps'[b] = apps[b]
  BY <1>0, GoneApp
<1>3. ~Loaded(a) /\ apps[a].loadedPath = HostImage
  BY <1>0 DEF Loaded, AppsOK, AppOK
<1>4. \A b \in Apps : /\ Loaded(b)' <=> Loaded(b)
                      /\ Loaded(b) => apps'[b].loadedPath = apps[b].loadedPath
  BY <1>2, <1>3 DEF Loaded
<1>5. ImagesOK'
  BY <1>0, <1>1, <1>4, ImagesKept
<1>6. ActiveOK'
  BY <1>0, <1>4, Types, ActiveKept DEF ActiveTyped
<1>7. ShadowsOK'
  <2>1. Busy' => Busy
    BY <1>0, <1>4 DEF Busy
  <2>2. ASSUME NEW p \in DOMAIN disk' \ {Original}, Owned(p)
        PROVE  Owned(p)'
    <3>1. PICK b \in Apps : apps[b].loadedPath = p
      BY <2>2, <1>0, IdleCall
    <3>2. p # HostImage
      BY <1>0, Types DEF DiskOK, Libraries
    <3> QED
      BY <3>1, <3>2, <1>2, <1>3 DEF Owned
  <2> QED
    BY <2>1, <2>2, <1>0, OwnedKept
<1>8. CallOK'
  BY <1>0, <1>1 DEF CallOK, NoCall
<1>9. /\ DiskOK(disk)' /\ (pdbs \subseteq Path)'
      /\ (mtime \in Nat \ {0} /\ linking \in BOOLEAN)'
      /\ MapOK(images)' /\ ActiveTyped(active)'
      /\ (instances \in 0 .. MaxInstances)' /\ (process \in 1 .. MaxProcesses)'
  BY <1>0, Types DEF DiskOK, FileType, Contents, MapOK, ImageType, ActiveTyped,
     Path, HostImage, Nowhere, Original, Libraries
<1> QED
  BY <1>2, <1>5, <1>6, <1>7, <1>8, <1>9, Assemble

\* A library is freed and its file deleted; the last one sweeps the disk.
LEMMA DestroyLoadedStep ==
  ASSUME Inv, NEW a \in Apps, AppDestroy(a), ~apps[a].isStatic
  PROVE  Inv'
<1> USE DEF Inv
<1>a. PICK path : path = apps[a].loadedPath
  OBVIOUS
<1> DEFINE kept == Deleted(disk, path, images')
<1>0. /\ Idle /\ apps[a].isLoaded
      /\ apps' = [apps EXCEPT ![a] = NoApp]
      /\ body' = [body EXCEPT ![a] = Nowhere]
      /\ active' = Unregistered(a)
      /\ images' = Closed(images, path)
      /\ disk' = IF active' = <<>> THEN Swept(kept, images') ELSE kept
      /\ pdbs' = IF active' = <<>> THEN {} ELSE pdbs
      /\ UNCHANGED <<mtime, linking, instances, process, call>>
  BY <1>a DEF AppDestroy
<1>1. call = NoCall /\ (\A p : ~HeldImage(p)) /\ call'.at = "none"
      /\ \A p : Owned(p) => \E b \in Apps : apps[b].loadedPath = p
  BY <1>0, IdleCall DEF NoCall
<1>2. /\ AppsOK' /\ (apps \in [Apps -> AppType])' /\ (body \in [Apps -> Path])'
      /\ ~Loaded(a)' /\ apps'[a] = NoApp
      /\ \A b \in Apps : b # a => apps'[b] = apps[b]
  BY <1>0, GoneApp
<1>3. Loaded(a) /\ Using(a, path) /\ path \in Libraries
  BY <1>a, <1>0 DEF Loaded, Using, AppsOK, AppOK
<1>4. MapOK(images) /\ DiskOK(disk) /\ path \in DOMAIN images
  BY <1>3, Types, MappedUsed DEF ImagesOK
<1>5. /\ MapOK(images') /\ DOMAIN images \ {path} \subseteq DOMAIN images'
      /\ Refs(images', path) = Refs(images, path) - 1
      /\ \A q : q # path => Refs(images', q) = Refs(images, q)
  BY <1>0, <1>4, ClosedRefs
<1>6. ASSUME NEW p \in Libraries
      PROVE  ImageOK(p)'
  <2>1. IsFiniteSet(Users(p)) /\ Refs(images, p) = Cardinality(Users(p))
        /\ Cardinality(Users(p)) \in Nat
    BY <1>1, FS_CardinalityType DEF ImagesOK, ImageOK, Opens
  <2>2. Users(p)' = Users(p) \ {a}
    BY <1>2 DEF Users, Using, Loaded
  <2>3. a \in Users(p) <=> p = path
    BY <1>3 DEF Users, Using
  <2>4. IsFiniteSet(Users(p)') /\ Cardinality(Users(p)') =
          Cardinality(Users(p)) - (IF p = path THEN 1 ELSE 0)
    BY <2>1, <2>2, <2>3, FS_RemoveElement
  <2>5. Refs(images', p) = Cardinality(Users(p)')
    BY <2>1, <2>4, <1>5
  <2>6. ~HeldImage(p)'
    BY <1>1 DEF HeldImage
  <2>7. Refs(images', p) = Opens(p)'
    <3>1. Cardinality(Users(p)') \in Nat
      BY <2>4, FS_CardinalityType
    <3> QED
      BY <3>1, <2>5, <2>6 DEF Opens
  <2> QED
    BY <2>4, <2>7 DEF ImageOK
<1>7. ImagesOK'
  <2>1. HostImage \in DOMAIN images'
    BY <1>3, <1>5 DEF ImagesOK, Libraries
  <2> QED
    BY <2>1, <1>6 DEF ImagesOK, Libraries, Path, HostImage, Nowhere, Original
<1>8. /\ DiskOK(kept) /\ DOMAIN kept \subseteq DOMAIN disk
      /\ Windows /\ path \in DOMAIN kept => path \in DOMAIN images'
  BY <1>4, DeletedDisk
<1> HIDE DEF kept
<1>9. DiskOK(disk') /\ DOMAIN disk' \subseteq DOMAIN kept
  BY <1>0, <1>8 DEF Swept, Restrict, DiskOK
<1>10. ShadowsOK'
  <2> SUFFICES ASSUME Windows, NEW p \in DOMAIN disk', p # Original
               PROVE  \E b \in Apps : apps'[b].loadedPath = p
    BY DEF ShadowsOK, Owned, Shadows, Original
  <2>1. CASE p = path
    <3>1. p \in DOMAIN images'
      BY <2>1, <1>8, <1>9
    <3>2. ImageOK(p)'
      BY <2>1, <1>3, <1>6
    <3>3. Opens(p)' # 0 /\ ~HeldImage(p)'
      BY <3>1, <3>2, <1>1, <1>5, MappedOpen DEF ImageOK, HeldImage
    <3>4. Cardinality(Users(p)') # 0
      BY <3>3, <3>2, FS_CardinalityType DEF Opens, ImageOK
    <3>5. Users(p)' # {}
      BY <3>4, FS_EmptySet
    <3> QED
      BY <3>5 DEF Users, Using
  <2>2. CASE p # path
    <3>1. Owned(p)
      BY <1>3, <1>8, <1>9 DEF ShadowsOK, Busy, Shadows
    <3>2. PICK b \in Apps : apps[b].loadedPath = p
      BY <3>1, <1>1
    <3> QED
      BY <1>a, <3>2, <2>2, <1>2
  <2> QED
    BY <2>1, <2>2
<1>11. ActiveTyped(active)' /\ ActiveOK'
  <2>1. /\ ActiveTyped(active')
        /\ \A i \in DOMAIN active' : \E k \in DOMAIN active :
             active'[i] = active[k] /\ active[k] # a
    BY <1>0, Types, UnregisteredOK
  <2>2. ASSUME NEW i \in DOMAIN active'
        PROVE  Loaded(active[i])'
    <3>1. PICK k \in DOMAIN active : active'[i] = active[k] /\ active[k] # a
      BY <2>1
    <3>2. active[k] \in Apps /\ Loaded(active[k])
      BY Types DEF ActiveOK, ActiveTyped
    <3> QED
      BY <3>1, <3>2, <1>2 DEF Loaded
  <2> QED
    BY <2>1, <2>2 DEF ActiveTyped, ActiveOK, IsInjective
<1>12. CallOK'
  BY <1>0, <1>1 DEF CallOK, NoCall
<1>13. DiskOK(disk)' /\ MapOK(images)'
  BY <1>5, <1>9 DEF DiskOK, MapOK, ImageType, FileType, Contents, Libraries,
     Path, HostImage, Nowhere, Original
<1>14. /\ (pdbs \subseteq Path)' /\ (mtime \in Nat \ {0} /\ linking \in BOOLEAN)'
       /\ (instances \in 0 .. MaxInstances)' /\ (process \in 1 .. MaxProcesses)'
  BY <1>0, Types DEF Path, HostImage, Nowhere, Original
<1> QED
  BY <1>2, <1>7, <1>10, <1>11, <1>12, <1>13, <1>14, Assemble

\* A new process has nothing loaded, whatever the old one left on the disk.
LEMMA NewProcessStep ==
  ASSUME Inv, NewProcess, DiskOK(disk'), pdbs' \subseteq Path
  PROVE  Inv'
<1> USE DEF Inv
<1>0. /\ process < MaxProcesses /\ process' = process + 1
      /\ images' = [p \in {HostImage} |-> [build |-> 0, refs |-> 1]]
      /\ apps' = [a \in Apps |-> NoApp] /\ body' = [a \in Apps |-> Nowhere]
      /\ active' = <<>> /\ instances' = 0 /\ call' = NoCall
      /\ UNCHANGED <<mtime, linking>>
  BY DEF NewProcess
<1>1. /\ \A a \in Apps : ~Loaded(a)'
      /\ call'.at = "none"
  BY <1>0 DEF Loaded, NoApp, NoCall
<1>2. MapOK(images)'
  <2>1. [build |-> 0, refs |-> 1] \in ImageType
    BY AppModulesAssumption DEF ImageType
  <2>2. DOMAIN images' = {HostImage} /\ images'[HostImage] \in ImageType
    BY <1>0, <2>1
  <2> QED
    BY <2>2, Paths DEF MapOK, ImageType, Path, HostImage, Nowhere, Original
<1>3. ImagesOK'
  <2>1. ASSUME NEW p \in Libraries
        PROVE  ImageOK(p)'
    <3>1. Users(p)' = {}
      BY <1>1 DEF Users, Using
    <3>2. Refs(images', p) = 0
      BY <1>0 DEF Refs, Libraries
    <3>3. ~HeldImage(p)'
      BY <1>1 DEF HeldImage
    <3> QED
      BY <3>1, <3>2, <3>3, FS_EmptySet DEF ImageOK, Opens
  <2> QED
    BY <2>1, <1>0 DEF ImagesOK, Libraries, Path, HostImage, Nowhere, Original
<1>4. AppsOK'
  <2>1. AppOK(NoApp, Nowhere)
    BY DEF AppOK, NoApp
  <2>2. \A b \in Apps : AppOK(apps'[b], body'[b])
    BY <2>1, <1>0
  <2> QED
    BY <2>2 DEF AppsOK, AppOK, NoApp, Libraries, Path, HostImage, Nowhere, Original
<1>5. ShadowsOK'
  BY <1>1 DEF ShadowsOK, Busy
<1>6. ActiveOK' /\ CallOK' /\ ActiveTyped(active)'
  BY <1>0, AppModulesAssumption DEF ActiveOK, CallOK, NoCall, ActiveTyped,
     IsInjective
<1>7. (apps \in [Apps -> AppType])' /\ (body \in [Apps -> Path])'
  <2>1. NoApp \in AppType
    BY Paths, AppModulesAssumption DEF NoApp, AppType
  <2> QED
    BY <2>1, <1>0, Paths DEF AppType, Path, HostImage, Nowhere, Original
<1>8. DiskOK(disk)'
  BY DEF DiskOK, FileType, Contents, Libraries, Path, HostImage, Nowhere, Original
<1>9. /\ (pdbs \subseteq Path)' /\ (mtime \in Nat \ {0} /\ linking \in BOOLEAN)'
      /\ (instances \in 0 .. MaxInstances)' /\ (process \in 1 .. MaxProcesses)'
  BY <1>0, Types, AppModulesAssumption DEF Path, HostImage, Nowhere, Original
<1> QED
  BY <1>2, <1>3, <1>4, <1>5, <1>6, <1>7, <1>8, <1>9, Assemble

\* The host exits or is killed.
LEMMA ProcessEndStep ==
  ASSUME Inv, Exit \/ ConsoleExit \/ Crash
  PROVE  Inv'
<1>1. DiskOK(disk) /\ pdbs \subseteq Path
  BY Types DEF Inv
<1>2. NewProcess
  BY DEF Exit, ConsoleExit, Crash
<1>3. DiskOK(disk') /\ pdbs' \subseteq Path
  <2>1. CASE UNCHANGED <<disk, pdbs>>
    BY <2>1, <1>1
  <2>2. ASSUME NEW S \in SUBSET DOMAIN disk, disk' = Restrict(disk, S), pdbs' = {}
        PROVE  DiskOK(disk') /\ pdbs' \subseteq Path
    BY <2>2, <1>1 DEF DiskOK, Restrict
  <2> QED
    BY <2>1, <2>2 DEF Exit, ConsoleExit, UnloadActive, Crash
<1> QED
  BY <1>2, <1>3, NewProcessStep

-----------------------------------------------------------------------------
(* The linker.                                                             *)

\* It writes the library itself, which is no copy.
LEMMA LinkStep ==
  ASSUME Inv, LinkStart \/ LinkEnd
  PROVE  Inv'
<1> USE DEF Inv
<1>0. UNCHANGED <<pdbs, images, apps, active, instances, process, body, call>>
  BY DEF LinkStart, LinkEnd
<1>1. mtime' \in Nat \ {0} /\ linking' \in BOOLEAN
  <2>1. mtime \in Nat \ {0}
    BY Types
  <2>2. mtime' \in Ticked(mtime)
    BY DEF LinkStart, LinkEnd
  <2>3. mtime' = mtime \/ mtime' = mtime + 1
    BY <2>2 DEF Ticked
  <2>4. mtime' \in Nat \ {0}
    BY <2>1, <2>3
  <2>5. linking' \in BOOLEAN
    BY DEF LinkStart, LinkEnd
  <2> QED
    BY <2>4, <2>5
<1>2. LatestBuild \in 0 .. MaxBuilds
  BY Types, AppModulesAssumption DEF LatestBuild, DiskOK, FileType
<1>3. PICK build \in 0 .. MaxBuilds, content \in Contents : Written(build, content)
  <2>1. CASE LinkStart
    <3>1. LatestBuild + 1 \in 0 .. MaxBuilds
      BY <2>1, <1>2, AppModulesAssumption DEF LinkStart
    <3> QED
      BY <2>1, <3>1 DEF LinkStart, Contents
  <2>2. CASE LinkEnd
    BY <2>2, <1>2 DEF LinkEnd
  <2> QED
    BY <2>1, <2>2
<1>4. /\ DOMAIN disk' = DOMAIN disk \union {Original}
      /\ disk'[Original] = [build |-> build, content |-> content]
      /\ \A p \in DOMAIN disk : p # Original => disk'[p] = disk[p]
  BY <1>3 DEF Written
<1>5. DiskOK(disk')
  BY <1>4, Types, Paths DEF DiskOK, FileType
<1>6. CallOK'
  <2>1. CASE call = NoCall
    BY <2>1, <1>0 DEF CallOK, NoCall
  <2>2. CASE LoadOK
    BY <2>2, <1>0 DEF CallOK, LoadOK, LoadCalls, Loaded
  <2>3. CASE call \in ReleaseCalls
    BY <2>3, <1>0 DEF CallOK, ReleaseCalls, Libraries, Path, HostImage, Nowhere,
       Original
  <2> QED
    BY <2>1, <2>2, <2>3 DEF CallOK
<1>7. ImagesOK'
  <2>1. ASSUME NEW p \in Libraries
        PROVE  ImageOK(p)'
    <3>1. Users(p)' = Users(p)
      BY <1>0 DEF Users, Using, Loaded
    <3>2. Opens(p)' = Opens(p)
      BY <3>1, <1>0 DEF Opens, HeldImage
    <3> QED
      BY <3>1, <3>2, <1>0 DEF ImagesOK, ImageOK
  <2> QED
    BY <2>1, <1>0 DEF ImagesOK, Libraries, Path, HostImage, Nowhere, Original
<1>8. ShadowsOK'
  <2>1. ASSUME NEW p, Owned(p)
        PROVE  Owned(p)'
    BY <2>1, <1>0 DEF Owned, Candidate, ShadowPath
  <2>2. Busy' => Busy
    BY <1>0 DEF Busy, Loaded
  <2> QED
    BY <2>1, <2>2, <1>4, OwnedKept
<1>9. AppsOK' /\ ActiveOK'
  BY <1>0, Types, AppsKept, ActiveKept DEF ActiveTyped, Loaded
<1>10. DiskOK(disk)'
  BY <1>5 DEF DiskOK, FileType, Contents, Libraries, Path, HostImage, Nowhere,
     Original
<1>11. /\ (pdbs \subseteq Path)' /\ (mtime \in Nat \ {0} /\ linking \in BOOLEAN)'
       /\ MapOK(images)' /\ (apps \in [Apps -> AppType])' /\ ActiveTyped(active)'
       /\ (instances \in 0 .. MaxInstances)'
       /\ (process \in 1 .. MaxProcesses)' /\ (body \in [Apps -> Path])'
  BY <1>0, <1>1, Types DEF MapOK, ImageType, AppType, ActiveTyped, Path,
     HostImage, Nowhere, Original
<1> QED
  BY <1>6, <1>7, <1>8, <1>9, <1>10, <1>11, Assemble

-----------------------------------------------------------------------------
(* The theorems.                                                           *)

\* A host that starts on a disk with the library alone.
LEMMA InitInv ==
  ASSUME Init
  PROVE  Inv
<1>0. /\ disk = [p \in {Original} |-> [build |-> 1, content |-> "good"]]
      /\ images = [p \in {HostImage} |-> [build |-> 0, refs |-> 1]]
      /\ apps = [a \in Apps |-> NoApp] /\ body = [a \in Apps |-> Nowhere]
      /\ active = <<>> /\ call = NoCall /\ process = 1 /\ instances = 0
      /\ pdbs = {} /\ mtime = 1 /\ linking = FALSE
  BY DEF Init
<1>1. \A a \in Apps : ~Loaded(a)
  BY <1>0 DEF Loaded, NoApp
<1>2. 1 \in 0 .. MaxBuilds /\ 0 \in 0 .. MaxBuilds /\ 1 \in 1 .. MaxProcesses
      /\ 0 \in 0 .. MaxInstances /\ MaxActive \in Nat
  BY AppModulesAssumption
<1>3. DiskOK(disk)
  <2>1. [build |-> 1, content |-> "good"] \in FileType
    BY <1>2 DEF FileType, Contents
  <2>2. DOMAIN disk = {Original} /\ disk[Original] \in FileType
    BY <2>1, <1>0
  <2> QED
    BY <2>2, Paths DEF DiskOK
<1>4. MapOK(images)
  <2>1. [build |-> 0, refs |-> 1] \in ImageType
    BY <1>2 DEF ImageType
  <2>2. DOMAIN images = {HostImage} /\ images[HostImage] \in ImageType
    BY <2>1, <1>0
  <2> QED
    BY <2>2, Paths DEF MapOK
<1>5. ImagesOK
  <2>1. ASSUME NEW p \in Libraries
        PROVE  ImageOK(p)
    <3>1. Users(p) = {}
      BY <1>1 DEF Users, Using
    <3>2. Refs(images, p) = 0
      BY <1>0 DEF Refs, Libraries
    <3>3. ~HeldImage(p)
      BY <1>0 DEF HeldImage, NoCall
    <3> QED
      BY <3>1, <3>2, <3>3, FS_EmptySet DEF ImageOK, Opens
  <2> QED
    BY <2>1, <1>0 DEF ImagesOK
<1>6. AppsOK
  <2>1. AppOK(NoApp, Nowhere)
    BY DEF AppOK, NoApp
  <2> QED
    BY <2>1, <1>0 DEF AppsOK
<1>7. ShadowsOK
  BY <1>0, <1>1 DEF ShadowsOK, Busy, NoCall
<1>8. ActiveOK /\ CallOK /\ ActiveTyped(active) /\ CallTyped
  BY <1>0, <1>2 DEF ActiveOK, CallOK, CallTyped, NoCall, ActiveTyped, IsInjective
<1>9. apps \in [Apps -> AppType] /\ body \in [Apps -> Path]
  <2>1. NoApp \in AppType
    BY Paths, <1>2 DEF NoApp, AppType
  <2> QED
    BY <2>1, <1>0, Paths
<1>10. TypeOK
  <2>1. /\ pdbs \subseteq Path /\ mtime \in Nat \ {0}
        /\ instances \in 0 .. MaxInstances /\ process \in 1 .. MaxProcesses
    BY <1>0, <1>2
  <2>2. linking \in BOOLEAN
    BY <1>0
  <2> QED
    BY <2>1, <2>2, <1>3, <1>4, <1>8, <1>9, Types
<1> QED
  BY <1>5, <1>6, <1>7, <1>8, <1>10 DEF Inv

\* Nothing changes.
LEMMA StutterStep ==
  ASSUME Inv, UNCHANGED vars
  PROVE  Inv'
<1> USE DEF Inv
<1>0. UNCHANGED <<disk, pdbs, mtime, linking, images, apps, active, instances,
                  process, body, call>>
  BY DEF vars
<1>1. TypeOK'
  BY <1>0 DEF TypeOK, Path, HostImage, Nowhere, Original, Contents, IsInjective
<1>2. CallOK'
  <2>1. CASE call = NoCall
    BY <2>1, <1>0 DEF CallOK, NoCall
  <2>2. CASE LoadOK
    BY <2>2, <1>0 DEF CallOK, LoadOK, LoadCalls, Loaded
  <2>3. CASE call \in ReleaseCalls
    BY <2>3, <1>0 DEF CallOK, ReleaseCalls, Libraries, Path, HostImage, Nowhere,
       Original
  <2> QED
    BY <2>1, <2>2, <2>3 DEF CallOK
<1>3. ImagesOK'
  <2>1. ASSUME NEW p \in Libraries
        PROVE  ImageOK(p)'
    <3>1. Users(p)' = Users(p)
      BY <1>0 DEF Users, Using, Loaded
    <3>2. Opens(p)' = Opens(p)
      BY <3>1, <1>0 DEF Opens, HeldImage
    <3> QED
      BY <3>1, <3>2, <1>0 DEF ImagesOK, ImageOK
  <2> QED
    BY <2>1, <1>0 DEF ImagesOK, Libraries, Path, HostImage, Nowhere, Original
<1>4. ShadowsOK'
  BY <1>0 DEF ShadowsOK, Owned, Busy, Loaded, Shadows, Candidate, ShadowPath,
     Original
<1>5. AppsOK' /\ ActiveOK'
  BY <1>0, Types, AppsKept, ActiveKept DEF ActiveTyped, Loaded
<1> QED
  BY <1>1, <1>2, <1>3, <1>4, <1>5

\* The invariant from which the others follow: every count of the loader has
\* its users, every copy its owner.
THEOREM AppModulesInvariant == Spec => []Inv
<1>1. Init => Inv
  BY InitInv
<1>2. Inv /\ [Next]_vars => Inv'
  <2> SUFFICES ASSUME Inv, [Next]_vars
               PROVE  Inv'
    OBVIOUS
  <2>1. ASSUME NEW a \in Apps, AppLoad(a) \/ EngineLoadApp(a)
        PROVE  Inv'
    BY <2>1, LoadBeginStep DEF AppLoad, EngineLoadApp
  <2>2. ASSUME NEW a \in Apps, AppBindStatic(a)
        PROVE  Inv'
    BY <2>2, AppBindStaticStep
  <2>3. ASSUME NEW a \in Apps, AppStart(a)
        PROVE  Inv'
    BY <2>3, AppStartStep
  <2>4. ASSUME NEW a \in Apps, CheckReload(a) \/ AppReload(a)
        PROVE  Inv'
    BY <2>4, CheckReloadStep, AppReloadStep
  <2>5. ASSUME NEW a \in Apps, AppDestroy(a)
        PROVE  Inv'
    BY <2>5, DestroyStaticStep, DestroyLoadedStep
  <2>6. CASE Load
    BY <2>6, CopyStep, OpenFailsStep, LoadOpenStep, SwapStep, ReleaseStep DEF Load
  <2>7. CASE Exit \/ ConsoleExit \/ Crash
    BY <2>7, ProcessEndStep
  <2>8. CASE LinkStart \/ LinkEnd
    BY <2>8, LinkStep
  <2>9. CASE UNCHANGED vars
    BY <2>9, StutterStep
  <2> QED
    BY <2>1, <2>2, <2>3, <2>4, <2>5, <2>6, <2>7, <2>8, <2>9 DEF Next
<1> QED
  BY <1>1, <1>2, PTL DEF Spec

\* The registry of the host keeps within CELS_MAX_ACTIVE_MODULES and lists
\* an application at most once.
THEOREM AppModulesTyped == Spec => []TypeOK
<1>1. Inv => TypeOK
  BY DEF Inv
<1> QED
  BY <1>1, AppModulesInvariant, PTL

\* No session runs a body of a library that was freed, or one that a reload
\* has replaced.
THEOREM BodiesStayLoaded == Spec => []BodiesLoaded
<1>1. Inv => BodiesLoaded
  <2> SUFFICES ASSUME Inv, NEW a \in Apps, body[a] # Nowhere
               PROVE  body[a] \in DOMAIN images /\ body[a] = apps[a].loadedPath
    BY DEF BodiesLoaded
  <2>1. AppOK(apps[a], body[a])
    BY DEF Inv, AppsOK
  <2>2. body[a] = apps[a].loadedPath /\ apps[a].isLoaded
    BY <2>1 DEF AppOK
  <2>3. CASE apps[a].isStatic
    BY <2>1, <2>2, <2>3 DEF AppOK, Inv, ImagesOK
  <2>4. CASE ~apps[a].isStatic
    <3>1. Using(a, body[a]) /\ body[a] \in Libraries
      BY <2>1, <2>2, <2>4 DEF AppOK, Using, Loaded
    <3>2. MapOK(images) /\ ImageOK(body[a])
      BY <3>1, Types DEF Inv, ImagesOK
    <3> QED
      BY <3>1, <3>2, <2>2, MappedUsed
  <2> QED
    BY <2>3, <2>4
<1> QED
  BY <1>1, AppModulesInvariant, PTL

\* While a library is loaded, each copy of it on the disk is in use or belongs
\* to the call in progress.  It is not so of the debug symbols.
THEOREM NoShadowLeft == Spec => []ShadowsOwned
<1>1. Inv => ShadowsOwned
  BY DEF Inv, ShadowsOK, ShadowsOwned, HasLibrary, Owned, Busy, Loaded
<1> QED
  BY <1>1, AppModulesInvariant, PTL

=============================================================================
