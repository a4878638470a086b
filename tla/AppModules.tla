----------------------------- MODULE AppModules -----------------------------
(***************************************************************************)
(* The application libraries of a CELS host (src/host/module.c): loading,  *)
(* hot reload while a linker writes the file, unload, and the copies under *)
(* which Windows loads a library so that the linker can replace it.        *)
(*                                                                         *)
(* One host thread makes the calls; between two system calls of it the     *)
(* linker may take a step.  All applications come from one library file,   *)
(* each has a session of its own, and its hooks attach one composition,    *)
(* the same in every build.  The loader and the file system are external:  *)
(* a library is mapped once for a path, and Windows refuses to delete a    *)
(* file that is mapped.                                                    *)
(***************************************************************************)
EXTENDS Naturals, Sequences, FiniteSets, Functions

CONSTANTS
  Apps,         \* the CelsApp handles of the host
  Windows,      \* which branch of the platform helpers is built
  MaxActive,    \* CELS_MAX_ACTIVE_MODULES
  MaxBuilds,    \* bound of the model: builds of the library
  MaxInstances, \* bound of the model: loads that one process starts
  MaxForced,    \* bound of the model: the reload count where forcing ends
  MaxProcesses  \* bound of the model: runs of the host

ASSUME AppModulesAssumption ==
  /\ {MaxActive, MaxInstances, MaxForced} \subseteq Nat
  /\ {MaxBuilds, MaxProcesses} \subseteq Nat \ {0}
  /\ Windows \in BOOLEAN

VARIABLES
  disk,      \* the libraries on the disk, by their paths
  pdbs,      \* the copies of the debug symbols
  mtime,     \* the write time of the library
  linking,   \* is the linker writing the library?
  images,    \* what is mapped into the process, and how often it was opened
  apps,      \* the CelsApp handles
  active,    \* s_activeModules
  instances, \* s_moduleInstanceCounter
  process,   \* the process id
  body,      \* the image of the body that each session has attached
  call       \* the load or reload in progress

vars == <<disk, pdbs, mtime, linking, images, apps, active, instances,
          process, body, call>>

\* The library as the linker writes it, a copy of it, and the host itself.
Original == <<0, 0, 0>>
ShadowPath(id, n) == <<process, id, n>>
HostImage == <<0, 0, 1>>
Nowhere == <<0, 0, 2>>
Shadows == DOMAIN disk \ {Original}

\* What a file holds: a library; one that ends in its headers; one whose
\* headers are right and that the loader refuses; one without an entry point.
Contents == {"good", "cut", "torn", "foreign"}
HeadersRight(content) == content # "cut"
Loadable(content) == content \in {"good", "foreign"}

\* CelsApp with its CelsAppModule.  The handle is known by loadedPath.
NoApp == [isLoaded |-> FALSE, isStarted |-> FALSE, isStatic |-> FALSE,
          loadedPath |-> Nowhere, build |-> 0, lastWriteTime |-> 0,
          instanceId |-> 0, reloadCount |-> 0]

NoCall == [at |-> "none"]

Path == {Original, HostImage, Nowhere}
          \union (1 .. MaxProcesses) \X (1 .. MaxInstances) \X (Nat \ {0})

TypeOK ==
  /\ DOMAIN disk \subseteq Path \ {HostImage, Nowhere}
  /\ \A p \in DOMAIN disk :
       disk[p] \in [build : 0 .. MaxBuilds, content : Contents]
  /\ pdbs \subseteq Path
  /\ mtime \in Nat \ {0} /\ linking \in BOOLEAN
  /\ DOMAIN images \subseteq Path
  /\ \A p \in DOMAIN images :
       images[p] \in [build : 0 .. MaxBuilds, refs : Nat \ {0}]
  /\ apps \in [Apps -> [isLoaded : BOOLEAN, isStarted : BOOLEAN,
                        isStatic : BOOLEAN, loadedPath : Path,
                        build : 0 .. MaxBuilds, lastWriteTime : Nat,
                        instanceId : 0 .. MaxInstances, reloadCount : Nat]]
  /\ active \in Seq(Apps) /\ Len(active) <= MaxActive
  /\ IsInjective(active)
  /\ instances \in 0 .. MaxInstances
  /\ process \in 1 .. MaxProcesses
  /\ body \in [Apps -> Path]
  /\ call.at \in {"none", "copy", "open", "release"}

Init ==
  /\ disk = [p \in {Original} |-> [build |-> 1, content |-> "good"]]
  /\ pdbs = {}
  /\ mtime = 1
  /\ linking = FALSE
  /\ images = [p \in {HostImage} |-> [build |-> 0, refs |-> 1]]
  /\ apps = [a \in Apps |-> NoApp]
  /\ active = <<>>
  /\ instances = 0
  /\ process = 1
  /\ body = [a \in Apps |-> Nowhere]
  /\ call = NoCall

-----------------------------------------------------------------------------
(* The platform helpers.                                                   *)

\* IsPathReadable: the exclusive open fails while the linker has the file.
IsPathReadable ==
  /\ Original \in DOMAIN disk
  /\ Windows => ~linking

\* IsValidPEImage, which accepts anything where there are no PE images.
IsValidPEImage(path) == Windows => HeadersRight(disk[path].content)

\* PlatformLoadLibrary of a path that is mapped gives the same image again.
Opened(im, path) ==
  IF path \in DOMAIN im THEN [im EXCEPT ![path].refs = @ + 1]
  ELSE [p \in DOMAIN im \union {path} |->
          IF p = path THEN [build |-> disk[path].build, refs |-> 1] ELSE im[p]]

CanOpen(path) ==
  \/ path \in DOMAIN images
  \/ path \in DOMAIN disk /\ Loadable(disk[path].content)

\* PlatformGetProcAddress of the entry symbol.
HasEntry(path) ==
  path \in DOMAIN images \/ disk[path].content = "good"

\* PlatformFreeLibrary
Closed(im, path) ==
  IF im[path].refs > 1 THEN [im EXCEPT ![path].refs = @ - 1]
  ELSE Restrict(im, DOMAIN im \ {path})

\* PlatformDeleteFile, with im mapped.
Deleted(d, path, im) ==
  IF Windows /\ path \in DOMAIN im THEN d
  ELSE Restrict(d, DOMAIN d \ {path})

\* PlatformCleanupHotReloadFiles
Swept(d, im) == Restrict(d, {p \in DOMAIN d : p = Original \/ p \in DOMAIN im})

-----------------------------------------------------------------------------
(* Loading.                                                                *)

Idle == call.at = "none"

Candidate == IF Windows THEN ShadowPath(call.id, call.n) ELSE Original

\* The call returns false.
Fail ==
  /\ call' = NoCall
  /\ UNCHANGED <<apps, active, body>>

\* CelsAppModuleLoadEntryInternal up to the copy.  auto tells whether onStart
\* runs at once, as it does for the application of an engine.
LoadBegin(a, auto) ==
  /\ Idle /\ ~apps[a].isLoaded /\ instances < MaxInstances
  /\ disk' = IF active = <<>> THEN Swept(disk, images) ELSE disk
  /\ pdbs' = IF active = <<>> THEN {} ELSE pdbs
  /\ \/ /\ ~IsPathReadable
        /\ UNCHANGED <<instances, call>>
     \/ /\ IsPathReadable
        /\ instances' = instances + 1
        /\ call' = [at |-> IF Windows THEN "copy" ELSE "open", kind |-> "load",
                    app |-> a, auto |-> auto, time |-> mtime,
                    id |-> instances + 1, n |-> 1]
  /\ UNCHANGED <<mtime, linking, images, apps, active, process, body>>

AppLoad(a) == LoadBegin(a, FALSE)
EngineLoadApp(a) == LoadBegin(a, TRUE)

\* CelsAppBindStatic
AppBindStatic(a) ==
  /\ Idle /\ ~apps[a].isLoaded
  /\ apps' = [apps EXCEPT ![a] =
       [NoApp EXCEPT !.isLoaded = TRUE, !.isStatic = TRUE,
                     !.loadedPath = HostImage]]
  /\ UNCHANGED <<disk, pdbs, mtime, linking, images, active, instances,
                 process, body, call>>

\* The copy, on Windows.  A linker that has begun to write may or may not
\* make it fail; a reload looks at the headers of what it got.
Copy ==
  /\ call.at = "copy"
  /\ \/ /\ Original \notin DOMAIN disk \/ linking
        /\ Fail
        /\ UNCHANGED <<disk, pdbs>>
     \/ /\ Original \in DOMAIN disk
        /\ call.kind = "reload" => IsValidPEImage(Original)
        /\ disk' = [p \in DOMAIN disk \union {Candidate} |->
                      IF p = Candidate THEN disk[Original] ELSE disk[p]]
        /\ pdbs' = pdbs \union {Candidate}
        /\ call' = [call EXCEPT !.at = "open"]
        /\ UNCHANGED <<apps, active, body>>
     \/ /\ Original \in DOMAIN disk
        /\ call.kind = "reload" /\ ~IsValidPEImage(Original)
        /\ Fail
        /\ UNCHANGED <<disk, pdbs>>
  /\ UNCHANGED <<mtime, linking, images, instances, process>>

\* The loader refuses the file.
OpenRefused ==
  /\ call.at = "open" /\ ~CanOpen(Candidate)
  /\ disk' = Deleted(disk, Candidate, images)
  /\ Fail
  /\ UNCHANGED <<pdbs, mtime, linking, images, instances, process>>

\* There is no entry point: the library is freed and its file deleted.
OpenForeign ==
  /\ call.at = "open" /\ CanOpen(Candidate) /\ ~HasEntry(Candidate)
  /\ disk' = Deleted(disk, Candidate, images)
  /\ Fail
  /\ UNCHANGED <<pdbs, mtime, linking, images, instances, process>>

(* Mutant: one application too many is registered.                         *)
RegisteredLate(a) ==
  IF Len(active) <= MaxActive THEN Append(active, a) ELSE active

\* CelsRegisterActiveModule
Registered(a) ==
  IF Len(active) < MaxActive THEN Append(active, a) ELSE active

(* Mutant: the hook of a reload leaves what was attached as it is.         *)
AttachedOnce(a, path) == IF body[a] = Nowhere THEN path ELSE body[a]

\* onStart or onReload attaches the composition of the library at path.
Attached(a, path) == path

\* The rest of CelsAppModuleLoadEntryInternal.  A manifest that asks for a slab
\* of its own has the session destroyed and initialised again before onStart:
\* nothing stays attached to it but what onStart attaches.
LoadOpen ==
  /\ call.at = "open" /\ call.kind = "load"
  /\ CanOpen(Candidate) /\ HasEntry(Candidate)
  /\ images' = Opened(images, Candidate)
  /\ apps' = [apps EXCEPT ![call.app] =
       [isLoaded |-> TRUE, isStarted |-> call.auto, isStatic |-> FALSE,
        loadedPath |-> Candidate, build |-> images'[Candidate].build,
        lastWriteTime |-> call.time, instanceId |-> call.id,
        reloadCount |-> 1]]
  /\ \E kept \in {body[call.app], Nowhere} :
       body' = [body EXCEPT ![call.app] =
                  IF call.auto THEN Attached(call.app, Candidate) ELSE kept]
  /\ active' = Registered(call.app)
  /\ call' = NoCall
  /\ UNCHANGED <<disk, pdbs, mtime, linking, instances, process>>

\* CelsAppStart
AppStart(a) ==
  /\ Idle /\ apps[a].isLoaded /\ ~apps[a].isStarted
  /\ body' = [body EXCEPT ![a] = Attached(a, apps[a].loadedPath)]
  /\ apps' = [apps EXCEPT ![a].isStarted = TRUE]
  /\ UNCHANGED <<disk, pdbs, mtime, linking, images, active, instances,
                 process, call>>

-----------------------------------------------------------------------------
(* Reloading.                                                              *)

\* What CelsAppModuleCheckAndReload asks of the library besides its time.
CanReload ==
  Original \in DOMAIN disk /\ IsPathReadable /\ IsValidPEImage(Original)

ReloadCall(a) ==
  [at |-> IF Windows THEN "copy" ELSE "open", kind |-> "reload", app |-> a,
   auto |-> TRUE, time |-> mtime, id |-> apps[a].instanceId,
   n |-> apps[a].reloadCount + 1]

\* CelsAppModuleCheckAndReload up to the copy, called by CelsAppCheckReload
\* and CelsAppRuntimeCheck.
CheckReload(a) ==
  /\ Idle /\ apps[a].isLoaded /\ ~apps[a].isStatic
  /\ mtime > apps[a].lastWriteTime /\ CanReload
  /\ call' = ReloadCall(a)
  /\ UNCHANGED <<disk, pdbs, mtime, linking, images, apps, active, instances,
                 process, body>>

\* CelsAppReload forgets the write time before it makes the same check, and
\* it stays forgotten if the library cannot be reloaded.
AppReload(a) ==
  /\ Idle /\ apps[a].isLoaded /\ ~apps[a].isStatic
  /\ apps[a].reloadCount < MaxForced
  /\ apps' = [apps EXCEPT ![a].lastWriteTime = 0]
  /\ call' = IF CanReload THEN ReloadCall(a) ELSE NoCall
  /\ UNCHANGED <<disk, pdbs, mtime, linking, images, active, instances,
                 process, body>>

(* Mutant: the write time is looked up when the reload is done.            *)
TimeNow == mtime

\* The write time that a reload records: the one the check was made with.
TimeSeen == call.time

\* The swap, the hook and the recomposition: both libraries are mapped.
Swap ==
  /\ call.at = "open" /\ call.kind = "reload"
  /\ CanOpen(Candidate) /\ HasEntry(Candidate)
  /\ images' = Opened(images, Candidate)
  /\ apps' = [apps EXCEPT ![call.app].loadedPath = Candidate,
                          ![call.app].build = images'[Candidate].build,
                          ![call.app].reloadCount = call.n,
                          ![call.app].lastWriteTime = TimeSeen]
  /\ body' = [body EXCEPT ![call.app] = Attached(call.app, Candidate)]
  /\ call' = [at |-> "release", app |-> call.app,
              old |-> apps[call.app].loadedPath]
  /\ UNCHANGED <<disk, pdbs, mtime, linking, active, instances, process>>

(* Mutant: the file is deleted before the library is freed.                *)
ReleasedEarly(path) == Deleted(disk, path, images)

\* The disk when the old library is freed and its file deleted.  The debug
\* symbols are deleted under a name that no copy has.
Released(path) == Deleted(disk, path, Closed(images, path))

Release ==
  /\ call.at = "release"
  /\ images' = Closed(images, call.old)
  /\ disk' = Released(call.old)
  /\ call' = NoCall
  /\ UNCHANGED <<pdbs, mtime, linking, apps, active, instances, process, body>>

-----------------------------------------------------------------------------
(* Unloading, and the end of the process.                                  *)

\* CelsUnregisterActiveModule: those registered after it move up.
Unregistered(a) ==
  IF a \notin Range(active) THEN active
  ELSE LET i == CHOOSE k \in DOMAIN active : active[k] = a IN
       [k \in 1 .. Len(active) - 1 |->
          IF k < i THEN active[k] ELSE active[k + 1]]

\* CelsAppModuleUnload, called by CelsAppDestroy and CelsEngineEnd.
AppDestroy(a) ==
  /\ Idle /\ apps[a].isLoaded
  /\ apps' = [apps EXCEPT ![a] = NoApp]
  /\ body' = [body EXCEPT ![a] = Nowhere]
  /\ IF apps[a].isStatic
     THEN UNCHANGED <<active, images, disk, pdbs>>
     ELSE /\ active' = Unregistered(a)
          /\ images' = Closed(images, apps[a].loadedPath)
          /\ LET kept == Deleted(disk, apps[a].loadedPath, images')
             IN disk' = IF active' = <<>> THEN Swept(kept, images') ELSE kept
          /\ pdbs' = IF active' = <<>> THEN {} ELSE pdbs
  /\ UNCHANGED <<mtime, linking, instances, process, call>>

\* The process is gone, with everything in its memory.
NewProcess ==
  /\ process < MaxProcesses
  /\ process' = process + 1
  /\ images' = [p \in {HostImage} |-> [build |-> 0, refs |-> 1]]
  /\ apps' = [a \in Apps |-> NoApp]
  /\ body' = [a \in Apps |-> Nowhere]
  /\ active' = <<>>
  /\ instances' = 0
  /\ call' = NoCall
  /\ UNCHANGED <<mtime, linking>>

\* What is registered is unloaded.  What is not stays mapped, and its file
\* with it: the library of an application that found the registry full, and
\* the one that a reload is about to release.
UnloadActive ==
  IF active = <<>> THEN UNCHANGED <<disk, pdbs>>
  ELSE /\ disk' = Restrict(disk,
            {p \in DOMAIN disk : Windows
               /\ \/ p = Original
                  \/ \E a \in Apps \ Range(active) : apps[a].loadedPath = p
                  \/ call.at = "release" /\ p = call.old})
       /\ pdbs' = {}

\* CelsAppModuleCleanupAtExit
Exit == Idle /\ UnloadActive /\ NewProcess

\* CelsAppModuleConsoleCtrlHandler: Windows calls it on a thread of its own,
\* in the middle of whatever the host does, and ends the process after it.
ConsoleExit == Windows /\ UnloadActive /\ NewProcess

Crash == NewProcess /\ UNCHANGED <<disk, pdbs>>

-----------------------------------------------------------------------------
(* The linker.                                                             *)

\* Windows has write times of 100 ns; POSIX counts seconds here, and a second
\* write may have the time of the first.
Ticked(t) == IF Windows THEN {t + 1} ELSE {t, t + 1}

Written(build, content) ==
  disk' = [p \in DOMAIN disk \union {Original} |->
             IF p = Original THEN [build |-> build, content |-> content]
             ELSE disk[p]]

LatestBuild == IF Original \in DOMAIN disk THEN disk[Original].build ELSE 1

LinkStart ==
  /\ ~linking /\ LatestBuild < MaxBuilds
  /\ linking' = TRUE
  /\ mtime' \in Ticked(mtime)
  /\ \E content \in {"cut", "torn"} : Written(LatestBuild + 1, content)
  /\ UNCHANGED <<pdbs, images, apps, active, instances, process, body, call>>

LinkEnd ==
  /\ linking
  /\ linking' = FALSE
  /\ mtime' \in Ticked(mtime)
  /\ \E content \in Contents : Written(LatestBuild, content)
  /\ UNCHANGED <<pdbs, images, apps, active, instances, process, body, call>>

-----------------------------------------------------------------------------

Load == Copy \/ OpenRefused \/ OpenForeign \/ LoadOpen \/ Swap \/ Release

Next ==
  \/ \E a \in Apps :
       \/ AppLoad(a) \/ EngineLoadApp(a) \/ AppBindStatic(a) \/ AppStart(a)
       \/ CheckReload(a) \/ AppReload(a) \/ AppDestroy(a)
  \/ Load
  \/ Exit \/ ConsoleExit \/ Crash
  \/ LinkStart \/ LinkEnd

Spec == Init /\ [][Next]_vars

\* A call goes on to its end, and each round of the host's loop checks every
\* application.
FairSpec ==
  /\ Spec
  /\ WF_vars(Load)
  /\ \A a \in Apps : SF_vars(CheckReload(a))

-----------------------------------------------------------------------------
(* Properties.                                                             *)

\* The body that a session runs is in a library that is mapped, and outside
\* of calls in the one its application has loaded last.  About the order of
\* the swap, the hook, the release and the detach.
BodiesLoaded ==
  \A a \in Apps :
    body[a] # Nowhere =>
      /\ body[a] \in DOMAIN images
      /\ body[a] = apps[a].loadedPath

HasLibrary == Windows /\ \E a \in Apps : apps[a].isLoaded /\ ~apps[a].isStatic

\* An application has the copy at p loaded, or the call in progress will load
\* or delete it.
Owned(p) ==
  \/ \E a \in Apps : apps[a].loadedPath = p
  \/ call.at = "open" /\ p = Candidate
  \/ call.at = "release" /\ p = call.old

\* While a host has a library loaded, each copy of the library on the disk has
\* an owner: no failed load, no reload and no crashed host leaves one behind.
\* The copies of the debug symbols are another matter (SymbolsOwned).
ShadowsOwned == HasLibrary => \A p \in Shadows : Owned(p)

\* The same of the copies of the debug symbols, which dynamic-hot-reload-
\* engine.md says are deleted with the old library.
SymbolsOwned == HasLibrary => \A p \in pdbs : Owned(p)

\* An application that stays loaded runs in the end the last build that the
\* linker completed, whatever it was doing when the host looked.
NewestRuns ==
  \A a \in Apps : \A b \in 1 .. MaxBuilds :
    <>[](/\ apps[a].isLoaded /\ ~apps[a].isStatic
         /\ disk[Original] = [build |-> b, content |-> "good"])
      => <>[](apps[a].build = b)

\* module.h promises that unloading "cleans up shadow copy files": the
\* library itself is not the host's to delete.
LibraryKept == Original \in DOMAIN disk
=============================================================================
