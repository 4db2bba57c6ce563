---------------------------- MODULE RuntimeLoading ----------------------------
(***************************************************************************)
(* How DLSS-G runtimes are found, pinned, recorded, unlocked and indexed   *)
(* (src/src/app/loader.cpp).  Two kinds of actor share g_runtimes: every   *)
(* thread of the game inside HookedLoadLibraryExW, and the worker, which   *)
(* rescans the loaded modules.  A load of a runtime bumps                  *)
(* g_component_loads before it maps the image and drops it on the way out. *)
(*                                                                         *)
(* A scan the worker makes before its thread exists (Start) is its first.  *)
(* The order of g_runtimes and of the module enumeration is abstracted: a  *)
(* loop over either takes its elements in any order.                       *)
(***************************************************************************)
EXTENDS ModuleTable, Integers, FiniteSets

CONSTANTS Worker,        \* the loader's worker thread
          Nobody,        \* gates not claimed yet
          RuntimeNamed,  \* files LoadedComponents(kRuntimeName) lists
          Providers,     \* files IsDlssgProvider accepts
          Redirect       \* the [Runtime] file, or NoFile when Mode=Off

ASSUME RuntimeAssumption ==
    /\ IsFiniteSet(Threads)
    /\ Worker \notin Threads
    /\ Nobody \notin Threads \cup {Worker}
    /\ RuntimeNamed \subseteq Files
    /\ Providers \subseteq Files
    /\ Redirect \in Files \cup {NoFile}

VARIABLES arch,             \* RealArchitecture()
          component_loads,  \* g_component_loads
          recorded,         \* the modules in g_runtimes
          claimant,         \* who set gates_claimed on each record
          writes,           \* UnlockMultiFrame calls on the image mapped now
          indexed,          \* ProviderIndexed
          pc,               \* where each actor is
          due,              \* see LoadRuntime
          found,            \* the worker's list of mapped runtimes, not yet recorded
          listed,           \* the worker's KnownRuntimes() list, not yet inspected
          loading,          \* the worker's reading of ComponentLoading()
          current           \* the module the worker is at

workerVars == <<found, listed, loading, current>>
vars == <<tableVars, arch, component_loads, recorded, claimant, writes, indexed, pc, due,
          workerVars>>

Actors == Threads \cup {Worker}

\* A thread is inside HookedLoadLibraryExW, between the two counter updates.
InHook == {"load", "prepare", "pin", "push", "gates", "claim", "write", "leave"}
WorkerAt == {"scan", "record", "pin", "push", "look", "inspect", "gates", "claim", "write",
             "index"}

Init ==
    /\ TableInit
    /\ arch = "Unknown"
    /\ component_loads = 0
    /\ recorded = {}
    /\ claimant = [h \in Handles |-> Nobody]
    /\ writes = [h \in Handles |-> 0]
    /\ indexed = {}
    /\ pc = [a \in Actors |-> IF a = Worker THEN "scan" ELSE "idle"]
    /\ due = [t \in Threads |-> FALSE]
    /\ found = {} /\ listed = {} /\ loading = FALSE /\ current = NoHandle

-----------------------------------------------------------------------------
Goto(a, from, to) == pc[a] = from /\ pc' = [pc EXCEPT ![a] = to]

\* The module an actor is working on, and where it goes once its gates are settled.
Subject(a) == IF a = Worker THEN current ELSE handle[a]
Settled(a) == IF a = Worker THEN "index" ELSE "leave"

\* An image that is unmapped takes the bytes written into it along.
ForgetUnmapped == writes' = [h \in Handles |-> IF image'[h] = NoFile THEN 0 ELSE writes[h]]

-----------------------------------------------------------------------------
(* The load hook, on a thread of the game. *)

EnterHook(t) ==
    /\ Goto(t, "idle", "load")
    /\ component_loads' = component_loads + 1
    /\ UNCHANGED <<tableVars, arch, recorded, claimant, writes, indexed, due, workerVars>>

\* The file loaded in place of every runtime, if one is configured.
MaybeRedirect == {Redirect} \ {NoFile}

\* LoadAndPrepare: the configured runtime instead of the one asked for, or, when
\* there is none or it cannot be loaded, the one asked for.  `due` remembers that
\* the GPU was known to be Ampere when this load mapped a runtime nobody had mapped.
LoadRuntime(t) ==
    /\ Goto(t, "load", "prepare")
    /\ \E f \in RuntimeNamed \cup MaybeRedirect, h \in Handles :
         /\ LoadModule(t, f, h)
         /\ due' = [due EXCEPT ![t] = ~Mapped(h) /\ f \in Providers /\ arch = "Supported"]
    /\ UNCHANGED <<arch, component_loads, recorded, claimant, writes, indexed, workerVars>>

LoadFails(t) ==
    /\ Goto(t, "load", "leave")
    /\ UNCHANGED <<tableVars, arch, component_loads, recorded, claimant, writes, indexed, due,
                   workerVars>>

\* Mutants of AfterPrepare: a runtime the worker has recorded meanwhile is left to it;
\* the gates are moved at once and recording is left to the next scan.
LeaveKnown(t) ==
    IF image[handle[t]] \in Providers /\ handle[t] \notin recorded
    THEN "pin" ELSE "leave"
LeaveUnrecorded(t) == IF image[handle[t]] \in Providers THEN "gates" ELSE "leave"

\* IsDlssgProvider, and Known in RecordRuntime.
AfterPrepare(t) ==
    IF image[handle[t]] \notin Providers THEN "leave"
    ELSE IF handle[t] \in recorded THEN "gates" ELSE "pin"

\* PrepareRuntime up to the pin in RecordRuntime.
PrepareRuntime(t) ==
    /\ Goto(t, "prepare", AfterPrepare(t))
    /\ UNCHANGED <<tableVars, arch, component_loads, recorded, claimant, writes, indexed, due,
                   workerVars>>

LeaveHook(t) ==
    /\ Goto(t, "leave", IF handle[t] = NoHandle THEN "idle" ELSE "using")
    /\ component_loads' = component_loads - 1
    /\ due' = [due EXCEPT ![t] = FALSE]
    /\ UNCHANGED <<tableVars, arch, recorded, claimant, writes, indexed, workerVars>>

-----------------------------------------------------------------------------
(* What the load hook and the worker both do to one runtime. *)

\* A mutant of Pin: the handle is only looked up.
LookUp(a) ==
    /\ Goto(a, "pin", "push")
    /\ Mapped(Subject(a))
    /\ UNCHANGED <<tableVars, arch, component_loads, recorded, claimant, writes, indexed, due,
                   workerVars>>

\* RecordRuntime pins outside the lock.  A load holds a reference on its module,
\* so only the worker can find the image gone.
Pin(a) ==
    /\ Goto(a, "pin", "push")
    /\ PinModule(Subject(a))
    /\ UNCHANGED <<arch, component_loads, recorded, claimant, writes, indexed, due, workerVars>>

Push(a) ==
    /\ Goto(a, "push", IF a = Worker THEN "record" ELSE "gates")
    /\ recorded' = recorded \cup {Subject(a)}
    /\ UNCHANGED <<tableVars, arch, component_loads, claimant, writes, indexed, due, workerVars>>

Enabled == arch = "Supported"

\* MaybeUnlockMultiFrame reads the architecture, then claims, then writes.
MaybeUnlockMultiFrame(a) ==
    /\ Goto(a, "gates", IF Enabled THEN "claim" ELSE Settled(a))
    /\ UNCHANGED <<tableVars, arch, component_loads, recorded, claimant, writes, indexed, due,
                   workerVars>>

AlwaysUnclaimed(a) == TRUE  \* a mutant of Unclaimed
Unclaimed(a) == claimant[Subject(a)] = Nobody

ClaimGates(a) ==
    /\ Goto(a, "claim", IF Unclaimed(a) THEN "write" ELSE Settled(a))
    /\ claimant' = IF Unclaimed(a) THEN [claimant EXCEPT ![Subject(a)] = a] ELSE claimant
    /\ UNCHANGED <<tableVars, arch, component_loads, recorded, writes, indexed, due, workerVars>>

UnlockMultiFrame(a) ==
    /\ Goto(a, "write", Settled(a))
    /\ writes' = [writes EXCEPT ![Subject(a)] = @ + 1]
    /\ UNCHANGED <<tableVars, arch, component_loads, recorded, claimant, indexed, due, workerVars>>

-----------------------------------------------------------------------------
(* The worker: one scan. *)

ListRuntimes ==
    /\ Goto(Worker, "scan", "record")
    /\ found' = {h \in Handles : image[h] \in RuntimeNamed}
    /\ UNCHANGED <<tableVars, arch, component_loads, recorded, claimant, writes, indexed, due,
                   listed, loading, current>>

RecordFound ==
    /\ pc[Worker] = "record"
    /\ \E h \in found :
         /\ found' = found \ {h}
         /\ current' = h
         /\ pc' = [pc EXCEPT ![Worker] = IF h \in recorded THEN "record" ELSE "pin"]
    /\ UNCHANGED <<tableVars, arch, component_loads, recorded, claimant, writes, indexed, due,
                   listed, loading>>

\* provider_pin_failed: the image was unmapped after it was listed.
PinFails ==
    /\ Goto(Worker, "pin", "record")
    /\ ~Mapped(current)
    /\ UNCHANGED <<tableVars, arch, component_loads, recorded, claimant, writes, indexed, due,
                   workerVars>>

NothingLoading == FALSE  \* a mutant of ComponentLoading
ComponentLoading == component_loads > 0

\* KnownRuntimes(), and only then ComponentLoading().
ListKnown ==
    /\ Goto(Worker, "record", "look")
    /\ found = {}
    /\ listed' = recorded
    /\ UNCHANGED <<tableVars, arch, component_loads, recorded, claimant, writes, indexed, due,
                   found, loading, current>>

LookForLoads ==
    /\ Goto(Worker, "look", "inspect")
    /\ loading' = ComponentLoading
    /\ UNCHANGED <<tableVars, arch, component_loads, recorded, claimant, writes, indexed, due,
                   found, listed, current>>

\* Mutants of AfterLook: whatever is mapped at the address is taken for a runtime; a
\* runtime is skipped whole during a load; an indexed one is not looked at again.
LookAtAnything(h) == IF loading THEN "index" ELSE "gates"
LookBetweenLoads(h) == IF image[h] \in Providers /\ ~loading THEN "gates" ELSE "inspect"
LookOnce(h) ==
    IF image[h] \notin Providers \/ h \in indexed THEN "inspect"
    ELSE IF loading THEN "index" ELSE "gates"

\* IsDlssgProvider, and whether a load is under way.
AfterLook(h) ==
    IF image[h] \notin Providers THEN "inspect" ELSE IF loading THEN "index" ELSE "gates"

InspectKnown ==
    /\ \E h \in listed :
         /\ Goto(Worker, "inspect", AfterLook(h))
         /\ listed' = listed \ {h}
         /\ current' = h
    /\ UNCHANGED <<tableVars, arch, component_loads, recorded, claimant, writes, indexed, due,
                   found, loading>>

BuildProviderIndex ==
    /\ Goto(Worker, "index", "inspect")
    /\ indexed' = indexed \cup {current}
    /\ UNCHANGED <<tableVars, arch, component_loads, recorded, claimant, writes, due, workerVars>>

EndScan ==
    /\ Goto(Worker, "inspect", "scan")
    /\ listed = {}
    /\ current' = NoHandle
    /\ loading' = FALSE
    /\ UNCHANGED <<tableVars, arch, component_loads, recorded, claimant, writes, indexed, due,
                   found, listed>>

-----------------------------------------------------------------------------
(* The environment: the game and NVAPI. *)

\* NVAPI answers for the first time (a machine with one GPU: see ArchSpoof).
Identify ==
    /\ arch = "Unknown"
    /\ arch' \in {"Supported", "NotNeeded"}
    /\ UNCHANGED <<tableVars, component_loads, recorded, claimant, writes, indexed, pc, due,
                   workerVars>>

FreeRuntime(t) ==
    /\ Goto(t, "using", "idle")
    /\ FreeModule(t)
    /\ ForgetUnmapped
    /\ UNCHANGED <<arch, component_loads, recorded, claimant, indexed, due, workerVars>>

ImportOrDrop(h) ==
    /\ DropImport(h) \/ \E f \in Files : ImportModule(f, h)
    /\ ForgetUnmapped
    /\ UNCHANGED <<arch, component_loads, recorded, claimant, indexed, pc, due, workerVars>>

-----------------------------------------------------------------------------
Prepare(a) == Pin(a) \/ Push(a) \/ MaybeUnlockMultiFrame(a) \/ ClaimGates(a) \/ UnlockMultiFrame(a)

Hooked(t) == LoadRuntime(t) \/ LoadFails(t) \/ PrepareRuntime(t) \/ Prepare(t) \/ LeaveHook(t)

InspectProvider ==
    \/ ListRuntimes \/ RecordFound \/ PinFails \/ ListKnown
    \/ LookForLoads \/ InspectKnown \/ BuildProviderIndex \/ EndScan
    \/ Prepare(Worker)

Next ==
    \/ \E t \in Threads : EnterHook(t) \/ Hooked(t) \/ FreeRuntime(t)
    \/ InspectProvider
    \/ Identify
    \/ \E h \in Handles : ImportOrDrop(h)

\* A load that has started runs to its end, and the worker never stops scanning.
Fairness == WF_vars(InspectProvider) /\ \A t \in Threads : WF_vars(Hooked(t))

Spec == Init /\ [][Next]_vars
FairSpec == Spec /\ Fairness
-----------------------------------------------------------------------------
\* Types of the variables, and which program counters each actor can have.
TypeOK ==
    /\ TableTypeOK
    /\ arch \in {"Unknown", "Supported", "NotNeeded"}
    /\ component_loads \in Int
    /\ recorded \in SUBSET Handles
    /\ claimant \in [Handles -> Actors \cup {Nobody}]
    /\ writes \in [Handles -> Nat]
    /\ indexed \in SUBSET Handles
    /\ pc \in [Actors -> InHook \cup WorkerAt \cup {"idle", "using"}]
    /\ pc[Worker] \in WorkerAt
    /\ \A t \in Threads : pc[t] \in InHook \cup {"idle", "using"}
    /\ due \in [Threads -> BOOLEAN]
    /\ found \in SUBSET Handles
    /\ listed \in SUBSET Handles
    /\ loading \in BOOLEAN
    /\ current \in Handles \cup {NoHandle}

\* The records, and the index, which points into the images, only ever name
\* images that can no longer be unmapped (loader.cpp:112-118): pinning comes
\* before recording, although the two are not one step and the handle may be
\* stale by then.
RecordsArePinned == indexed \subseteq recorded /\ \A h \in recorded : h \in pinned /\ Mapped(h)

\* Nothing but a DLSS-G runtime is ever rewritten or indexed, also when the
\* address a scan found a runtime at has been reused by another module.
OnlyRuntimesTouched == \A h \in Handles : writes[h] > 0 \/ h \in indexed => image[h] \in Providers

\* The gates of one image are rewritten at most once (loader.cpp:146), whoever
\* loads, rescans or reloads it.
UnlockedOnce == \A h \in Handles : writes[h] <= 1

\* On a GPU that is not Ampere no gate is rewritten or about to be
\* (loader.cpp:192-194).
NativeGpuUntouched ==
    arch # "Supported" => \A h \in Handles : claimant[h] = Nobody /\ writes[h] = 0

\* A load that maps a runtime never loses it to the worker (loader.cpp:146-148).
LoadKeepsItsRuntime == \A t \in Threads : due[t] => claimant[handle[t]] # Worker

\* When a load that mapped a runtime returns, its gates have been rewritten, or
\* another load of the same runtime is rewriting them now.  Two loads of one
\* runtime can overlap, and only one of them claims.
SomeLoadUnlocks ==
    \A t \in Threads : due[t] /\ pc[t] = "leave" =>
        \/ writes[handle[t]] = 1
        \/ \E u \in Threads : pc[u] = "write" /\ handle[u] = handle[t]

\* What the documentation says of the same moment: the load has rewritten the
\* gates before it returns.
UnlockedBeforeReturn ==
    \A t \in Threads : due[t] /\ pc[t] = "leave" => writes[handle[t]] = 1

\* The same system as a lifecycle of each runtime.
Stage(h) == IF h \notin recorded THEN "absent"
            ELSE IF claimant[h] = Nobody THEN "recorded"
            ELSE IF writes[h] = 0 THEN "claimed" ELSE "unlocked"

Lifecycle ==
    INSTANCE RuntimeLifecycle WITH stage <- [h \in Handles |-> Stage(h)], usable <- indexed

\* A recorded runtime is only ever claimed, unlocked and indexed, in that order
\* and once each, never forgotten.
ImplementsLifecycle == Lifecycle!Spec

\* Every recorded runtime is indexed in the end, whatever loads go on.
RuntimesIndexed ==
    \A h \in Handles : (h \in recorded /\ image[h] \in Providers) ~> (h \in indexed)

\* A runtime that was loaded before the GPU was known is unlocked later
\* (loader.cpp:204-205), provided the loads of components come to an end: the
\* worker unlocks nothing while one is under way.
DeferredRuntimesUnlocked ==
    <>[](component_loads = 0) =>
        \A h \in Handles :
            (h \in recorded /\ image[h] \in Providers /\ arch = "Supported") ~> (writes[h] > 0)
=============================================================================
