---------------------------- MODULE PluginLoading ----------------------------
(***************************************************************************)
(* How copies of Streamline's frame-generation plugin are patched          *)
(* (src/src/streamline/plugin_patch.cpp, src/src/app/loader.cpp).  Unlike  *)
(* a runtime, a plugin is claimed first and pinned second: PatchPlugin     *)
(* enters the handle in g_patched under its lock, pins the image outside   *)
(* it, and takes the record back if the image is gone.                     *)
(*                                                                         *)
(* Which of the two patches are enabled is fixed before the first scan, so *)
(* one flag stands for both of a record's; a record is the handle itself.  *)
(***************************************************************************)
EXTENDS ModuleTable, Integers, FiniteSets

CONSTANTS Worker,   \* the loader's worker thread
          Plugins   \* files LoadedComponents(kPluginName) lists

ASSUME PluginAssumption ==
    /\ IsFiniteSet(Threads)
    /\ Worker \notin Threads
    /\ Plugins \subseteq Files

VARIABLES arch,             \* RealArchitecture()
          component_loads,  \* g_component_loads
          patched,          \* the modules in g_patched
          bytes,            \* what has become of the image mapped at each handle
          pc,               \* where each actor is
          due,              \* see LoadPlugin
          listed,           \* plugins the worker's scan found, not yet patched
          current           \* the plugin the worker is at

workerVars == <<listed, current>>
vars == <<tableVars, arch, component_loads, patched, bytes, pc, due, workerVars>>

Actors == Threads \cup {Worker}
InHook == {"load", "prepare", "claim", "pin", "write", "erase", "leave"}
WorkerAt == {"scan", "look", "patch", "claim", "pin", "write", "erase"}

\* "skipped": a patch did not fit one aligned word of code that may be running.
Bytes == {"stock", "patched", "skipped"}

Init ==
    /\ TableInit
    /\ arch = "Unknown"
    /\ component_loads = 0
    /\ patched = {}
    /\ bytes = [h \in Handles |-> "stock"]
    /\ pc = [a \in Actors |-> IF a = Worker THEN "scan" ELSE "idle"]
    /\ due = [t \in Threads |-> FALSE]
    /\ listed = {} /\ current = NoHandle

-----------------------------------------------------------------------------
Goto(a, from, to) == pc[a] = from /\ pc' = [pc EXCEPT ![a] = to]

Subject(a) == IF a = Worker THEN current ELSE handle[a]
Done(a) == IF a = Worker THEN "patch" ELSE "leave"

ForgetUnmapped == bytes' = [h \in Handles |-> IF image'[h] = NoFile THEN "stock" ELSE bytes[h]]

-----------------------------------------------------------------------------
(* The load hook, on a thread of the game. *)

EnterHook(t) ==
    /\ Goto(t, "idle", "load")
    /\ component_loads' = component_loads + 1
    /\ UNCHANGED <<tableVars, arch, patched, bytes, due, workerVars>>

\* `due` remembers that the GPU was known to be Ampere when this load mapped a plugin
\* nobody had mapped.
LoadPlugin(t) ==
    /\ Goto(t, "load", "prepare")
    /\ \E f \in Plugins, h \in Handles :
         /\ LoadModule(t, f, h)
         /\ due' = [due EXCEPT ![t] = ~Mapped(h) /\ arch = "Supported"]
    /\ UNCHANGED <<arch, component_loads, patched, bytes, workerVars>>

\* The load fails, or it was a runtime's (see RuntimeLoading): it counts all the same.
LoadFails(t) ==
    /\ Goto(t, "load", "leave")
    /\ UNCHANGED <<tableVars, arch, component_loads, patched, bytes, due, workerVars>>

Enabled == arch = "Supported"

PreparePlugin(t) ==
    /\ Goto(t, "prepare", IF Enabled THEN "claim" ELSE "leave")
    /\ UNCHANGED <<tableVars, arch, component_loads, patched, bytes, due, workerVars>>

LeaveHook(t) ==
    /\ Goto(t, "leave", IF handle[t] = NoHandle THEN "idle" ELSE "using")
    /\ component_loads' = component_loads - 1
    /\ due' = [due EXCEPT ![t] = FALSE]
    /\ UNCHANGED <<tableVars, arch, patched, bytes, workerVars>>

-----------------------------------------------------------------------------
(* PatchPlugin, on a loading thread (at_load) or on the worker. *)

NeverKnown(a) == FALSE  \* a mutant of Known
Known(a) == Subject(a) \in patched

Claim(a) ==
    /\ Goto(a, "claim", IF Known(a) THEN Done(a) ELSE "pin")
    /\ patched' = patched \cup {Subject(a)}
    /\ UNCHANGED <<tableVars, arch, component_loads, bytes, due, workerVars>>

\* A mutant of Pin: the handle is only looked up.
LookUp(a) ==
    /\ Goto(a, "pin", "write")
    /\ Mapped(Subject(a))
    /\ UNCHANGED <<tableVars, arch, component_loads, patched, bytes, due, workerVars>>

Pin(a) ==
    /\ Goto(a, "pin", "write")
    /\ PinModule(Subject(a))
    /\ UNCHANGED <<arch, component_loads, patched, bytes, due, workerVars>>

\* Only the worker's handles can be stale: a load holds a reference on its module.
PinFails ==
    /\ Goto(Worker, "pin", "erase")
    /\ ~Mapped(current)
    /\ UNCHANGED <<tableVars, arch, component_loads, patched, bytes, due, workerVars>>

\* A mutant of DropRecord: the record of an image that is gone stays.
KeepRecord ==
    /\ Goto(Worker, "erase", "patch")
    /\ UNCHANGED <<tableVars, arch, component_loads, patched, bytes, due, workerVars>>

DropRecord ==
    /\ Goto(Worker, "erase", "patch")
    /\ patched' = patched \ {current}
    /\ UNCHANGED <<tableVars, arch, component_loads, bytes, due, workerVars>>

\* At load any patch is written; afterwards one that does not fit a word is skipped.
\* An image that is not a plugin after all has no place to patch.
WritePatches(a) ==
    /\ Goto(a, "write", Done(a))
    /\ \/ image[Subject(a)] \notin Plugins /\ UNCHANGED bytes
       \/ /\ image[Subject(a)] \in Plugins
          /\ \E result \in {"patched"} \cup (IF a = Worker THEN {"skipped"} ELSE {}) :
               bytes' = [bytes EXCEPT ![Subject(a)] = result]
    /\ UNCHANGED <<tableVars, arch, component_loads, patched, due, workerVars>>

-----------------------------------------------------------------------------
(* The worker: the plugin part of one scan. *)

ListPlugins ==
    /\ Goto(Worker, "scan", "look")
    /\ Enabled
    /\ listed' = {h \in Handles : image[h] \in Plugins}
    /\ UNCHANGED <<tableVars, arch, component_loads, patched, bytes, due, current>>

\* The plugins are listed first and the counter is read second.
LookForLoads ==
    LET loading == component_loads > 0 IN
    /\ Goto(Worker, "look", IF loading THEN "scan" ELSE "patch")
    /\ listed' = IF loading THEN {} ELSE listed
    /\ UNCHANGED <<tableVars, arch, component_loads, patched, bytes, due, current>>

PatchListed ==
    /\ Goto(Worker, "patch", "claim")
    /\ \E h \in listed : listed' = listed \ {h} /\ current' = h
    /\ UNCHANGED <<tableVars, arch, component_loads, patched, bytes, due>>

EndScan ==
    /\ Goto(Worker, "patch", "scan")
    /\ listed = {}
    /\ current' = NoHandle
    /\ UNCHANGED <<tableVars, arch, component_loads, patched, bytes, due, listed>>

-----------------------------------------------------------------------------
(* The environment: the game and NVAPI. *)

Identify ==
    /\ arch = "Unknown"
    /\ arch' \in {"Supported", "NotNeeded"}
    /\ UNCHANGED <<tableVars, component_loads, patched, bytes, pc, due, workerVars>>

FreePlugin(t) ==
    /\ Goto(t, "using", "idle")
    /\ FreeModule(t)
    /\ ForgetUnmapped
    /\ UNCHANGED <<arch, component_loads, patched, due, workerVars>>

ImportOrDrop(h) ==
    /\ DropImport(h) \/ \E f \in Files : ImportModule(f, h)
    /\ ForgetUnmapped
    /\ UNCHANGED <<arch, component_loads, patched, pc, due, workerVars>>

-----------------------------------------------------------------------------
PatchPlugin(a) == Claim(a) \/ Pin(a) \/ WritePatches(a)

Hooked(t) == LoadPlugin(t) \/ LoadFails(t) \/ PreparePlugin(t) \/ PatchPlugin(t) \/ LeaveHook(t)

InspectPlugins ==
    ListPlugins \/ LookForLoads \/ PatchListed \/ EndScan \/ PinFails \/ DropRecord
    \/ PatchPlugin(Worker)

Next ==
    \/ \E t \in Threads : EnterHook(t) \/ Hooked(t) \/ FreePlugin(t)
    \/ InspectPlugins
    \/ Identify
    \/ \E h \in Handles : ImportOrDrop(h)

\* A load that has started runs to its end, and the worker never stops scanning.
Fairness == WF_vars(InspectPlugins) /\ \A t \in Threads : WF_vars(Hooked(t))

Spec == Init /\ [][Next]_vars
FairSpec == Spec /\ Fairness

-----------------------------------------------------------------------------
\* Types of the variables, and which program counters each actor can have.
TypeOK ==
    /\ TableTypeOK
    /\ arch \in {"Unknown", "Supported", "NotNeeded"}
    /\ component_loads \in Int
    /\ patched \in SUBSET Handles
    /\ bytes \in [Handles -> Bytes]
    /\ pc \in [Actors -> InHook \cup WorkerAt \cup {"idle", "using"}]
    /\ pc[Worker] \in WorkerAt
    /\ \A t \in Threads : pc[t] \in InHook \cup {"idle", "using"}
    /\ due \in [Threads -> BOOLEAN]
    /\ listed \in SUBSET Handles
    /\ current \in Handles \cup {NoHandle}

\* Between claiming a plugin and letting go of it.
AtWork(a, h) == Subject(a) = h /\ pc[a] \in {"pin", "write", "erase"}

\* The load hook and the worker never both patch the same image
\* (plugin_patch.cpp:304-305).
OnePatcher == \A a, b \in Actors : \A h \in Handles : AtWork(a, h) /\ AtWork(b, h) => a = b

\* An image is analysed and written to, and keeps what was written, only while it
\* cannot be unmapped (plugin_patch.cpp:318-320), although the record naming it was
\* made before it was pinned.
PatchedImagesStay ==
    /\ \A a \in Actors : pc[a] = "write" => Subject(a) \in pinned /\ Mapped(Subject(a))
    /\ \A h \in Handles : bytes[h] # "stock" => h \in pinned /\ image[h] \in Plugins

\* A record stands for the image mapped now: no plugin that is nobody's work is taken
\* for one that was unmapped before (plugin_patch.cpp:322-323).
NoStaleRecord ==
    \A h \in patched : image[h] \in Plugins =>
        bytes[h] # "stock" \/ \E a \in Actors : AtWork(a, h)

\* What loader.cpp:65-69 says of every load of a plugin on a known Ampere GPU: the
\* worker cannot have claimed it first, so the load returns with the patch written.
LoadKeepsItsPlugin ==
    \A t \in Threads : due[t] /\ pc[t] = "leave" => bytes[handle[t]] = "patched"

\* Once the loads of components have ended, a plugin that stays mapped is patched, as
\* far as running code allows, whatever happened to records of its address before.
PluginsPatched ==
    \A h \in Handles :
        <>[](component_loads = 0 /\ arch = "Supported" /\ image[h] \in Plugins)
            => <>(bytes[h] # "stock")
=============================================================================
