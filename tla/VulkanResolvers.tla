---------------------------- MODULE VulkanResolvers ----------------------------
(***************************************************************************)
(* How the Vulkan loader's resolvers are hooked, and what they hand out    *)
(* (src/src/vulkan/loader_hooks.cpp, src/src/core/hooks.h, and ShouldWrap  *)
(* in vulkan/reflex_pacing.cpp).  The worker hooks the two one after the   *)
(* other while threads of the game resolve functions through either.       *)
(*                                                                         *)
(* A driver's function is named by the device it was resolved for, its     *)
(* handle and a serial number; the loader's trampoline serves every device.*)
(* A device handle can be used again once its device is destroyed.         *)
(***************************************************************************)
EXTENDS Naturals

CONSTANTS Threads,     \* threads of the game
          Devices,     \* device handles
          AnyDevice,   \* the null handle a trampoline is recorded under
          Trampoline,  \* what vkGetInstanceProcAddr returns
          NoFunction,  \* nothing resolved
          Gpu,         \* what RealArchitecture says once NVAPI was asked
          PacingFix,   \* PatchFlipMetering
          MaxSerial    \* bound on the devices created under one handle

ASSUME ResolverAssumption ==
    /\ AnyDevice \notin Devices
    /\ Trampoline \notin Devices \X Nat /\ NoFunction \notin Devices \X Nat
    /\ Trampoline # NoFunction
    /\ Gpu \in {"Supported", "NotNeeded"}
    /\ PacingFix \in BOOLEAN
    /\ MaxSerial \in Nat

VARIABLES hooking,      \* the resolver the worker is hooking, or "done"
          stage,        \* how far it is
          slot,         \* resolvers whose original is published to their detour
          enabled,      \* resolvers that jump to their detour
          arch,         \* RealArchitecture()
          wrapping,     \* g_wrapping
          resolutions,  \* g_resolutions
          serial,       \* how often each handle was used before
          held,         \* the function pointers the game has from the detours
          pc,           \* where each thread is in a resolution
          query         \* what each thread is resolving

hookVars == <<hooking, stage, slot, enabled>>
resolverVars == <<hookVars, arch, wrapping, resolutions, serial, held, pc, query>>

Resolvers == {"device", "instance"}
Latency == {"SetLatencySleepMode", "LatencySleep"}
\* The kernel functions are one here: the other only reports its failures.
Functions == Latency \cup {"CreateCuModule"}
Handles == Devices \cup {AnyDevice}

NoQuery == [function |-> "none"]

ResolverInit ==
    /\ hooking = "device" /\ stage = "create"
    /\ slot = {} /\ enabled = {}
    /\ arch = "Unknown"
    /\ wrapping = "Undecided"
    /\ resolutions = [f \in Functions |-> [d \in Handles |-> NoFunction]]
    /\ serial = [d \in Devices |-> 0]
    /\ held = {}
    /\ pc = [t \in Threads |-> "idle"]
    /\ query = [t \in Threads |-> NoQuery]

-----------------------------------------------------------------------------
(* The worker: InstallLoaderHooks, once, and hooks::Install for each resolver. *)

NextResolver == IF hooking = "device" THEN "instance" ELSE "done"

\* A mutant of After: the hook is enabled before its original is published.
EnableFirst == [create |-> "enable", enable |-> "publish", publish |-> "create"]
\* The three steps of an installation; after the last the next one is created.
After == [create |-> "publish", publish |-> "enable", enable |-> "create"]

StepDone ==
    /\ stage' = After[stage]
    /\ hooking' = IF stage' = "create" THEN NextResolver ELSE hooking

\* The resolver is not exported, or MinHook cannot create the hook.
CreateFails ==
    /\ hooking # "done" /\ stage = "create"
    /\ hooking' = NextResolver
    /\ UNCHANGED <<stage, slot, enabled>>

CreateHook ==
    /\ hooking # "done" /\ stage = "create"
    /\ StepDone
    /\ UNCHANGED <<slot, enabled>>

Publish ==
    /\ stage = "publish"
    /\ slot' = slot \cup {hooking}
    /\ StepDone
    /\ UNCHANGED enabled

Enable ==
    /\ stage = "enable"
    /\ enabled' = enabled \cup {hooking}
    /\ StepDone
    /\ UNCHANGED slot

\* The hook is removed, and its original with it.
EnableFails ==
    /\ stage = "enable"
    /\ slot' = slot \ {hooking}
    /\ stage' = "create" /\ hooking' = NextResolver
    /\ UNCHANGED enabled

InstallLoaderHooks ==
    /\ CreateFails \/ CreateHook \/ Publish \/ Enable \/ EnableFails
    /\ UNCHANGED <<arch, wrapping, resolutions, serial, held, pc, query>>

-----------------------------------------------------------------------------
(* The game's threads. *)

Resolver(via) == IF via = AnyDevice THEN "instance" ELSE "device"
Driver(via) == IF via = AnyDevice THEN Trampoline ELSE <<via, serial[via]>>

Goto(t, from, to) == pc[t] = from /\ pc' = [pc EXCEPT ![t] = to]

Pointer(f, via, kind) == [function |-> f, via |-> via, kind |-> kind]

\* The detour of t's resolution returns a pointer of this kind.
Return(t, from, kind) ==
    /\ Goto(t, from, "idle")
    /\ held' = held \cup {Pointer(query[t].function, query[t].via, kind)}
    /\ query' = [query EXCEPT ![t] = NoQuery]

\* The game resolves f, for one device or for every device, through a resolver that
\* is hooked.  (One that is not returns the driver's function, which is its own.)
Resolve(t, f, via) ==
    /\ Resolver(via) \in enabled
    /\ Goto(t, "idle", "detour")
    /\ query' = [query EXCEPT ![t] = [function |-> f, via |-> via]]
    /\ UNCHANGED <<hookVars, arch, wrapping, resolutions, serial, held>>

\* HookedGetDeviceProcAddr and HookedGetInstanceProcAddr, up to the wrapper.
\* Kernel functions are always wrapped, the latency functions by a decision.
Detour(t) ==
    /\ pc[t] = "detour"
    /\ LET f == query[t].function
           published == Resolver(query[t].via) \in slot
       IN \/ ~published /\ Return(t, "detour", "null")
          \/ published /\ f \notin Latency /\ Goto(t, "detour", "record")
             /\ UNCHANGED <<held, query>>
          \/ published /\ f \in Latency /\ Goto(t, "detour", "consider")
             /\ UNCHANGED <<held, query>>
    /\ UNCHANGED <<hookVars, arch, wrapping, resolutions, serial>>

\* ShouldWrap: the decision taken is followed, and otherwise the GPU is asked for.
Consider(t) ==
    /\ pc[t] = "consider"
    /\ \/ wrapping = "Undecided" /\ Goto(t, "consider", "read") /\ UNCHANGED <<held, query>>
       \/ wrapping = "Wrap" /\ Goto(t, "consider", "record") /\ UNCHANGED <<held, query>>
       \/ wrapping = "Leave" /\ Return(t, "consider", "plain")
    /\ UNCHANGED <<hookVars, arch, wrapping, resolutions, serial>>

Wrap(architecture) == architecture = "Supported" /\ PacingFix

ReadArchitecture(t) ==
    /\ Goto(t, "read", IF Wrap(arch) THEN "wrap" ELSE "leave")
    /\ UNCHANGED <<hookVars, arch, wrapping, resolutions, serial, held, query>>

Overwrite(wish) == wish  \* a mutant of Decided: a store, not a compare-and-swap
\* The first decision stands.
Decided(wish) == IF wrapping = "Undecided" THEN wish ELSE wrapping

Decide(t) ==
    /\ pc[t] \in {"wrap", "leave"}
    /\ wrapping' = Decided(IF pc[t] = "wrap" THEN "Wrap" ELSE "Leave")
    /\ Goto(t, pc[t], "consider")
    /\ UNCHANGED <<hookVars, arch, resolutions, serial, held, query>>

\* A mutant of Recorded: a function that is known already is not recorded again.
RecordedOnce(f, via) ==
    IF resolutions[f][via] = NoFunction
    THEN [resolutions EXCEPT ![f][via] = Driver(via)] ELSE resolutions

\* Record: what is called for the device is what was resolved last.
Recorded(f, via) == [resolutions EXCEPT ![f][via] = Driver(via)]

Record(t) ==
    /\ pc[t] = "record"
    /\ resolutions' = Recorded(query[t].function, query[t].via)
    /\ Return(t, "record", "wrapper")
    /\ UNCHANGED <<hookVars, arch, wrapping, serial>>

\* The function a wrapper calls through for a device.
Original(f, d) ==
    IF resolutions[f][d] # NoFunction THEN resolutions[f][d] ELSE resolutions[f][AnyDevice]

\* NVAPI is asked for the GPU.
Identify ==
    /\ arch = "Unknown" /\ arch' = Gpu
    /\ UNCHANGED <<hookVars, wrapping, resolutions, serial, held, pc, query>>

\* The game destroys a device and gets another one under the same handle.  Its
\* functions are gone with it, and nothing is being resolved for it.
RecreateDevice(d) ==
    /\ \A t \in Threads : query[t] # NoQuery => query[t].via # d
    /\ serial[d] < MaxSerial
    /\ serial' = [serial EXCEPT ![d] = @ + 1]
    /\ held' = {p \in held : p.via # d}
    /\ UNCHANGED <<hookVars, arch, wrapping, resolutions, pc, query>>

-----------------------------------------------------------------------------
Resolution(t) ==
    \/ \E f \in Functions, via \in Handles : Resolve(t, f, via)
    \/ Detour(t) \/ Consider(t) \/ ReadArchitecture(t) \/ Decide(t) \/ Record(t)

ResolverNext ==
    \/ InstallLoaderHooks
    \/ \E t \in Threads : Resolution(t)
    \/ Identify
    \/ \E d \in Devices : RecreateDevice(d)

ResolverSpec == ResolverInit /\ [][ResolverNext]_resolverVars
-----------------------------------------------------------------------------
\* Types of the variables.
ResolverTypeOK ==
    /\ hooking \in Resolvers \cup {"done"}
    /\ stage \in {"create", "publish", "enable"}
    /\ slot \subseteq Resolvers /\ enabled \subseteq Resolvers
    /\ arch \in {"Unknown", Gpu}
    /\ wrapping \in {"Undecided", "Wrap", "Leave"}
    /\ resolutions \in
         [Functions -> [Handles -> (Devices \X (0..MaxSerial)) \cup {Trampoline, NoFunction}]]
    /\ serial \in [Devices -> 0..MaxSerial]
    /\ held \subseteq [function : Functions, via : Handles,
                      kind : {"wrapper", "plain", "null"}]
    /\ pc \in [Threads -> {"idle", "detour", "consider", "read", "wrap", "leave", "record"}]
    /\ query \in [Threads -> [function : Functions, via : Handles] \cup {NoQuery}]

\* No resolution of a function the driver has comes back empty because it was made
\* while the resolvers were being hooked (hooks.h:13-18).
NoEmptyAnswer == \A p \in held : p.kind # "null"

\* The two latency functions are wrapped as a pair, whichever threads resolve them and
\* whenever the GPU becomes known, as far as they pass through the hooks
\* (reflex_pacing.cpp:24-27).
PairAgrees ==
    \A p, q \in held :
        p.function \in Latency /\ q.function \in Latency => p.kind = q.kind

\* A wrapper resolved for a device calls through to the function the driver has for
\* that device now, also after the handle was used again; one resolved for every
\* device finds something to call (loader_hooks.h:29-32).
DeviceDispatch ==
    \A p \in held : p.kind = "wrapper" =>
        IF p.via = AnyDevice THEN \A d \in Devices : Original(p.function, d) # NoFunction
                             ELSE Original(p.function, p.via) = Driver(p.via)
=============================================================================
