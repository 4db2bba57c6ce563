------------------------------ MODULE NvapiInstall ------------------------------
(***************************************************************************)
(* How NVAPI gets its hooks (src/src/spoof/nvapi.cpp, Install, and         *)
(* src/src/app/loader.cpp, Start and InspectLoadedModules), while threads  *)
(* already ask the architecture hook and act on its answers (ArchSpoof).   *)
(*                                                                         *)
(* One actor installs: the thread that runs Start, and from then on the    *)
(* worker it creates.  The architecture hook comes first, and its failure  *)
(* is retried; each of the others is created, published and enabled, or    *)
(* fails, by itself, and is never tried again.  A query made while the     *)
(* architecture is not hooked goes to NVAPI, which answers truthfully and  *)
(* of which the engine knows nothing: it changes no state here.            *)
(***************************************************************************)
EXTENDS ArchSpoof, Sequences

CONSTANTS Interfaces,    \* the hooked interfaces, in the order Install takes them
          ScgPriority,   \* NvAPI_D3D12_SetRawScgPriority
          kNvapiAttempts

ArchInfo == 1  \* NvAPI_GPU_GetArchInfo is the first of them

ASSUME InstallAssumption ==
    /\ Interfaces \in Seq(STRING)
    /\ ScgPriority \in 2..Len(Interfaces)
    /\ kNvapiAttempts \in Nat \ {0}

VARIABLES nvapi,          \* when nvapi64.dll was mapped: not yet, by the end of Start's own
                          \* load, or later
          hook,           \* how far the hook on each interface has come
          failed,         \* interfaces whose last installation failed
          install_state,  \* g_install_state
          attempts,       \* g_nvapi_attempts
          failures,       \* how often the architecture could not be hooked
          stage,          \* what the installing thread does
          current         \* the interface it is at

installVars == <<nvapi, hook, failed, install_state, attempts, failures, stage, current>>
allVars == <<spoofVars, installVars>>

Which == DOMAIN Interfaces
HookStages == {"none", "created", "published", "enabled"}
Stages == {"start", "inspect", "hook", "failed", "wait"}

InstallInit ==
    /\ SpoofInit
    /\ nvapi \in {"absent", "start"}
    /\ hook = [i \in Which |-> "none"] /\ failed = {}
    /\ install_state = "idle"
    /\ attempts = 0 /\ failures = 0
    /\ stage = "start" /\ current = ArchInfo

-----------------------------------------------------------------------------
Proceed(from, to) == stage = from /\ stage' = to
Hook(i, from, to) == hook[i] = from /\ hook' = [hook EXCEPT ![i] = to]

ToWorker == "wait"  \* a mutant of AfterMap: the inspection is left to the worker
AfterMap == "inspect"

\* Start maps nvapi64.dll unless it is there; a machine without a driver has none.
MapNvapi ==
    /\ Proceed("start", AfterMap)
    /\ \/ nvapi' = "start"
       \/ nvapi = "absent" /\ UNCHANGED nvapi
    /\ UNCHANGED <<spoofVars, hook, failed, install_state, attempts, failures, current>>

\* The game maps it, after Start has tried.
GameMapsNvapi ==
    /\ nvapi = "absent" /\ stage # "start"
    /\ nvapi' = "later"
    /\ UNCHANGED <<spoofVars, hook, failed, install_state, attempts, failures, stage, current>>

Tries == nvapi # "absent" /\ attempts < kNvapiAttempts
Claims == Tries /\ install_state = "idle"

\* What Install's exchange of kIdle for kInstalling comes back with.  An installation that
\* is under way would count as an attempt that failed.
AfterInspect ==
    IF Claims THEN "hook"
    ELSE IF Tries /\ install_state # "installed" THEN "failed" ELSE "wait"

\* InspectLoadedModules, as far as NVAPI is concerned, up to that exchange.
Inspect ==
    /\ Proceed("inspect", AfterInspect)
    /\ install_state' = IF Claims THEN "installing" ELSE install_state
    /\ current' = IF Claims THEN ArchInfo ELSE current
    /\ UNCHANGED <<spoofVars, nvapi, hook, failed, attempts, failures>>

-----------------------------------------------------------------------------
(* HookInterface and hooks::Install on one interface. *)

CreateHook ==
    /\ Proceed("hook", "hook") /\ Hook(current, "none", "created")
    /\ UNCHANGED <<spoofVars, nvapi, failed, install_state, attempts, failures, current>>

PublishOriginal ==
    /\ Proceed("hook", "hook") /\ Hook(current, "created", "published")
    /\ UNCHANGED <<spoofVars, nvapi, failed, install_state, attempts, failures, current>>

\* Mutant of StateAfter: the architecture hook, on which all depends, completes Install.
StateAfterArch(i) == "installed"
\* Install has ended after the last interface, whatever became of it.
StateAfter(i) == IF i = Len(Interfaces) THEN "installed" ELSE install_state

NextInterface ==
    /\ install_state' = StateAfter(current)
    /\ stage' = IF current = Len(Interfaces) THEN "wait" ELSE "hook"
    /\ current' = IF current = Len(Interfaces) THEN current ELSE current + 1

EnableHook ==
    /\ stage = "hook" /\ Hook(current, "published", "enabled")
    /\ failed' = failed \ {current}
    /\ NextInterface
    /\ UNCHANGED <<spoofVars, nvapi, attempts, failures>>

Released == "idle"

\* The interface is absent, or its hook cannot be created or enabled: what was made of it
\* is taken back.  Only a failure of the architecture hook ends the attempt.
HookFails ==
    /\ stage = "hook"
    /\ hook' = [hook EXCEPT ![current] = "none"]
    /\ failed' = failed \cup {current}
    /\ IF current = ArchInfo
       THEN /\ Proceed("hook", "failed")
            /\ install_state' = Released
            /\ failures' = failures + 1
            /\ UNCHANGED current
       ELSE NextInterface /\ UNCHANGED failures
    /\ UNCHANGED <<spoofVars, nvapi, attempts>>

\* Install has returned false.
CountAttempt ==
    /\ Proceed("failed", "wait")
    /\ attempts' = attempts + 1
    /\ UNCHANGED <<spoofVars, nvapi, hook, failed, install_state, failures, current>>

\* The worker's next scan.
Rescan ==
    /\ Proceed("wait", "inspect")
    /\ UNCHANGED <<spoofVars, nvapi, hook, failed, install_state, attempts, failures, current>>

-----------------------------------------------------------------------------
(* The process: calls into hooked interfaces, and past hooks that are not there. *)

\* Only the detour of an enabled hook starts a query here; one that runs goes on.
Query(t) ==
    /\ at[t] = "idle" => hook[ArchInfo] = "enabled"
    /\ HookedGetArchInfo(t)
    /\ UNCHANGED installVars

SetPriority(m) ==
    /\ hook[ScgPriority] = "enabled"
    /\ SetRawScgPriority(m)
    /\ UNCHANGED installVars

InstallStep ==
    \/ MapNvapi \/ Inspect
    \/ CreateHook \/ PublishOriginal \/ EnableHook \/ HookFails
    \/ CountAttempt \/ Rescan

InstallNext ==
    \/ InstallStep
    \/ GameMapsNvapi
    \/ \E t \in Threads : Query(t)
    \/ \E m \in Callers : SetPriority(m)

InstallSpec == InstallInit /\ [][InstallNext]_allVars
-----------------------------------------------------------------------------
\* Types of the variables.
InstallTypeOK ==
    /\ SpoofTypeOK
    /\ nvapi \in {"absent", "start", "later"}
    /\ hook \in [Which -> HookStages]
    /\ failed \subseteq Which
    /\ install_state \in {"idle", "installing", "installed"}
    /\ attempts \in Nat /\ failures \in Nat
    /\ stage \in Stages
    /\ current \in Which

\* A module told Ada creates kernels and makes the Ada-only call.  Once it can be told, an
\* interface that is not hooked, and lets these calls through to NVAPI as they are, is one
\* whose own hook failed, or whose turn has not come in an installation still under way
\* (nvapi.cpp:355-378).
OnlyBrokenBypassed ==
    \A i \in Which : (\E m \in Callers : ToldAda(m)) /\ hook[i] # "enabled" =>
        i \in failed \/ install_state = "installing"

\* An attempt is used up only by an architecture hook that could not be installed
\* (loader.cpp:265-269): neither a failure of another hook nor an installation that is
\* complete or abandoned costs one.
AttemptsAreFailures ==
    /\ stage # "failed" => attempts = failures
    /\ attempts <= kNvapiAttempts

\* If NVAPI was there when Start looked and its architecture could be hooked, it is hooked
\* before Start ends and leaves the rest to a scan (loader.cpp:408-417).
StartLeavesArchHooked ==
    stage = "wait" /\ nvapi = "start" /\ failures = 0 => hook[ArchInfo] = "enabled"
=============================================================================
