------------------------------- MODULE ArchSpoof -------------------------------
(***************************************************************************)
(* The hook on NvAPI_GPU_GetArchInfo (src/src/spoof/nvapi.cpp): who is     *)
(* told which architecture, and what else one answer switches on.  Every   *)
(* module of the process asks, on any thread, about any adapter.  The      *)
(* answer itself is local to the call; g_real_architecture and the state   *)
(* behind kernels::Activate are shared by all of them.                     *)
(*                                                                         *)
(* Configure, SetSpoofCallers and the other setters run once, before the   *)
(* hook exists, so the configuration is constant here.  A query NVAPI      *)
(* itself refuses changes nothing and is left out.                         *)
(***************************************************************************)
EXTENDS Naturals

CONSTANTS Threads,     \* threads that call NVAPI
          Modules,     \* modules that ask, each with a component file name
          Redirected,  \* the module loaded from RuntimeFile, if the redirect is on
          NoModule,    \* a return address inside no module, such as a trampoline
          Name,        \* ComponentFileName of each module but Redirected
          RuntimeName, \* nvngx_dlssg.dll
          Adapters, Arch, Impl,  \* the GPUs and what NVAPI says of each
          Configurations,        \* the settings the process can start with
          NoArch       \* no architecture read yet

Callers == Modules \cup {NoModule}
Architectures == {"Turing", "Ampere", "Ada"}

ASSUME SpoofAssumption ==
    /\ Redirected \in Modules /\ NoModule \notin Modules
    /\ Arch \in [Adapters -> Architectures]
    /\ NoArch \notin Architectures
    /\ NoArch \notin Nat
    /\ Impl \in [Adapters -> Nat]

VARIABLES config,             \* the settings
          real_architecture,  \* g_real_architecture
          fallback_arch,      \* g_fallback_arch
          fallback_impl,      \* g_fallback_impl
          active,             \* g_active
          query,              \* the module and adapter each thread's call is about
          at,                 \* where each thread is in HookedGetArchInfo
          answers,            \* every answer given: module, adapter, architecture
          ran                 \* modules told Ada whose SetRawScgPriority call ran

activation == <<fallback_arch, fallback_impl, active>>
spoofVars == <<config, real_architecture, activation, query, at, answers, ran>>

Steps == {"idle", "answer", "arch", "impl", "flag", "caller"}

\* A thread that is not in the hook.
NoQuery == <<>>

SpoofInit ==
    /\ config \in Configurations
    /\ real_architecture = NoArch
    /\ fallback_arch = NoArch /\ fallback_impl = 0 /\ active = FALSE
    /\ query = [t \in Threads |-> NoQuery]
    /\ at = [t \in Threads |-> "idle"]
    /\ answers = {} /\ ran = {}

-----------------------------------------------------------------------------
IsSupported(architecture) == architecture = "Ampere"

ConfiguredCallers == config.spoof_callers  \* a mutant of SpoofCallers

\* The callers told Ada: the configured list, and the redirected runtime under
\* the name it is configured as.  A path is the directory part and the leaf.
SpoofCallers ==
    config.spoof_callers \cup IF config.redirect_runtime THEN {config.runtime_file} ELSE {}

\* The redirected runtime carries the leaf of the configured path.
ComponentFileName(m) == IF m = Redirected THEN config.runtime_file.leaf ELSE Name[m]

\* The DLSS-G runtimes: the game's and NGX's by name, and the redirected one.
Runtimes == {m \in Modules : m = Redirected \/ Name[m] = RuntimeName}

\* The leaf of the module's path is compared with the whole of each candidate.
FileNameEquals(name, candidate) == candidate.dir = "" /\ candidate.leaf = name

CallerIsSpoofed(m) ==
    \/ SpoofCallers = {}
    \/ m # NoModule /\ \E c \in SpoofCallers : FileNameEquals(ComponentFileName(m), c)

Caller(t) == query[t][1]
Adapter(t) == query[t][2]

GoOn(t, from, to) == at[t] = from /\ at' = [at EXCEPT ![t] = to]

Reply(t, architecture) ==
    /\ answers' = answers \cup {<<Caller(t), Adapter(t), architecture>>}
    /\ query' = [query EXCEPT ![t] = NoQuery]

-----------------------------------------------------------------------------
\* The original call has answered.
GetArchInfo(t) ==
    /\ GoOn(t, "idle", "answer")
    /\ \E m \in Callers, g \in Adapters :
         /\ m = Redirected => config.redirect_runtime
         /\ query' = [query EXCEPT ![t] = <<m, g>>]
    /\ UNCHANGED <<config, real_architecture, activation, answers, ran>>

Enabled(t) == IsSupported(Arch[Adapter(t)])

\* A mutant of AfterTest: only the query that changed g_real_architecture activates.
ActivateOnChange(t) == IF real_architecture = Arch[Adapter(t)] THEN "caller" ELSE "arch"
\* Every answer about an Ampere GPU goes through kernels::Activate.
AfterTest(t) == "arch"

\* Answer, up to the test for a supported architecture.
Answer(t) ==
    /\ at[t] = "answer"
    /\ real_architecture' = Arch[Adapter(t)]
    /\ \/ /\ ~Enabled(t)
          /\ GoOn(t, "answer", "idle") /\ Reply(t, Arch[Adapter(t)])
       \/ /\ Enabled(t)
          /\ GoOn(t, "answer", AfterTest(t)) /\ UNCHANGED <<answers, query>>
    /\ UNCHANGED <<config, activation, ran>>

\* kernels::Activate: three stores.
ActivateArch(t) ==
    /\ GoOn(t, "arch", "impl")
    /\ fallback_arch' = Arch[Adapter(t)]
    /\ UNCHANGED <<config, real_architecture, fallback_impl, active, query, answers, ran>>

ActivateImpl(t) ==
    /\ GoOn(t, "impl", "flag")
    /\ fallback_impl' = Impl[Adapter(t)]
    /\ UNCHANGED <<config, real_architecture, fallback_arch, active, query, answers, ran>>

ActivateFlag(t) ==
    /\ GoOn(t, "flag", "caller")
    /\ active' = TRUE
    /\ UNCHANGED <<config, real_architecture, fallback_arch, fallback_impl, query, answers, ran>>

TellCaller(t) ==
    /\ GoOn(t, "caller", "idle")
    /\ Reply(t, IF CallerIsSpoofed(Caller(t)) /\ config.spoof_arch_to_game
                THEN "Ada" ELSE Arch[Adapter(t)])
    /\ UNCHANGED <<config, real_architecture, activation, ran>>

\* m has been told that an Ampere GPU is Ada, and so takes the Ada path.
ToldAda(m) == \E g \in Adapters : IsSupported(Arch[g]) /\ <<m, g, "Ada">> \in answers

\* A mutant of ScgPriorityStubbed: the architecture reported is tested, not the real one.
StubbedOnAda ==
    config.spoof_arch_to_game /\ config.stub_scg_priority /\ real_architecture = "Ada"

ScgPriorityStubbed ==
    config.spoof_arch_to_game /\ config.stub_scg_priority /\ IsSupported(real_architecture)

\* HookedSetRawScgPriority, called by a module on its Ada path for a device of
\* that Ampere GPU.
SetRawScgPriority(m) ==
    /\ ToldAda(m)
    /\ ran' = IF ScgPriorityStubbed THEN ran ELSE ran \cup {m}
    /\ UNCHANGED <<config, real_architecture, activation, query, at, answers>>

-----------------------------------------------------------------------------
HookedGetArchInfo(t) ==
    \/ GetArchInfo(t) \/ Answer(t)
    \/ ActivateArch(t) \/ ActivateImpl(t) \/ ActivateFlag(t)
    \/ TellCaller(t)

SpoofNext ==
    \/ \E t \in Threads : HookedGetArchInfo(t)
    \/ \E m \in Callers : SetRawScgPriority(m)

SpoofSpec == SpoofInit /\ [][SpoofNext]_spoofVars
-----------------------------------------------------------------------------
\* Types of the variables.
SpoofTypeOK ==
    /\ config \in Configurations
    /\ real_architecture \in Architectures \cup {NoArch}
    /\ fallback_arch \in Architectures \cup {NoArch}
    /\ fallback_impl \in Nat
    /\ active \in BOOLEAN
    /\ query \in [Threads -> (Callers \X Adapters) \cup {NoQuery}]
    /\ at \in [Threads -> Steps]
    /\ answers \subseteq Callers \X Adapters \X Architectures
    /\ ran \subseteq Callers

\* An adapter that is not Ampere is reported as it is, whatever other threads
\* are asking about other adapters at the time (nvapi.cpp, Answer).
NativeAnswersTrue ==
    \A m \in Callers, g \in Adapters, a \in Architectures :
        <<m, g, a>> \in answers /\ ~IsSupported(Arch[g]) => a = Arch[g]

\* Nobody is told Ada about an Ampere GPU before kernel substitution is active,
\* and it is not active before the fallback for its target architecture is known.
ActiveBeforeTold ==
    /\ (\E m \in Callers : ToldAda(m)) => active
    /\ active => IsSupported(fallback_arch)

\* A frame-generation runtime is never told the truth about an Ampere GPU while
\* the spoof is on and the list names the runtime: it would create no kernels.
\* The redirected one stands in for it (runtime.cpp:65-67).
RuntimesToldAda ==
    /\ config.spoof_arch_to_game
    /\ [dir |-> "", leaf |-> RuntimeName] \in config.spoof_callers
    => \A m \in Runtimes, g \in Adapters : <<m, g, "Ampere">> \notin answers

\* An adapter that is not Ampere has been asked about.
OtherGpuQueried ==
    \E m \in Callers, g \in Adapters : ~IsSupported(Arch[g]) /\ <<m, g, Arch[g]>> \in answers

\* NvAPI_D3D12_SetRawScgPriority, which removes the device on an older GPU, is not run
\* for a module that was told Ada (docs/ARCHITECTURE.md:82), except on a machine with
\* a second kind of GPU and after a query about that one: g_real_architecture is the
\* architecture of whichever adapter was asked about last.
AdaCallStubbed == config.stub_scg_priority /\ ran # {} => OtherGpuQueried
=============================================================================
