------------------------------- MODULE NvapiProofs -------------------------------
(* Proofs about the NVAPI spoof, for any modules, GPUs, threads and settings: ArchSpoof,    *)
(* where the hooks are in place, and NvapiInstall, where they are being put there, for any  *)
(* interfaces and attempts.                                                                 *)
EXTENDS NvapiInstall, TLAPS

\* A thread in the hook asks about something, and about an Ampere GPU once it is
\* past the test; what its earlier steps have switched on is still on.
CallsMove ==
    \A t \in Threads :
        /\ at[t] # "idle" => query[t] \in Callers \X Adapters
        /\ at[t] \in {"arch", "impl", "flag", "caller"} => IsSupported(Arch[Adapter(t)])
        /\ at[t] \in {"impl", "flag", "caller"} => IsSupported(fallback_arch)
        /\ at[t] = "caller" => active

SpoofInv == SpoofTypeOK /\ CallsMove /\ NativeAnswersTrue /\ ActiveBeforeTold

USE SpoofAssumption

LEMMA SpoofTyped == SpoofTypeOK /\ CallsMove /\ [SpoofNext]_spoofVars => SpoofTypeOK'
<1> SUFFICES ASSUME SpoofTypeOK, CallsMove, [SpoofNext]_spoofVars PROVE SpoofTypeOK'
  OBVIOUS
<1> USE DEF SpoofTypeOK, CallsMove, GoOn, Reply, Caller, Adapter, activation, Steps, Callers,
            IsSupported, Architectures
<1>1. ASSUME NEW t \in Threads, GetArchInfo(t) PROVE SpoofTypeOK'
  BY <1>1 DEF GetArchInfo
<1>2. ASSUME NEW t \in Threads, Answer(t) PROVE SpoofTypeOK'
  BY <1>2 DEF Answer, Enabled, AfterTest
<1>3. ASSUME NEW t \in Threads, ActivateArch(t) PROVE SpoofTypeOK'
  BY <1>3 DEF ActivateArch
<1>4. ASSUME NEW t \in Threads, ActivateImpl(t) PROVE SpoofTypeOK'
  BY <1>4 DEF ActivateImpl
<1>5. ASSUME NEW t \in Threads, ActivateFlag(t) PROVE SpoofTypeOK'
  BY <1>5 DEF ActivateFlag
<1>6. ASSUME NEW t \in Threads, TellCaller(t) PROVE SpoofTypeOK'
  BY <1>6 DEF TellCaller
<1>7. ASSUME NEW m \in Callers, SetRawScgPriority(m) PROVE SpoofTypeOK'
  BY <1>7 DEF SetRawScgPriority
<1>8. CASE UNCHANGED spoofVars
  BY <1>8 DEF spoofVars
<1>9. QED
  BY <1>1, <1>2, <1>3, <1>4, <1>5, <1>6, <1>7, <1>8 DEF SpoofNext, HookedGetArchInfo

LEMMA CallsMoveOn == SpoofTypeOK /\ CallsMove /\ [SpoofNext]_spoofVars => CallsMove'
<1> SUFFICES ASSUME SpoofTypeOK, CallsMove, [SpoofNext]_spoofVars PROVE CallsMove'
  OBVIOUS
<1> USE DEF SpoofTypeOK, CallsMove, GoOn, Reply, Caller, Adapter, activation, Steps, Callers,
            IsSupported
<1>1. ASSUME NEW t \in Threads, GetArchInfo(t) PROVE CallsMove'
  BY <1>1 DEF GetArchInfo
<1>2. ASSUME NEW t \in Threads, Answer(t) PROVE CallsMove'
  BY <1>2 DEF Answer, Enabled, AfterTest
<1>3. ASSUME NEW t \in Threads, ActivateArch(t) PROVE CallsMove'
  BY <1>3 DEF ActivateArch
<1>4. ASSUME NEW t \in Threads, ActivateImpl(t) PROVE CallsMove'
  BY <1>4 DEF ActivateImpl
<1>5. ASSUME NEW t \in Threads, ActivateFlag(t) PROVE CallsMove'
  BY <1>5 DEF ActivateFlag
<1>6. ASSUME NEW t \in Threads, TellCaller(t) PROVE CallsMove'
  BY <1>6 DEF TellCaller
<1>7. ASSUME NEW m \in Callers, SetRawScgPriority(m) PROVE CallsMove'
  BY <1>7 DEF SetRawScgPriority
<1>8. CASE UNCHANGED spoofVars
  BY <1>8 DEF spoofVars
<1>9. QED
  BY <1>1, <1>2, <1>3, <1>4, <1>5, <1>6, <1>7, <1>8 DEF SpoofNext, HookedGetArchInfo

LEMMA NativeAnswersStay ==
    SpoofTypeOK /\ CallsMove /\ NativeAnswersTrue /\ [SpoofNext]_spoofVars => NativeAnswersTrue'
<1> SUFFICES ASSUME SpoofTypeOK, CallsMove, NativeAnswersTrue, [SpoofNext]_spoofVars
             PROVE  NativeAnswersTrue'
  OBVIOUS
<1> USE DEF SpoofTypeOK, CallsMove, NativeAnswersTrue, GoOn, Reply, Caller, Adapter, IsSupported
<1>1. ASSUME NEW t \in Threads, Answer(t) PROVE NativeAnswersTrue'
  BY <1>1 DEF Answer, Enabled, AfterTest
<1>2. ASSUME NEW t \in Threads, TellCaller(t) PROVE NativeAnswersTrue'
  BY <1>2 DEF TellCaller
<1>3. CASE UNCHANGED answers
  BY <1>3
<1>4. QED
  BY <1>1, <1>2, <1>3 DEF SpoofNext, HookedGetArchInfo, GetArchInfo, ActivateArch, ActivateImpl,
     ActivateFlag, SetRawScgPriority, spoofVars

LEMMA ActiveStays ==
    SpoofTypeOK /\ CallsMove /\ ActiveBeforeTold /\ [SpoofNext]_spoofVars => ActiveBeforeTold'
<1> SUFFICES ASSUME SpoofTypeOK, CallsMove, ActiveBeforeTold, [SpoofNext]_spoofVars
             PROVE  ActiveBeforeTold'
  OBVIOUS
<1> USE DEF SpoofTypeOK, CallsMove, ActiveBeforeTold, ToldAda, GoOn, Reply, Caller, Adapter,
            IsSupported, activation
<1>1. ASSUME NEW t \in Threads, GetArchInfo(t) PROVE ActiveBeforeTold'
  BY <1>1 DEF GetArchInfo
<1>2. ASSUME NEW t \in Threads, Answer(t) PROVE ActiveBeforeTold'
  <2>1. CASE IsSupported(Arch[Adapter(t)])
    BY <1>2, <2>1 DEF Answer, Enabled, AfterTest
  <2>2. CASE ~IsSupported(Arch[Adapter(t)])
    <3>1. \A m \in Callers : ToldAda(m)' => ToldAda(m)
      <4> SUFFICES ASSUME NEW m \in Callers, NEW g \in Adapters, IsSupported(Arch[g]),
                          <<m, g, "Ada">> \in answers'
                   PROVE  <<m, g, "Ada">> \in answers
        BY DEF ToldAda
      <4>1. answers' = answers \cup {<<query[t][1], query[t][2], Arch[query[t][2]]>>}
        BY <1>2, <2>2 DEF Answer, Enabled, AfterTest
      <4>2. <<m, g, "Ada">> # <<query[t][1], query[t][2], Arch[query[t][2]]>>
        BY <2>2
      <4>3. QED
        BY <4>1, <4>2
    <3>2. UNCHANGED <<active, fallback_arch>>
      BY <1>2 DEF Answer, Enabled, AfterTest
    <3>3. QED
      BY <3>1, <3>2
  <2>3. QED
    BY <2>1, <2>2
<1>3. ASSUME NEW t \in Threads, ActivateArch(t) PROVE ActiveBeforeTold'
  BY <1>3 DEF ActivateArch
<1>4. ASSUME NEW t \in Threads, ActivateImpl(t) PROVE ActiveBeforeTold'
  BY <1>4 DEF ActivateImpl
<1>5. ASSUME NEW t \in Threads, ActivateFlag(t) PROVE ActiveBeforeTold'
  BY <1>5 DEF ActivateFlag
<1>6. ASSUME NEW t \in Threads, TellCaller(t) PROVE ActiveBeforeTold'
  BY <1>6 DEF TellCaller
<1>7. ASSUME NEW m \in Callers, SetRawScgPriority(m) PROVE ActiveBeforeTold'
  BY <1>7 DEF SetRawScgPriority
<1>8. CASE UNCHANGED spoofVars
  BY <1>8 DEF spoofVars
<1>9. QED
  BY <1>1, <1>2, <1>3, <1>4, <1>5, <1>6, <1>7, <1>8 DEF SpoofNext, HookedGetArchInfo

\* What modules that compose ArchSpoof with more cite.
LEMMA SpoofInvStarts == SpoofInit => SpoofInv
<1> SUFFICES ASSUME SpoofInit PROVE SpoofInv
  OBVIOUS
<1>1. active \in BOOLEAN
  BY Zenon DEF SpoofInit
<1>2. SpoofTypeOK
  BY <1>1 DEF SpoofInit, SpoofTypeOK, NoQuery, Steps
<1>3. CallsMove
  BY DEF SpoofInit, CallsMove
<1>4. NativeAnswersTrue /\ ActiveBeforeTold
  BY DEF SpoofInit, NativeAnswersTrue, ActiveBeforeTold, ToldAda
<1>5. QED
  BY <1>2, <1>3, <1>4 DEF SpoofInv

LEMMA SpoofInvHolds == SpoofInv /\ [SpoofNext]_spoofVars => SpoofInv'
BY SpoofTyped, CallsMoveOn, NativeAnswersStay, ActiveStays DEF SpoofInv

\* The inductive invariant of the spoof.
THEOREM SpoofInvariant == SpoofSpec => []SpoofInv
BY SpoofInvStarts, SpoofInvHolds, PTL DEF SpoofSpec

\* An adapter that is not Ampere is reported as it is to every caller, with any
\* number of threads and adapters.
THEOREM NativeAnswersTrueAlways == SpoofSpec => []NativeAnswersTrue
<1>1. SpoofInv => NativeAnswersTrue
  BY DEF SpoofInv
<1>2. QED
  BY <1>1, SpoofInvariant, PTL

\* Substitution is active, and has a fallback for its target, before anybody is
\* told Ada about an Ampere GPU.
THEOREM ActiveBeforeToldAlways == SpoofSpec => []ActiveBeforeTold
<1>1. SpoofInv => ActiveBeforeTold
  BY DEF SpoofInv
<1>2. QED
  BY <1>1, SpoofInvariant, PTL
-----------------------------------------------------------------------------
\* RuntimeFile names a file beside the engine, without a directory.
PlainRuntimeFile == \A c \in Configurations : c.runtime_file.dir = ""

\* Every frame-generation runtime, by whatever name, is told Ada when the list
\* names the runtime, if RuntimeFile is a plain file name.
THEOREM RuntimesToldAdaAlways == ASSUME PlainRuntimeFile PROVE SpoofSpec => []RuntimesToldAda
<1> DEFINE Inv == SpoofInv /\ RuntimesToldAda
<1> DEFINE Redirects ==
             \A t \in Threads : at[t] # "idle" /\ Caller(t) = Redirected => config.redirect_runtime
<1>1. SpoofInit => Inv /\ Redirects
  BY SpoofInvStarts DEF SpoofInit, RuntimesToldAda
<1>2. Inv /\ Redirects /\ [SpoofNext]_spoofVars => Redirects'
  <2> SUFFICES ASSUME Inv, Redirects, [SpoofNext]_spoofVars PROVE Redirects'
    OBVIOUS
  <2> USE DEF SpoofInv, SpoofTypeOK, CallsMove, GoOn, Reply, Caller, Adapter, activation
  <2>1. ASSUME NEW t \in Threads, HookedGetArchInfo(t) PROVE Redirects'
    BY <2>1 DEF HookedGetArchInfo, GetArchInfo, Answer, ActivateArch, ActivateImpl,
       ActivateFlag, TellCaller
  <2>2. CASE UNCHANGED <<config, at, query>>
    BY <2>2
  <2>3. QED
    BY <2>1, <2>2 DEF SpoofNext, SetRawScgPriority, spoofVars
<1>3. Inv /\ Redirects /\ [SpoofNext]_spoofVars => RuntimesToldAda'
  <2> SUFFICES ASSUME Inv, Redirects, [SpoofNext]_spoofVars PROVE RuntimesToldAda'
    OBVIOUS
  <2> USE DEF SpoofInv, SpoofTypeOK, CallsMove, GoOn, Reply, Caller, Adapter, IsSupported,
              RuntimesToldAda
  <2>1. ASSUME NEW t \in Threads, Answer(t) PROVE RuntimesToldAda'
    <3>1. \A m \in Callers, g \in Adapters :
            <<m, g, "Ampere">> \in answers' => <<m, g, "Ampere">> \in answers
      <4> SUFFICES ASSUME NEW m \in Callers, NEW g \in Adapters, ~IsSupported(Arch[Adapter(t)]),
                          answers' = answers \cup {<<Caller(t), Adapter(t), Arch[Adapter(t)]>>}
                   PROVE  <<m, g, "Ampere">> \in answers' => <<m, g, "Ampere">> \in answers
        BY <2>1 DEF Answer, Enabled, AfterTest
      <4>1. <<m, g, "Ampere">> # <<Caller(t), Adapter(t), Arch[Adapter(t)]>>
        OBVIOUS
      <4>2. QED
        BY <4>1
    <3>2. config' = config
      BY <2>1 DEF Answer, Enabled, AfterTest
    <3>3. QED
      BY <3>1, <3>2 DEF Runtimes, Callers
  <2>2. ASSUME NEW t \in Threads, TellCaller(t) PROVE RuntimesToldAda'
    <3> SUFFICES ASSUME config.spoof_arch_to_game, Caller(t) \in Runtimes,
                        [dir |-> "", leaf |-> RuntimeName] \in config.spoof_callers
                 PROVE  CallerIsSpoofed(Caller(t))
      BY <2>2 DEF TellCaller
    <3>1. CASE Caller(t) = Redirected
      <4>1. config.runtime_file \in SpoofCallers
        BY <2>2, <3>1 DEF TellCaller, SpoofCallers
      <4>2. FileNameEquals(ComponentFileName(Redirected), config.runtime_file)
        BY PlainRuntimeFile DEF FileNameEquals, ComponentFileName, PlainRuntimeFile
      <4>3. QED
        BY <3>1, <4>1, <4>2 DEF CallerIsSpoofed
    <3>2. CASE Name[Caller(t)] = RuntimeName /\ Caller(t) # Redirected
      <4>1. FileNameEquals(ComponentFileName(Caller(t)), [dir |-> "", leaf |-> RuntimeName])
        BY <3>2 DEF FileNameEquals, ComponentFileName
      <4>2. QED
        BY <4>1 DEF CallerIsSpoofed, SpoofCallers, Runtimes
    <3>3. QED
      BY <3>1, <3>2 DEF Runtimes
  <2>3. CASE UNCHANGED <<answers, config>>
    BY <2>3
  <2>4. QED
    BY <2>1, <2>2, <2>3 DEF SpoofNext, HookedGetArchInfo, GetArchInfo, ActivateArch,
       ActivateImpl, ActivateFlag, SetRawScgPriority, spoofVars
<1>4. Inv => RuntimesToldAda
  OBVIOUS
<1>5. QED
  BY <1>1, <1>2, <1>3, <1>4, SpoofInvHolds, PTL DEF SpoofSpec
-----------------------------------------------------------------------------
\* Once somebody has been told Ada, the shared architecture is Ampere, or it has been
\* overwritten by a query about another kind of GPU.
LastIsAmpere == IsSupported(real_architecture) \/ OtherGpuQueried

ArchitectureRead ==
    /\ \A t \in Threads : at[t] \in {"arch", "impl", "flag", "caller"} => LastIsAmpere
    /\ (\E m \in Callers : ToldAda(m)) => LastIsAmpere /\ config.spoof_arch_to_game

\* Answers are never taken back.
LEMMA QueriedStays ==
    [SpoofNext]_spoofVars => answers \subseteq answers' /\ (OtherGpuQueried => OtherGpuQueried')
BY DEF SpoofNext, HookedGetArchInfo, GetArchInfo, Answer, ActivateArch, ActivateImpl, ActivateFlag,
       TellCaller, SetRawScgPriority, Reply, OtherGpuQueried, spoofVars

LEMMA ArchitectureStaysRead ==
    SpoofInv /\ ArchitectureRead /\ [SpoofNext]_spoofVars => ArchitectureRead'
<1> SUFFICES ASSUME SpoofInv, ArchitectureRead, [SpoofNext]_spoofVars PROVE ArchitectureRead'
  OBVIOUS
<1>q. OtherGpuQueried => OtherGpuQueried'
  BY QueriedStays
<1> USE <1>q DEF SpoofInv, SpoofTypeOK, CallsMove, ArchitectureRead, LastIsAmpere, ToldAda, GoOn,
                 Reply, Caller, Adapter, IsSupported, activation
<1>1. ASSUME NEW t \in Threads, GetArchInfo(t) PROVE ArchitectureRead'
  BY <1>1 DEF GetArchInfo
<1>2. ASSUME NEW t \in Threads, Answer(t) PROVE ArchitectureRead'
  <2>1. CASE Enabled(t)
    BY <1>2, <2>1 DEF Answer, Enabled, AfterTest
  <2>2. CASE ~Enabled(t)
    <3>1. <<Caller(t), Adapter(t), Arch[Adapter(t)]>> \in answers' /\ Caller(t) \in Callers
          /\ Adapter(t) \in Adapters
      BY <1>2, <2>2 DEF Answer, Enabled
    <3>2. OtherGpuQueried'
      BY <3>1, <2>2 DEF OtherGpuQueried, Enabled
    <3>3. config' = config /\ \A m \in Callers : ToldAda(m)' => ToldAda(m)
      BY <1>2, <2>2 DEF Answer, Enabled
    <3>4. QED
      BY <3>2, <3>3
  <2>3. QED
    BY <2>1, <2>2
<1>3. ASSUME NEW t \in Threads, ActivateArch(t) PROVE ArchitectureRead'
  BY <1>3 DEF ActivateArch
<1>4. ASSUME NEW t \in Threads, ActivateImpl(t) PROVE ArchitectureRead'
  BY <1>4 DEF ActivateImpl
<1>5. ASSUME NEW t \in Threads, ActivateFlag(t) PROVE ArchitectureRead'
  BY <1>5 DEF ActivateFlag
<1>6. ASSUME NEW t \in Threads, TellCaller(t) PROVE ArchitectureRead'
  BY <1>6 DEF TellCaller
<1>7. ASSUME NEW m \in Callers, SetRawScgPriority(m) PROVE ArchitectureRead'
  BY <1>7 DEF SetRawScgPriority
<1>8. CASE UNCHANGED spoofVars
  BY <1>8 DEF spoofVars
<1>9. QED
  BY <1>1, <1>2, <1>3, <1>4, <1>5, <1>6, <1>7, <1>8 DEF SpoofNext, HookedGetArchInfo

\* Whatever the machine, the call that removes the device on an Ampere GPU is only run
\* for a module told Ada after another kind of GPU has been asked about.
THEOREM AdaCallStubbedAlways == SpoofSpec => []AdaCallStubbed
<1> DEFINE Inv == SpoofInv /\ ArchitectureRead /\ AdaCallStubbed
<1>1. SpoofInit => Inv
  BY SpoofInvStarts DEF SpoofInit, ArchitectureRead, ToldAda, AdaCallStubbed
<1>2. Inv /\ [SpoofNext]_spoofVars => Inv'
  <2> SUFFICES ASSUME Inv, [SpoofNext]_spoofVars PROVE AdaCallStubbed'
    BY SpoofInvHolds, ArchitectureStaysRead
  <2>1. OtherGpuQueried => OtherGpuQueried'
    BY QueriedStays
  <2>2. ASSUME NEW m \in Callers, SetRawScgPriority(m) PROVE AdaCallStubbed'
    BY <2>1, <2>2 DEF SetRawScgPriority, ScgPriorityStubbed, ArchitectureRead, LastIsAmpere,
       AdaCallStubbed
  <2>3. CASE UNCHANGED <<config, ran>>
    BY <2>1, <2>3 DEF AdaCallStubbed
  <2>4. QED
    BY <2>2, <2>3 DEF SpoofNext, HookedGetArchInfo, GetArchInfo, Answer, ActivateArch,
       ActivateImpl, ActivateFlag, TellCaller, spoofVars
<1>3. Inv => AdaCallStubbed
  OBVIOUS
<1>4. QED
  BY <1>1, <1>2, <1>3, PTL DEF SpoofSpec

\* On a machine whose adapters are all Ampere it is never run.
AllAmpere == \A g \in Adapters : IsSupported(Arch[g])

THEOREM AdaCallNeverRunsAlways ==
    ASSUME AllAmpere PROVE SpoofSpec => [](config.stub_scg_priority => ran = {})
<1>1. AdaCallStubbed => (config.stub_scg_priority => ran = {})
  BY AllAmpere DEF AdaCallStubbed, OtherGpuQueried, AllAmpere
<1>2. QED
  BY <1>1, AdaCallStubbedAlways, PTL

-----------------------------------------------------------------------------
(* NvapiInstall: what ArchSpoof promises while the hooks are in place holds while they are  *)
(* being put there, and what an installation that fails in part leaves open.                *)

USE InstallAssumption

LEMMA ArchInfoIsFirst == ArchInfo \in Which /\ ScgPriority \in Which /\ Which = 1..Len(Interfaces)
                         /\ Len(Interfaces) \in Nat /\ Len(Interfaces) > 1
BY DEF ArchInfo, Which

-----------------------------------------------------------------------------
(* The composition behaves as ArchSpoof does: no step of the installation touches what     *)
(* the hooks share, and the hooked calls are ArchSpoof's.                                  *)

LEMMA StepsAreSpoofSteps == [InstallNext]_allVars => [SpoofNext]_spoofVars
<1> SUFFICES ASSUME [InstallNext]_allVars PROVE [SpoofNext]_spoofVars
  OBVIOUS
<1>1. ASSUME InstallStep PROVE UNCHANGED spoofVars
  BY <1>1 DEF InstallStep, MapNvapi, Inspect, CreateHook, PublishOriginal, EnableHook, HookFails,
              CountAttempt, Rescan
<1>2. ASSUME GameMapsNvapi PROVE UNCHANGED spoofVars
  BY <1>2 DEF GameMapsNvapi
<1>3. ASSUME NEW t \in Threads, Query(t) PROVE SpoofNext
  BY <1>3 DEF Query, SpoofNext
<1>4. ASSUME NEW m \in Callers, SetPriority(m) PROVE SpoofNext
  BY <1>4 DEF SetPriority, SpoofNext
<1>5. CASE UNCHANGED allVars
  BY <1>5 DEF allVars
<1>6. QED
  BY <1>1, <1>2, <1>3, <1>4, <1>5 DEF InstallNext

\* Hooking NVAPI step by step, with failures and retries, implements what ArchSpoof says of
\* hooks that are in place: every behaviour of the one is one of the other.
THEOREM InstallImplementsSpoof == InstallSpec => SpoofSpec
<1>1. InstallInit => SpoofInit
  BY DEF InstallInit
<1>2. QED
  BY <1>1, StepsAreSpoofSteps, PTL DEF InstallSpec, SpoofSpec

\* Nobody is told Ada before substitution is active, also while hooks are being installed.
THEOREM ActiveBeforeToldWhileInstalling == InstallSpec => []ActiveBeforeTold
BY InstallImplementsSpoof, ActiveBeforeToldAlways, PTL

-----------------------------------------------------------------------------
(* What the installation has reached. *)

Installation ==
    /\ nvapi \in {"absent", "start", "later"}
    /\ hook \in [Which -> HookStages]
    /\ failed \subseteq Which
    /\ install_state \in {"idle", "installing", "installed"}
    /\ attempts \in Nat /\ failures \in Nat
    /\ stage \in Stages
    /\ current \in Which

\* The one actor at work holds the claim, and gives it back before it counts an attempt.
ClaimHeld ==
    /\ stage = "hook" <=> install_state = "installing"
    /\ stage = "failed" => install_state = "idle"
    /\ stage = "hook" => attempts < kNvapiAttempts
    /\ stage = "failed" => attempts < kNvapiAttempts /\ failures = attempts + 1

\* Whoever has asked, or is asking, did so through the architecture hook, which stays.
HookedFirst ==
    /\ install_state = "idle" \/ (stage = "hook" /\ current = ArchInfo) <=> hook[ArchInfo] # "enabled"
    /\ answers # {} \/ (\E t \in Threads : at[t] # "idle") => hook[ArchInfo] = "enabled"

\* The interfaces before the one at work are hooked or have failed; in the end all are.
DealtWith ==
    /\ stage = "hook" => \A i \in Which : i < current => hook[i] = "enabled" \/ i \in failed
    /\ install_state = "installed" => \A i \in Which : hook[i] = "enabled" \/ i \in failed

InstallInv ==
    Installation /\ ClaimHeld /\ HookedFirst /\ DealtWith /\ AttemptsAreFailures
    /\ StartLeavesArchHooked

LEMMA InstallInvStarts == InstallInit => InstallInv
BY ArchInfoIsFirst DEF InstallInit, SpoofInit, InstallInv, Installation, ClaimHeld, HookedFirst,
       DealtWith, AttemptsAreFailures, StartLeavesArchHooked, HookStages, Stages

LEMMA InstallInvHolds == InstallInv /\ [InstallNext]_allVars => InstallInv'
<1> SUFFICES ASSUME InstallInv, [InstallNext]_allVars PROVE InstallInv'
  OBVIOUS
<1> USE ArchInfoIsFirst
<1> USE DEF InstallInv, Installation, ClaimHeld, HookedFirst, DealtWith, AttemptsAreFailures,
            StartLeavesArchHooked, HookStages, Stages, Proceed, Hook, ArchInfo
<1>1. ASSUME MapNvapi PROVE InstallInv'
  BY <1>1 DEF MapNvapi, AfterMap, spoofVars
<1>2. ASSUME GameMapsNvapi PROVE InstallInv'
  BY <1>2 DEF GameMapsNvapi, spoofVars
<1>3. ASSUME Inspect PROVE InstallInv'
  BY <1>3 DEF Inspect, AfterInspect, Claims, Tries, spoofVars
<1>4. ASSUME CreateHook PROVE InstallInv'
  BY <1>4 DEF CreateHook, spoofVars
<1>5. ASSUME PublishOriginal PROVE InstallInv'
  BY <1>5 DEF PublishOriginal, spoofVars
<1>6. ASSUME EnableHook PROVE InstallInv'
  BY <1>6 DEF EnableHook, NextInterface, StateAfter, spoofVars
<1>7. ASSUME HookFails PROVE InstallInv'
  BY <1>7 DEF HookFails, NextInterface, StateAfter, Released, spoofVars
<1>8. ASSUME CountAttempt PROVE InstallInv'
  BY <1>8 DEF CountAttempt, spoofVars
<1>9. ASSUME Rescan PROVE InstallInv'
  BY <1>9 DEF Rescan, spoofVars
<1>10. ASSUME NEW t \in Threads, Query(t) PROVE InstallInv'
  BY <1>10 DEF Query, installVars
<1>11. ASSUME NEW m \in Callers, SetPriority(m) PROVE InstallInv'
  BY <1>11 DEF SetPriority, SetRawScgPriority, installVars
<1>12. CASE UNCHANGED allVars
  BY <1>12 DEF allVars, spoofVars, installVars
<1>13. QED
  BY <1>1, <1>2, <1>3, <1>4, <1>5, <1>6, <1>7, <1>8, <1>9, <1>10, <1>11, <1>12
  DEF InstallNext, InstallStep

\* The claim, the attempts and the hooks stay in step, for any number of interfaces.
THEOREM InstallInvariant == InstallSpec => []InstallInv
BY InstallInvStarts, InstallInvHolds, PTL DEF InstallSpec

\* Once a module can be told Ada, an interface without its hook is one whose own hook
\* failed, or whose turn is still to come.
THEOREM OnlyBrokenBypassedAlways == InstallSpec => []OnlyBrokenBypassed
<1>1. InstallInv => OnlyBrokenBypassed
  BY ArchInfoIsFirst DEF InstallInv, HookedFirst, DealtWith, Installation, OnlyBrokenBypassed, ToldAda
<1>2. QED
  BY <1>1, InstallInvariant, PTL

\* Only an architecture hook that failed uses up an attempt.
THEOREM AttemptsAreFailuresAlways == InstallSpec => []AttemptsAreFailures
BY InstallInvariant, PTL DEF InstallInv

\* Start ends with the architecture hooked, if NVAPI was there and could be hooked.
THEOREM StartLeavesArchHookedAlways == InstallSpec => []StartLeavesArchHooked
BY InstallInvariant, PTL DEF InstallInv
=============================================================================
