---------------------------- MODULE KernelCreation ----------------------------
(***************************************************************************)
(* What the driver receives when a DLSS-G runtime creates a kernel         *)
(* (src/src/kernels/substitute.cpp, provider_index.cpp, and the hooks that *)
(* call them in spoof/nvapi.cpp and kernels/vulkan_route.cpp).  A runtime  *)
(* creates kernels once ArchSpoof has told it Ada, on any thread; the      *)
(* worker meanwhile resolves the target architecture and indexes the       *)
(* runtimes, in its own time.  Every lookup in an index takes its lock by  *)
(* itself, so a decision on a bare cubin is several steps.                 *)
(*                                                                         *)
(* The three routes differ only in how the image is handed over.           *)
(***************************************************************************)
EXTENDS ArchSpoof, Fatbin

CONSTANTS Blobs,        \* images a runtime hands over, and containers inside runtimes
          Shape,        \* what each of them holds
          NoBlob,       \* a cubin found in no container
          DeviceSm,     \* the compute capability of the first CUDA device
          NoTarget      \* the target architecture has not been resolved

\* A shape: `kind` is what the blob is recognised as, `arch` that of a cubin or
\* of PTX text, `images` those of a container.  `maker` is the runtime that hands
\* it over.  For a bare cubin and each runtime p, `twins[p]` are the architectures
\* p holds the same kernel for, `container[p]` the container of p it came from.
Kinds == {"cubin", "container", "text", "other"}

ASSUME KernelAssumption ==
    /\ NoBlob \notin Blobs
    /\ \A b \in Blobs : Shape[b].kind \in Kinds
    /\ DeviceSm \in Nat
    /\ NoTarget \notin Nat
    /\ \A c \in Configurations : c.target_sm \in Nat

VARIABLES target,   \* g_target_sm, once call_once has run
          indexed,  \* the runtimes in g_indexes
          step,     \* where each thread is in a creation
          call,     \* the creation each thread is in
          offer     \* what the call is about to hand the driver, or would have

kernelVars == <<target, indexed, step, call, offer>>
vars == <<spoofVars, kernelVars>>

NoCall == [blob |-> NoBlob]
NoOffer == [decision |-> "None", images |-> {}, source |-> 0, from |-> NoModule]

Init ==
    /\ SpoofInit
    /\ target = NoTarget
    /\ indexed = {}
    /\ step = [t \in Threads |-> "idle"]
    /\ call = [t \in Threads |-> NoCall]
    /\ offer = [t \in Threads |-> NoOffer]

-----------------------------------------------------------------------------
Advance(t, from, to) == step[t] = from /\ step' = [step EXCEPT ![t] = to]
Blob(t) == Shape[call[t].blob]

\* The images the driver finds in what it is given.
ImagesOf(b) ==
    CASE b.kind = "cubin" -> {[ptx |-> FALSE, arch |-> b.arch]}
      [] b.kind = "text" -> {[ptx |-> TRUE, arch |-> b.arch]}
      [] b.kind = "container" -> b.images
      [] b.kind = "other" -> {}

Unchanged(t) ==
    [decision |-> "Unchanged", images |-> ImagesOf(Blob(t)), source |-> 0, from |-> NoModule]
Refused == [decision |-> "Refused", images |-> {}, source |-> 0, from |-> NoModule]
Substituted(images, source, from) ==
    [decision |-> "Substituted", images |-> images, source |-> source, from |-> from]

\* Retarget for this call's target and choice.
Retargets(t, images) == CanRetarget(images, call[t].target, call[t].choice)
Retargeted(t, images, from) ==
    Substituted(Retarget(call[t].target), Source(images, call[t].choice).arch, from)

PreferredSource == IF config.multi_frame THEN "Newest" ELSE "Closest"

\* With retargeting off the decision stands and the replacement is withheld.
FirstOffer(verdict) ==
    IF verdict.decision = "Substituted" /\ ~config.retarget_kernels THEN Refused ELSE verdict

LeaveToDriver(first) == TRUE  \* a mutant of HandedOver
HandedOver(first) == first.decision # "Refused"

RetriesAnyway(t, verdict) == verdict.decision = "Substituted"  \* a mutant of Retries
Retries(t, verdict) == verdict.decision = "Substituted" /\ verdict.source # offer[t].source

\* The end of Decide on the first pass, of Fallback on the second.
Conclude(t, from, verdict) ==
    IF call[t].pass = 1
    THEN /\ offer' = [offer EXCEPT ![t] = FirstOffer(verdict)]
         /\ Advance(t, from, IF HandedOver(FirstOffer(verdict)) THEN "driver" ELSE "return")
    ELSE /\ offer' = [offer EXCEPT ![t] = IF Retries(t, verdict) THEN verdict ELSE @]
         /\ Advance(t, from, IF Retries(t, verdict) THEN "driver" ELSE "return")

-----------------------------------------------------------------------------
(* A creation, on a thread of the game. *)

\* A runtime told Ada hands over a blob.  The hook sees the module the call came
\* from, unless another tool's trampoline hides it.
Create(t) ==
    /\ at[t] = "idle"
    /\ Advance(t, "idle", "target")
    /\ \E b \in Blobs : \E caller \in {Shape[b].maker, NoModule} :
         /\ Shape[b].maker \in Runtimes /\ ToldAda(Shape[b].maker)
         /\ call' = [call EXCEPT ![t] =
                        [blob |-> b, caller |-> caller, choice |-> PreferredSource, pass |-> 1,
                         target |-> 0, provider |-> NoModule, rejected |-> NoOffer]]
    /\ UNCHANGED <<spoofVars, target, indexed, offer>>

SmFromNvApiArch(architecture, implementation) ==
    CASE architecture = "Turing" -> 75
      [] architecture = "Ampere" -> IF implementation = 0 THEN 80 ELSE 86
      [] architecture = "Ada" -> 89
      [] OTHER -> 0

\* CUDA says nothing when it is missing or one of the calls into it fails.
DetectDeviceSm == {0, DeviceSm}

\* ResolveTarget under call_once: the setting, else CUDA, else NVAPI.
ResolveTarget ==
    IF target # NoTarget THEN UNCHANGED target
    ELSE \E cuda \in DetectDeviceSm :
            target' = IF config.target_sm # 0 THEN config.target_sm
                      ELSE IF cuda # 0 THEN cuda
                      ELSE SmFromNvApiArch(fallback_arch, fallback_impl)

TargetSm(t) ==
    /\ Advance(t, "target", "decide")
    /\ \/ active /\ ResolveTarget /\ call' = [call EXCEPT ![t].target = target']
       \/ ~active /\ UNCHANGED target /\ call' = [call EXCEPT ![t].target = 0]
    /\ UNCHANGED <<spoofVars, indexed, offer>>

\* A mutant of AnsweringProvider: the only index answers, whoever calls.
OnlyProvider(t) ==
    IF Cardinality(indexed) = 1 THEN CHOOSE p \in indexed : TRUE ELSE call[t].caller

\* AnsweringProvider: the calling module, else the only one there is an index of.
AnsweringProvider(t) ==
    IF call[t].caller # NoModule THEN call[t].caller
    ELSE IF Cardinality(indexed) = 1 THEN CHOOSE p \in indexed : TRUE
    ELSE NoModule

\* DecideFrom, for everything that needs no index.
Passes(t) ==
    \/ call[t].target = 0
    \/ Blob(t).kind = "other"
    \/ AnyRunnable(ImagesOf(Blob(t)), call[t].target)

Verdict(t) ==
    LET b == Blob(t) IN
    IF Passes(t) THEN Unchanged(t)
    ELSE IF b.kind = "text"
         THEN Substituted(Retarget(call[t].target), b.arch, NoModule)
    ELSE IF Retargets(t, b.images) THEN Retargeted(t, b.images, NoModule)
    ELSE Refused

Decide(t) ==
    /\ step[t] = "decide"
    /\ \/ /\ Passes(t) \/ Blob(t).kind # "cubin"
          /\ Conclude(t, "decide", Verdict(t))
          /\ UNCHANGED call
       \/ /\ ~Passes(t) /\ Blob(t).kind = "cubin"
          /\ Advance(t, "decide", "native")
          /\ call' = [call EXCEPT ![t].provider = AnsweringProvider(t)]
          /\ UNCHANGED offer
    /\ UNCHANGED <<spoofVars, target, indexed>>

\* DecideCubin, in the order of its lookups.
HasTwin(t) ==
    LET p == call[t].provider IN p \in indexed /\ call[t].target \in Blob(t).twins[p]

FindNativeCubin(t) ==
    /\ step[t] = "native"
    /\ \/ /\ HasTwin(t)
          /\ Conclude(t, "native", Substituted({[ptx |-> FALSE, arch |-> call[t].target]},
                                               Blob(t).arch, call[t].provider))
       \/ ~HasTwin(t) /\ Advance(t, "native", "container") /\ UNCHANGED offer
    /\ UNCHANGED <<spoofVars, target, indexed, call>>

\* The container of p that the cubin came from, when p is indexed.
Origin(t, p) == IF p \in indexed THEN Blob(t).container[p] ELSE NoBlob

FindContainerForCubin(t) ==
    LET p == call[t].provider
        origin == Origin(t, p)
    IN  /\ step[t] = "container"
        /\ Conclude(t, "container",
                    IF origin # NoBlob /\ Retargets(t, Shape[origin].images)
                    THEN Retargeted(t, Shape[origin].images, p) ELSE Refused)
        /\ UNCHANGED <<spoofVars, target, indexed, call>>

\* CreateSubstituted: the driver answers, and a rejected image built from newer
\* PTX is decided on once more, from the closest.
DriverAccepts(t) ==
    /\ Advance(t, "driver", "return")
    /\ UNCHANGED <<spoofVars, target, indexed, call, offer>>

DriverRejects(t) ==
    LET again == /\ offer[t].decision = "Substituted" /\ call[t].pass = 1
                 /\ PreferredSource # "Closest" /\ offer[t].source # 0
    IN  /\ Advance(t, "driver", IF again THEN "target" ELSE "return")
        /\ call' = IF again THEN [call EXCEPT ![t].pass = 2, ![t].choice = "Closest",
                                              ![t].rejected = offer[t]]
                   ELSE call
        /\ UNCHANGED <<spoofVars, target, indexed, offer>>

\* The hook returns to the runtime.
Return(t) ==
    /\ Advance(t, "return", "idle")
    /\ call' = [call EXCEPT ![t] = NoCall]
    /\ offer' = [offer EXCEPT ![t] = NoOffer]
    /\ UNCHANGED <<spoofVars, target, indexed>>

-----------------------------------------------------------------------------
(* The worker. *)

\* A mutant of WorkerResolves: the worker does not wait for Activate.
WorkerResolvesEarly ==
    /\ target = NoTarget
    /\ ResolveTarget
    /\ UNCHANGED <<spoofVars, indexed, step, call, offer>>

\* TargetSm, once per scan.
WorkerResolves ==
    /\ active /\ target = NoTarget
    /\ ResolveTarget
    /\ UNCHANGED <<spoofVars, indexed, step, call, offer>>

\* The index is built outside the lock and published whole.
BuildProviderIndex ==
    /\ \E p \in Runtimes \ indexed : indexed' = indexed \cup {p}
    /\ UNCHANGED <<spoofVars, target, step, call, offer>>

\* A thread inside a creation asks nothing; every other one may.
AskArchitecture ==
    /\ SpoofNext
    /\ \A t \in Threads : at'[t] # at[t] => step[t] = "idle"
    /\ UNCHANGED kernelVars

CreateKernel(t) ==
    \/ Create(t) \/ TargetSm(t) \/ Decide(t) \/ FindNativeCubin(t) \/ FindContainerForCubin(t)
    \/ DriverAccepts(t) \/ DriverRejects(t) \/ Return(t)

Next ==
    \/ AskArchitecture
    \/ WorkerResolves
    \/ BuildProviderIndex
    \/ \E t \in Threads : CreateKernel(t)

Spec == Init /\ [][Next]_vars
-----------------------------------------------------------------------------
\* Types of this module's variables, with the fields of a creation under way.
TypeOK ==
    /\ SpoofTypeOK
    /\ target \in Nat \cup {NoTarget}
    /\ indexed \subseteq Runtimes
    /\ step \in [Threads -> {"idle", "target", "decide", "native", "container", "driver", "return"}]
    /\ \A t \in Threads :
         /\ step[t] = "idle" <=> call[t] = NoCall
         /\ step[t] # "idle" =>
              /\ call[t].blob \in Blobs /\ call[t].caller \in {Blob(t).maker, NoModule}
              /\ call[t].provider \in Runtimes \cup {NoModule}
              /\ call[t].pass \in {1, 2} /\ call[t].target \in Nat

\* No image the GPU cannot run ever reaches the driver (substitute.h:15-23): not
\* before substitution is active, not with retargeting off, not on the retry.
DriverGetsRunnable ==
    \A t \in Threads : step[t] = "driver" /\ Blob(t).kind # "other" =>
        /\ target # NoTarget
        /\ AnyRunnable(offer[t].images, target)

\* The target, once resolved, is an architecture: it is looked for only after
\* NVAPI's own answer is there to fall back on.
TargetKnown == target # 0

\* An image the GPU can run is never replaced or refused.
RunnableLeftAlone ==
    \A t \in Threads : offer[t].decision \in {"Substituted", "Refused"} =>
        ~AnyRunnable(ImagesOf(Blob(t)), target)

\* The second image handed to the driver is not the one it has just rejected, and
\* it too comes from the runtime that made the first.
RetryDiffers ==
    \A t \in Threads : step[t] = "driver" /\ call[t].pass = 2 =>
        /\ offer[t].decision = "Substituted"
        /\ <<offer[t].images, offer[t].source>> #
             <<call[t].rejected.images, call[t].rejected.source>>
        /\ call[t].rejected.from \in {offer[t].from, NoModule}

\* A call whose module is known is answered from that module's images alone, and
\* any other call from the images of a runtime that is indexed.
AnsweredFromIndex ==
    \A t \in Threads : offer[t].decision = "Substituted" =>
        IF call[t].caller # NoModule THEN offer[t].from \in {NoModule, call[t].caller}
        ELSE offer[t].from \in indexed \cup {NoModule}

=============================================================================
