----------------------------- MODULE VulkanProofs -----------------------------
(***************************************************************************)
(* Proofs about the Vulkan half of the program, for any number of threads: *)
(* the loader's resolvers, any number of devices; and the wrapper around   *)
(* Streamline's options with the Reflex fix that follows it, whatever the  *)
(* game asks for and whatever Streamline accepts.                          *)
(***************************************************************************)
EXTENDS VulkanResolvers, ReflexPacing, TLAPS

-----------------------------------------------------------------------------
(* VulkanResolvers.  Types come first; then how far the hooks are, what a    *)
(* thread in a resolution knows, and what the pointers handed out stand for. *)

USE ResolverAssumption

\* What a driver's function is.
LEMMA DriverFunctions ==
    ASSUME ResolverTypeOK, NEW via \in Handles
    PROVE  Driver(via) \in (Devices \X (0..MaxSerial)) \cup {Trampoline}
BY DEF ResolverTypeOK, Driver, Handles

\* No function of a driver is the absence of one.
LEMMA DriverAnswers ==
    ASSUME ResolverTypeOK, NEW via \in Handles
    PROVE  Driver(via) # NoFunction
<1>1. 0..MaxSerial \subseteq Nat
  OBVIOUS
<1> QED
  BY <1>1, DriverFunctions

\* A query under way names a function and a handle.
LEMMA Queries ==
    ASSUME ResolverTypeOK, NEW t \in Threads, query[t] # NoQuery
    PROVE  query[t] \in [function : Functions, via : Handles]
BY DEF ResolverTypeOK

\* A thread in a resolution has a query; a decision is about a latency function.
Asking ==
    \A t \in Threads : pc[t] # "idle" =>
        /\ query[t] \in [function : Functions, via : Handles]
        /\ pc[t] \in {"consider", "read", "wrap", "leave"} => query[t].function \in Latency

\* How far the hooks are: a resolver is enabled after its original was published, and a
\* thread is only in the detour of an enabled one.
HooksTyped ==
    /\ hooking \in Resolvers \cup {"done"}
    /\ stage \in {"create", "publish", "enable"}
    /\ slot \subseteq Resolvers /\ enabled \subseteq Resolvers

Published ==
    /\ enabled \subseteq slot
    /\ hooking \notin enabled
    /\ hooking = "device" => "instance" \notin enabled
    /\ hooking = "done" => stage = "create"
    /\ stage = "enable" => hooking \in slot

\* Installing the hooks keeps that order, whichever of its steps fail.
LEMMA Installing ==
    ASSUME HooksTyped, Published, InstallLoaderHooks
    PROVE  HooksTyped' /\ Published'
<1> USE DEF HooksTyped, Published, Resolvers, NextResolver
<1>1. CASE CreateFails
  BY <1>1 DEF CreateFails
<1>2. CASE CreateHook
  <2>1. stage' = "publish" /\ hooking' = hooking
    BY <1>2 DEF CreateHook, StepDone, After
  <2> QED
    BY <1>2, <2>1 DEF CreateHook
<1>3. CASE Publish
  <2>1. stage' = "enable" /\ hooking' = hooking
    BY <1>3 DEF Publish, StepDone, After
  <2> QED
    BY <1>3, <2>1 DEF Publish
<1>4. CASE Enable
  <2>1. stage' = "create" /\ hooking' = NextResolver
    BY <1>4 DEF Enable, StepDone, After
  <2> QED
    BY <1>4, <2>1 DEF Enable
<1>5. CASE EnableFails
  BY <1>5 DEF EnableFails
<1> QED
  BY <1>1, <1>2, <1>3, <1>4, <1>5 DEF InstallLoaderHooks

\* What is enabled stays enabled.
LEMMA StaysEnabled ==
    ASSUME InstallLoaderHooks
    PROVE  enabled \subseteq enabled'
BY DEF InstallLoaderHooks, CreateFails, CreateHook, Publish, Enable, EnableFails

\* The variables keep their types, the hooks their order, and every thread at work has a
\* query.
LEMMA ResolverTyped == ResolverSpec => [](ResolverTypeOK /\ Published /\ Asking)
<1>1. ResolverInit => ResolverTypeOK /\ Published /\ Asking
  BY DEF ResolverInit, ResolverTypeOK, Published, Asking, Resolvers
<1>2. /\ ResolverTypeOK /\ Published /\ Asking /\ [ResolverNext]_resolverVars
      => (ResolverTypeOK /\ Published /\ Asking)'
  <2> SUFFICES ASSUME ResolverTypeOK, Published, Asking, [ResolverNext]_resolverVars
               PROVE  ResolverTypeOK' /\ Published' /\ Asking'
    OBVIOUS
  <2> USE DEF ResolverTypeOK, Published, Asking, Goto, hookVars
  <2>1. CASE InstallLoaderHooks
    <3>1. HooksTyped' /\ Published'
      BY <2>1, Installing DEF HooksTyped
    <3> QED
      BY <2>1, <3>1 DEF InstallLoaderHooks, HooksTyped
  <2>2. ASSUME NEW t \in Threads, NEW f \in Functions, NEW via \in Handles, Resolve(t, f, via)
        PROVE  ResolverTypeOK' /\ Published' /\ Asking'
    BY <2>2 DEF Resolve
  <2>3. ASSUME NEW t \in Threads, Detour(t)
        PROVE  ResolverTypeOK' /\ Published' /\ Asking'
    <3>1. query[t].function \in Functions /\ query[t].via \in Handles
      BY <2>3 DEF Detour
    <3>2. CASE Return(t, "detour", "null")
      BY <2>3, <3>1, <3>2 DEF Detour, Return, Pointer
    <3>3. CASE query[t].function \notin Latency /\ Goto(t, "detour", "record")
                /\ UNCHANGED <<held, query>>
      BY <2>3, <3>3 DEF Detour
    <3>4. CASE query[t].function \in Latency /\ Goto(t, "detour", "consider")
                /\ UNCHANGED <<held, query>>
      BY <2>3, <3>4 DEF Detour
    <3> QED
      BY <2>3, <3>2, <3>3, <3>4 DEF Detour
  <2>4. ASSUME NEW t \in Threads, Consider(t)
        PROVE  ResolverTypeOK' /\ Published' /\ Asking'
    BY <2>4 DEF Consider, Return, Pointer
  <2>5. ASSUME NEW t \in Threads, ReadArchitecture(t) \/ Decide(t)
        PROVE  ResolverTypeOK' /\ Published' /\ Asking'
    BY <2>5 DEF ReadArchitecture, Decide, Decided
  <2>6. ASSUME NEW t \in Threads, Record(t)
        PROVE  ResolverTypeOK' /\ Published' /\ Asking'
    <3>1. /\ query[t].function \in Functions /\ query[t].via \in Handles
      BY <2>6 DEF Record
    <3>2. Driver(query[t].via) \in (Devices \X (0..MaxSerial)) \cup {Trampoline}
      BY <3>1, DriverFunctions
    <3>3. resolutions' \in
            [Functions -> [Handles -> (Devices \X (0..MaxSerial)) \cup {Trampoline, NoFunction}]]
      BY <2>6, <3>1, <3>2 DEF Record, Recorded
    <3> QED
      BY <2>6, <3>1, <3>3 DEF Record, Return, Pointer
  <2>7. CASE Identify
    BY <2>7 DEF Identify
  <2>8. ASSUME NEW d \in Devices, RecreateDevice(d)
        PROVE  ResolverTypeOK' /\ Published' /\ Asking'
    <3>1. serial' \in [Devices -> 0..MaxSerial]
      BY <2>8 DEF RecreateDevice
    <3> QED
      BY <2>8, <3>1 DEF RecreateDevice
  <2>9. CASE UNCHANGED resolverVars
    BY <2>9 DEF resolverVars
  <2> QED
    BY <2>1, <2>2, <2>3, <2>4, <2>5, <2>6, <2>7, <2>8, <2>9 DEF ResolverNext, Resolution
<1> QED
  BY <1>1, <1>2, PTL DEF ResolverSpec

-----------------------------------------------------------------------------
\* A thread is only in the detour of an enabled resolver, and so never gets null.
Answering ==
    /\ \A t \in Threads : pc[t] = "detour" => Resolver(query[t].via) \in enabled
    /\ NoEmptyAnswer

\* What the latency functions were wrapped by is the decision that stands.
Agreeing ==
    /\ \A p \in held : p.function \in Latency =>
          /\ p.kind = "wrapper" => wrapping = "Wrap"
          /\ p.kind = "plain" => wrapping = "Leave"
    /\ \A t \in Threads :
          pc[t] = "record" /\ query[t].function \in Latency => wrapping = "Wrap"

\* What is recorded for the device of a wrapper is what its driver has now.
Dispatching ==
    \A p \in held : p.kind = "wrapper" => resolutions[p.function][p.via] = Driver(p.via)

\* The pointers the game holds, once those three hold.
LEMMA Consequences ==
    ASSUME ResolverTypeOK, Answering, Agreeing, Dispatching
    PROVE  NoEmptyAnswer /\ PairAgrees /\ DeviceDispatch
<1>1. NoEmptyAnswer
  BY DEF Answering
<1>2. PairAgrees
  BY <1>1 DEF PairAgrees, NoEmptyAnswer, Agreeing, ResolverTypeOK
<1>3. DeviceDispatch
  <2> SUFFICES ASSUME NEW p \in held, p.kind = "wrapper"
               PROVE  IF p.via = AnyDevice
                      THEN \A d \in Devices : Original(p.function, d) # NoFunction
                      ELSE Original(p.function, p.via) = Driver(p.via)
    BY DEF DeviceDispatch
  <2>1. p.via \in Handles
    BY DEF ResolverTypeOK
  <2>2. resolutions[p.function][p.via] = Driver(p.via) /\ Driver(p.via) # NoFunction
    BY <2>1, DriverAnswers DEF Dispatching
  <2> QED
    BY <2>2 DEF Original
<1> QED
  BY <1>1, <1>2, <1>3

\* Hooking the loader disturbs none of them.
LEMMA InstallingKeeps ==
    ASSUME InstallLoaderHooks, Answering, Agreeing, Dispatching
    PROVE  Answering' /\ Agreeing' /\ Dispatching'
<1>1. Answering'
  BY StaysEnabled DEF InstallLoaderHooks, Answering, NoEmptyAnswer, Resolver
<1>2. Agreeing'
  BY DEF InstallLoaderHooks, Agreeing
<1>3. Dispatching'
  BY DEF InstallLoaderHooks, Dispatching, Driver
<1> QED
  BY <1>1, <1>2, <1>3

\* A pointer handed out to t is the only new one.
LEMMA Returned ==
    ASSUME NEW t \in Threads, NEW from, NEW kind, Return(t, from, kind), NEW p \in held'
    PROVE  p \in held \/ (/\ p.function = query[t].function
                          /\ p.via = query[t].via
                          /\ p.kind = kind)
BY DEF Return, Pointer

\* Neither does a thread's resolution.
LEMMA ResolutionKeeps ==
    ASSUME ResolverTypeOK, Published, Asking, Answering, Agreeing, Dispatching,
           NEW t \in Threads, Resolution(t)
    PROVE  Answering' /\ Agreeing' /\ Dispatching'
<1> USE DEF Goto, hookVars
<1>1. ASSUME NEW f \in Functions, NEW via \in Handles, Resolve(t, f, via)
      PROVE  Answering' /\ Agreeing' /\ Dispatching'
  <2>1. Answering'
    BY <1>1 DEF Resolve, Answering, NoEmptyAnswer, Resolver, ResolverTypeOK
  <2>2. Agreeing' /\ Dispatching'
    BY <1>1 DEF Resolve, Agreeing, Dispatching, Driver, ResolverTypeOK
  <2> QED
    BY <2>1, <2>2
<1>2. CASE Detour(t)
  <2>1. Resolver(query[t].via) \in slot
    BY <1>2 DEF Detour, Answering, Published
  <2>2. Answering'
    BY <1>2, <2>1 DEF Detour, Answering, NoEmptyAnswer, Resolver, ResolverTypeOK
  <2>3. Agreeing' /\ Dispatching'
    BY <1>2, <2>1 DEF Detour, Agreeing, Dispatching, Driver, ResolverTypeOK
  <2> QED
    BY <2>2, <2>3
<1>3. CASE Consider(t)
  <2>1. CASE wrapping # "Leave"
    BY <1>3, <2>1 DEF Consider, Answering, NoEmptyAnswer, Agreeing, Dispatching, Resolver,
                      Driver, ResolverTypeOK
  <2>2. CASE wrapping = "Leave"
    <3>1. Return(t, "consider", "plain") /\ UNCHANGED <<enabled, wrapping, resolutions, serial>>
      BY <1>3, <2>2 DEF Consider
    <3>2. \A p \in held' : p \in held \/ p.kind = "plain"
      BY <3>1, Returned
    <3>3. /\ Answering'
          /\ Agreeing'
          /\ Dispatching'
      BY <2>2, <3>1, <3>2 DEF Return, Answering, NoEmptyAnswer, Agreeing, Dispatching,
                              Resolver, Driver, ResolverTypeOK
    <3> QED
      BY <3>3
  <2> QED
    BY <2>1, <2>2
<1>4. CASE ReadArchitecture(t)
  BY <1>4 DEF ReadArchitecture, Answering, NoEmptyAnswer, Agreeing, Dispatching, Resolver,
              Driver, ResolverTypeOK
<1>5. CASE Decide(t)
  BY <1>5 DEF Decide, Decided, Answering, NoEmptyAnswer, Agreeing, Dispatching, Resolver,
              Driver, ResolverTypeOK
<1>6. CASE Record(t)
  <2>1. /\ Return(t, "record", "wrapper")
        /\ UNCHANGED <<enabled, wrapping, serial>>
        /\ resolutions' = Recorded(query[t].function, query[t].via)
    BY <1>6 DEF Record
  <2>2. query[t].function \in Functions /\ query[t].via \in Handles
    BY <1>6 DEF Asking, Record
  <2>3. \A p \in held' : \/ p \in held
                         \/ /\ p.function = query[t].function
                            /\ p.via = query[t].via
                            /\ p.kind = "wrapper"
    BY <2>1, Returned
  <2>4. Answering'
    BY <2>1, <2>3 DEF Return, Answering, NoEmptyAnswer, Resolver, ResolverTypeOK
  <2>5. Agreeing'
    BY <1>6, <2>1, <2>3 DEF Record, Return, Agreeing, ResolverTypeOK
  <2>6. Dispatching'
    <3> SUFFICES ASSUME NEW p \in held', p.kind = "wrapper"
                 PROVE  resolutions'[p.function][p.via] = Driver(p.via)'
      BY DEF Dispatching
    <3>1. CASE p.function = query[t].function /\ p.via = query[t].via
      BY <2>1, <2>2, <3>1 DEF Recorded, Driver, ResolverTypeOK
    <3>2. CASE p \in held /\ ~(p.function = query[t].function /\ p.via = query[t].via)
      <4>1. p.function \in Functions /\ p.via \in Handles
        BY <3>2 DEF ResolverTypeOK
      <4>2. resolutions'[p.function][p.via] = resolutions[p.function][p.via]
        BY <2>1, <2>2, <3>2, <4>1 DEF Recorded, ResolverTypeOK
      <4> QED
        BY <2>1, <3>2, <4>2 DEF Dispatching, Driver
    <3> QED
      BY <2>3, <3>1, <3>2
  <2> QED
    BY <2>4, <2>5, <2>6
<1> QED
  BY <1>1, <1>2, <1>3, <1>4, <1>5, <1>6 DEF Resolution

\* Nor does a device that takes over a handle: the pointers of the old one are gone.
LEMMA RecreatingKeeps ==
    ASSUME ResolverTypeOK, Answering, Agreeing, Dispatching,
           NEW d \in Devices, RecreateDevice(d)
    PROVE  Answering' /\ Agreeing' /\ Dispatching'
<1>1. Answering'
  BY DEF RecreateDevice, hookVars, Answering, NoEmptyAnswer, Resolver
<1>2. Agreeing'
  BY DEF RecreateDevice, Agreeing
<1>3. Dispatching'
  <2> SUFFICES ASSUME NEW p \in held', p.kind = "wrapper"
               PROVE  resolutions'[p.function][p.via] = Driver(p.via)'
    BY DEF Dispatching
  <2>1. p \in held /\ p.via # d /\ p.via \in Handles
    BY DEF RecreateDevice, ResolverTypeOK
  <2>2. Driver(p.via)' = Driver(p.via)
    BY <2>1 DEF RecreateDevice, ResolverTypeOK, Driver, Handles
  <2> QED
    BY <2>1, <2>2 DEF RecreateDevice, Dispatching
<1> QED
  BY <1>1, <1>2, <1>3

\* The three of them hold always.
LEMMA ResolverInvariant == ResolverSpec => [](Answering /\ Agreeing /\ Dispatching)
<1>1. ResolverInit => Answering /\ Agreeing /\ Dispatching
  BY DEF ResolverInit, Answering, NoEmptyAnswer, Agreeing, Dispatching
<1>2. /\ ResolverTypeOK /\ Published /\ Asking
      /\ Answering /\ Agreeing /\ Dispatching
      /\ [ResolverNext]_resolverVars
      => (Answering /\ Agreeing /\ Dispatching)'
  <2> SUFFICES ASSUME ResolverTypeOK, Published, Asking, Answering, Agreeing, Dispatching,
                      [ResolverNext]_resolverVars
               PROVE  Answering' /\ Agreeing' /\ Dispatching'
    OBVIOUS
  <2>1. CASE Identify \/ UNCHANGED resolverVars
    BY <2>1 DEF Identify, resolverVars, hookVars, Answering, NoEmptyAnswer, Agreeing,
                Dispatching, Resolver, Driver
  <2> QED
    BY <2>1, InstallingKeeps, ResolutionKeeps, RecreatingKeeps DEF ResolverNext
<1> QED
  BY <1>1, <1>2, ResolverTyped, PTL DEF ResolverSpec

-----------------------------------------------------------------------------

\* The variables of the resolvers keep their types (loader_hooks.cpp:85-231).
THEOREM ResolverTypes == ResolverSpec => []ResolverTypeOK
BY ResolverTyped, PTL

\* No resolution comes back empty because it was made while the resolvers were being
\* hooked, whichever steps of the installation fail (hooks.h:13-18).
THEOREM NeverEmpty == ResolverSpec => []NoEmptyAnswer
<1>1. Answering => NoEmptyAnswer
  BY DEF Answering
<1> QED
  BY <1>1, ResolverInvariant, PTL

\* The two latency functions are wrapped as a pair, however many threads resolve them
\* and whenever the GPU becomes known (reflex_pacing.cpp:24-27).
THEOREM WrappedAsPair == ResolverSpec => []PairAgrees
<1>1. ResolverTypeOK /\ Answering /\ Agreeing /\ Dispatching => PairAgrees
  BY Consequences
<1> QED
  BY <1>1, ResolverTyped, ResolverInvariant, PTL

\* A wrapper calls through to the function its device has now, however often the handle
\* was used again (loader_hooks.h:29-32).
THEOREM DispatchFollowsDevice == ResolverSpec => []DeviceDispatch
<1>1. ResolverTypeOK /\ Answering /\ Agreeing /\ Dispatching => DeviceDispatch
  BY Consequences
<1> QED
  BY <1>1, ResolverTyped, ResolverInvariant, PTL

-----------------------------------------------------------------------------
(* FrameGeneration and ReflexPacing. *)

USE FrameGenerationAssumption

\* The game's requests, and the one it has made before it makes any.
LEMMA RequestFields ==
    ASSUME NEW r \in Requests \cup {Off}
    PROVE  /\ r.mode \in {"off", "on", "auto", "dynamic"} /\ r.frames \in Nat
           /\ Own(r) \in [mode : {"off", "on", "auto", "dynamic"}, frames : Nat]
           /\ Own(r).mode = r.mode
BY DEF Off, Own

\* What is sent for a request has the request's mode as far as "off" is concerned.
LEMMA SentKeepsMode ==
    ASSUME NEW r \in Requests \cup {Off}
    PROVE  /\ Sent(r) \in [mode : {"off", "on", "auto", "dynamic"}, frames : Nat]
           /\ Sent(r).mode = "off" <=> r.mode = "off"
<1>1. CASE Forces(r)
  <2>0. ForceMultiplier \in Nat /\ ForceMultiplier # 0
    BY <1>1 DEF Forces
  <2>1. ForceMultiplier - 1 \in Nat
    BY <2>0
  <2> QED
    BY <1>1, <2>1 DEF Sent, Forces, Forced
<1>2. CASE ~Forces(r)
  BY <1>2, RequestFields DEF Sent
<1> QED
  BY <1>1, <1>2

\* A call of Streamline's own function, with options that are off if the request is.
LEMMA SetOptionsKeeps ==
    ASSUME FgTypeOK, ForceKeepsRequest, NEW t \in Callers, NEW options, NEW otherwise,
           options \in [mode : {"off", "on", "auto", "dynamic"}, frames : Nat],
           options.mode = "off" <=> request[t].mode = "off",
           otherwise \in {"replay", "refused"},
           otherwise = "refused" /\ ~Accepts(options) => ~Accepts(Own(request[t])),
           SetOptionsTo(t, options, otherwise),
           UNCHANGED <<limit, frame_generation_on, request>>
    PROVE  FgTypeOK' /\ ForceKeepsRequest'
<1>1. CASE Accepts(options)
  BY <1>1 DEF SetOptionsTo, FgGoto, FgTypeOK, ForceKeepsRequest, Accepts
<1>2. CASE ~Accepts(options)
  BY <1>2 DEF SetOptionsTo, FgGoto, FgTypeOK, ForceKeepsRequest, Accepts
<1> QED
  BY <1>1, <1>2

\* No step of the wrapper forces whether frames are generated, or loses a request that
\* would have been granted.
LEMMA HookSetOptionsKeeps ==
    ASSUME FgTypeOK, ForceKeepsRequest, NEW t \in Callers, Ask(t) \/ HookSetOptions(t)
    PROVE  FgTypeOK' /\ ForceKeepsRequest'
<1>0. request[t] \in Requests \cup {Off}
  BY DEF FgTypeOK
<1>1. CASE Ask(t)
  BY <1>1 DEF Ask, FgGoto, FgTypeOK, ForceKeepsRequest, Accepts
<1>2. CASE SetOptions(t)
  <2>1. /\ SetOptionsTo(t, Sent(request[t]), AfterRefusal(t))
        /\ UNCHANGED <<limit, frame_generation_on, request>>
    BY <1>2 DEF SetOptions
  <2>2. /\ AfterRefusal(t) \in {"replay", "refused"}
        /\ AfterRefusal(t) = "refused" => Sent(request[t]) = Own(request[t])
    BY DEF AfterRefusal, Sent
  <2> QED
    BY <1>0, <2>1, <2>2, SentKeepsMode, SetOptionsKeeps
<1>3. CASE Replay(t)
  BY <1>0, <1>3, RequestFields, SetOptionsKeeps DEF Replay
<1>4. CASE StoreFlag(t) \/ ReturnError(t)
  BY <1>4 DEF StoreFlag, ReturnError, FgGoto, FgTypeOK, ForceKeepsRequest, Accepts
<1> QED
  BY <1>1, <1>2, <1>3, <1>4 DEF HookSetOptions

\* What was sent is what was asked for until frame generation has come first; and a
\* thread that has seen generated frames, after a sleep came first, has seen the sleep:
\* it reads the flag of the sleep second.
Undisturbed ==
    /\ first = "sleep" => sleep_seen
    /\ frame_generation_on => first # "none"
    /\ \A t \in Callers :
         /\ saw[t]["generation"] => first # "none"
         /\ at[t] = "send" /\ saw[t]["generation"] /\ first = "sleep" => saw[t]["sleep"]
    /\ first # "generation" => sent.got = sent.asked

PacingInv == TypeOK /\ ForceKeepsRequest /\ Undisturbed

\* A step of the wrapper around the options: the flag is set in one of them only.
LEMMA OptionsKeepFlow ==
    ASSUME PacingInv, NEW t \in Callers, StartOptions(t) \/ FrameOptions(t)
    PROVE  PacingInv'
<1>1. FgTypeOK' /\ ForceKeepsRequest'
  BY HookSetOptionsKeeps DEF PacingInv, TypeOK, StartOptions, FrameOptions
<1>2. CASE StartOptions(t)
  BY <1>1, <1>2 DEF PacingInv, TypeOK, Undisturbed, StartOptions, Ask, reflexVars
<1>3. CASE FrameOptions(t)
  <2>1. first' = IF frame_generation_on' THEN First("generation") ELSE first
    BY <1>3 DEF FrameOptions
  <2>2. TypeOK'
    BY <1>1, <1>3, <2>1 DEF PacingInv, TypeOK, FrameOptions, First
  <2>3. first' = first \/ (first = "none" /\ first' = "generation")
    BY <2>1 DEF First
  <2>4. frame_generation_on' => first' # "none"
    BY <2>1 DEF First
  <2>5. Undisturbed'
    BY <1>3, <2>3, <2>4 DEF PacingInv, Undisturbed, FrameOptions
  <2> QED
    BY <1>1, <2>2, <2>5 DEF PacingInv
<1> QED
  BY <1>2, <1>3

\* A sleep: if it comes first, no thread has seen generated frames.
LEMMA SleepKeeps ==
    ASSUME PacingInv, NEW t \in Callers, LatencySleep(t)
    PROVE  PacingInv'
<1>1. TypeOK' /\ ForceKeepsRequest'
  BY DEF PacingInv, TypeOK, FgTypeOK, ForceKeepsRequest, Accepts, LatencySleep, First, fgVars
<1>2. Undisturbed'
  BY DEF PacingInv, Undisturbed, LatencySleep, First, fgVars
<1> QED
  BY <1>1, <1>2 DEF PacingInv

\* The calls of the sleep mode.
LEMMA SleepModeKeeps ==
    ASSUME PacingInv, NEW t \in Callers, SetSleepMode(t) \/ ReadFlag(t) \/ Send(t)
    PROVE  PacingInv'
<1>0. UNCHANGED <<fgVars, sleep_seen, first>> /\ FgTypeOK' /\ ForceKeepsRequest'
  <2>1. UNCHANGED <<fgVars, sleep_seen, first>>
    BY DEF SetSleepMode, ReadFlag, Send
  <2> QED
    BY <2>1 DEF PacingInv, TypeOK, FgTypeOK, ForceKeepsRequest, Accepts, fgVars
<1>1. CASE SetSleepMode(t)
  <2>1. TypeOK'
    BY <1>0, <1>1 DEF PacingInv, TypeOK, SetSleepMode, ReflexGoto
  <2>2. /\ at'[t] = "read one" /\ UNCHANGED <<saw, sent>>
        /\ \A u \in Callers : u # t => at'[u] = at[u]
    BY <1>1 DEF PacingInv, TypeOK, SetSleepMode, ReflexGoto
  <2>3. Undisturbed'
    BY <1>0, <2>2 DEF PacingInv, Undisturbed, fgVars
  <2> QED
    BY <1>0, <2>1, <2>3 DEF PacingInv
<1>2. ASSUME ReflexGoto(t, "read one", "read other"), Read(t, "generation"),
             UNCHANGED <<wants, sent>>
      PROVE  PacingInv'
  <2>1. saw' = [saw EXCEPT ![t] = [saw[t] EXCEPT !["generation"] = frame_generation_on]]
    BY <1>2 DEF Read
  <2>2. TypeOK'
    BY <1>0, <1>2, <2>1 DEF PacingInv, TypeOK, FgTypeOK, ReflexGoto, Flags
  <2>3. /\ at'[t] = "read other" /\ \A u \in Callers : u # t => at'[u] = at[u]
        /\ saw'[t] = [saw[t] EXCEPT !["generation"] = frame_generation_on]
        /\ \A u \in Callers : u # t => saw'[u] = saw[u]
    BY <1>2, <2>1 DEF PacingInv, TypeOK, ReflexGoto
  <2>4. saw[t] \in [Flags -> BOOLEAN]
    BY DEF PacingInv, TypeOK
  <2>5. (saw'[t]["generation"] <=> frame_generation_on)
    BY <2>3, <2>4 DEF Flags
  <2>6. Undisturbed'
    BY <1>0, <1>2, <2>3, <2>5 DEF PacingInv, Undisturbed, fgVars
  <2> QED
    BY <1>0, <2>2, <2>6 DEF PacingInv
<1>3. ASSUME ReflexGoto(t, "read other", "send"), Read(t, "sleep"), UNCHANGED <<wants, sent>>
      PROVE  PacingInv'
  <2>1. saw' = [saw EXCEPT ![t] = [saw[t] EXCEPT !["sleep"] = sleep_seen]]
    BY <1>3 DEF Read
  <2>2. TypeOK'
    BY <1>0, <1>3, <2>1 DEF PacingInv, TypeOK, ReflexGoto, Flags
  <2>3. /\ at'[t] = "send" /\ \A u \in Callers : u # t => at'[u] = at[u]
        /\ saw'[t] = [saw[t] EXCEPT !["sleep"] = sleep_seen]
        /\ \A u \in Callers : u # t => saw'[u] = saw[u]
    BY <1>3, <2>1 DEF PacingInv, TypeOK, ReflexGoto
  <2>4. saw[t] \in [Flags -> BOOLEAN]
    BY DEF PacingInv, TypeOK
  <2>5. (saw'[t]["sleep"] <=> sleep_seen) /\ saw'[t]["generation"] = saw[t]["generation"]
    BY <2>3, <2>4 DEF Flags
  <2>6. Undisturbed'
    BY <1>0, <1>3, <2>3, <2>5 DEF PacingInv, Undisturbed, fgVars
  <2> QED
    BY <1>0, <2>2, <2>6 DEF PacingInv
<1>4. CASE ReadFlag(t)
  BY <1>2, <1>3, <1>4 DEF ReadFlag, ReadOrder
<1>5. CASE Send(t)
  <2>1. /\ at[t] = "send" /\ at' = [at EXCEPT ![t] = "idle"]
        /\ saw' = [saw EXCEPT ![t] = Nothing]
        /\ sent'.asked = wants[t]
        /\ sent'.got = (wants[t] /\ ~(wants[t] /\ saw[t]["generation"] /\ ~saw[t]["sleep"]))
        /\ UNCHANGED wants
    BY <1>5 DEF Send, ReflexGoto, MustTurnLowLatencyOff
  <2>2. TypeOK'
    <3>1. sent' \in [asked : BOOLEAN, got : BOOLEAN]
      BY <1>5 DEF Send, MustTurnLowLatencyOff, PacingInv, TypeOK, Flags
    <3> QED
      BY <1>0, <2>1, <3>1 DEF PacingInv, TypeOK, Nothing, Flags
  <2>3. /\ ~saw'[t]["generation"]
        /\ \A u \in Callers : u # t => saw'[u] = saw[u] /\ at'[u] = at[u]
    BY <2>1 DEF PacingInv, TypeOK, Nothing, Flags
  <2>4. first # "generation" => sent'.got = sent'.asked
    BY <2>1 DEF PacingInv, TypeOK, Undisturbed
  <2>5. Undisturbed'
    BY <1>0, <2>3, <2>4 DEF PacingInv, Undisturbed, fgVars
  <2> QED
    BY <1>0, <2>2, <2>5 DEF PacingInv
<1> QED
  BY <1>1, <1>4, <1>5

\* The inductive invariant of the pacing fix.
LEMMA PacingInvariant == Spec => []PacingInv
<1>1. Init => PacingInv
  <2>1. Init => TypeOK
    <3>1. Own(Off) \in [mode : {"off", "on", "auto", "dynamic"}, frames : Nat]
      BY RequestFields
    <3>2. Init => FgTypeOK
      BY <3>1 DEF Init, FgInit, FgTypeOK
    <3>3. Nothing \in [Flags -> BOOLEAN]
      BY DEF Nothing
    <3>4. Init => saw \in [Callers -> [Flags -> BOOLEAN]] /\ wants \in [Callers -> BOOLEAN]
      BY <3>3 DEF Init
    <3>5. Init => sent \in [asked : BOOLEAN, got : BOOLEAN]
      BY DEF Init
    <3> QED
      BY <3>2, <3>4, <3>5 DEF Init, TypeOK
  <2>2. Init => ForceKeepsRequest
    BY DEF Init, FgInit, Off, Own, ForceKeepsRequest
  <2>3. Init => Undisturbed
    BY DEF Init, FgInit, Nothing, Flags, Undisturbed
  <2> QED
    BY <2>1, <2>2, <2>3 DEF PacingInv
<1>2. PacingInv /\ [Next]_vars => PacingInv'
  <2> SUFFICES ASSUME PacingInv, [Next]_vars PROVE PacingInv'
    OBVIOUS
  <2>1. CASE UNCHANGED vars
    BY <2>1 DEF vars, fgVars, reflexVars, PacingInv, TypeOK, FgTypeOK, ForceKeepsRequest, Accepts,
                Undisturbed
  <2> QED
    BY <2>1, OptionsKeepFlow, SleepKeeps, SleepModeKeeps DEF Next, Progress
<1> QED
  BY <1>1, <1>2, PTL DEF Spec

\* The variables of the wrapper around Streamline's options and of the fix keep their
\* types, whatever the game asks for.
THEOREM PacingTypes == Spec => []TypeOK
<1>1. PacingInv => TypeOK
  BY DEF PacingInv
<1> QED
  BY <1>1, PacingInvariant, PTL

\* Streamline is off exactly when the game's last granted request was to be, and no
\* request it would have granted is refused (streamline.cpp:154, 196-197).
THEOREM ForceKeepsRequestAlways == Spec => []ForceKeepsRequest
<1>1. PacingInv => ForceKeepsRequest
  BY DEF PacingInv
<1> QED
  BY <1>1, PacingInvariant, PTL

\* The requests of a game that slept before frame generation was first on reach the
\* driver as made (ARCHITECTURE.md:381-382).
THEOREM SleepersUntouchedAlways == Spec => []SleepersUntouched
<1>1. PacingInv => SleepersUntouched
  BY DEF PacingInv, Undisturbed, SleepersUntouched
<1> QED
  BY <1>1, PacingInvariant, PTL
=============================================================================
