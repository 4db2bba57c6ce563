------------------------------ MODULE ReflexPacing ------------------------------
(***************************************************************************)
(* Low latency of the driver while frames are generated                    *)
(* (src/src/vulkan/reflex_pacing.cpp), composed with the wrapper around    *)
(* slDLSSGSetOptions.  The game holds both wrappers, as a pair             *)
(* (VulkanResolvers, PairAgrees), and any thread calls them.               *)
(***************************************************************************)
EXTENDS FrameGeneration

VARIABLES sleep_seen,  \* g_latency_sleep_seen
          wants,       \* low_latency_mode of the request each thread makes
          saw,         \* what each thread has read of the two flags
          at,          \* where each thread is in HookedSetLatencySleepMode
          sent,        \* the last request to reach the driver, and what was sent
          first        \* what came first, a sleep or generated frames

reflexVars == <<sleep_seen, wants, saw, at, sent, first>>
vars == <<fgVars, reflexVars>>

Flags == {"generation", "sleep"}
Nothing == [f \in Flags |-> FALSE]

Init ==
    /\ FgInit
    /\ sleep_seen = FALSE
    /\ wants = [t \in Callers |-> FALSE]
    /\ saw = [t \in Callers |-> Nothing]
    /\ at = [t \in Callers |-> "idle"]
    /\ sent = [asked |-> FALSE, got |-> FALSE]
    /\ first = "none"

Idle(t) == step[t] = "idle" /\ at[t] = "idle"
ReflexGoto(t, from, to) == at[t] = from /\ at' = [at EXCEPT ![t] = to]
First(what) == IF first = "none" THEN what ELSE first

\* The game calls slDLSSGSetOptions.
StartOptions(t) == Idle(t) /\ Ask(t) /\ UNCHANGED reflexVars

\* HookSetOptions goes on.
FrameOptions(t) ==
    /\ HookSetOptions(t)
    /\ first' = IF frame_generation_on' THEN First("generation") ELSE first
    /\ UNCHANGED <<sleep_seen, wants, saw, at, sent>>

\* HookedLatencySleep.
LatencySleep(t) ==
    /\ Idle(t)
    /\ sleep_seen' = TRUE
    /\ first' = First("sleep")
    /\ UNCHANGED <<fgVars, wants, saw, at, sent>>

-----------------------------------------------------------------------------
SleepFirst == <<"sleep", "generation">>  \* a mutant of ReadOrder
\* The flag of frame generation is read before the one of the sleep.
ReadOrder == <<"generation", "sleep">>

\* HookedSetLatencySleepMode is called: by Streamline, on every new swapchain too.
SetSleepMode(t) ==
    /\ Idle(t)
    /\ ReflexGoto(t, "idle", "read one")
    /\ \E wish \in BOOLEAN : wants' = [wants EXCEPT ![t] = wish]
    /\ UNCHANGED <<fgVars, sleep_seen, saw, sent, first>>

Read(t, flag) ==
    saw' = [saw EXCEPT ![t][flag] = IF flag = "sleep" THEN sleep_seen ELSE frame_generation_on]

ReadFlag(t) ==
    /\ \/ ReflexGoto(t, "read one", "read other") /\ Read(t, ReadOrder[1])
       \/ ReflexGoto(t, "read other", "send") /\ Read(t, ReadOrder[2])
    /\ UNCHANGED <<fgVars, sleep_seen, wants, sent, first>>

OffWithoutFrames(requested, generation, sleeps) == requested /\ ~sleeps  \* a mutant
OffForSleepers(requested, generation, sleeps) == requested /\ generation /\ sleeps  \* another
MustTurnLowLatencyOff(requested, generation, sleeps) == requested /\ generation /\ ~sleeps

Send(t) ==
    /\ ReflexGoto(t, "send", "idle")
    /\ LET off == MustTurnLowLatencyOff(wants[t], saw[t]["generation"], saw[t]["sleep"])
       IN sent' = [asked |-> wants[t], got |-> wants[t] /\ ~off]
    /\ saw' = [saw EXCEPT ![t] = Nothing]
    /\ UNCHANGED <<fgVars, sleep_seen, wants, first>>

-----------------------------------------------------------------------------
\* A call that has begun.
Progress(t) == FrameOptions(t) \/ ReadFlag(t) \/ Send(t)

Next == \E t \in Callers : StartOptions(t) \/ LatencySleep(t) \/ SetSleepMode(t) \/ Progress(t)

\* A thread in a call goes on; nobody has to call.
Fairness == \A t \in Callers : WF_vars(Progress(t))

Spec == Init /\ [][Next]_vars /\ Fairness
-----------------------------------------------------------------------------
\* Types of the variables.
TypeOK ==
    /\ FgTypeOK
    /\ sleep_seen \in BOOLEAN
    /\ wants \in [Callers -> BOOLEAN]
    /\ saw \in [Callers -> [Flags -> BOOLEAN]]
    /\ at \in [Callers -> {"idle", "read one", "read other", "send"}]
    /\ sent \in [asked : BOOLEAN, got : BOOLEAN]
    /\ first \in {"none", "sleep", "generation"}

\* The requests of a game that slept before frame generation was first on reach the
\* driver as made, whatever happens while one is under way (ARCHITECTURE.md:381-382).
SleepersUntouched == first = "sleep" => sent.got = sent.asked

\* Streamline keeps setting the sleep mode.
KeepsSending == []<>(\E t \in Callers : at[t] = "send")

Sleepless == frame_generation_on /\ ~sleep_seen

\* While frames are generated for a game that never sleeps, low latency is off once the
\* mode has been set again: the game is not paced in its presents (reflex_pacing.h:5-13).
LowLatencyComesOff == KeepsSending /\ <>[]Sleepless => <>[](~sent.got)

\* The game's own setting is back once the mode has been set again after frame
\* generation was switched off, or after the game's first sleep (reflex_pacing.h:15-18).
RequestComesBack == KeepsSending /\ <>[](~Sleepless) => <>[](sent.got = sent.asked)
=============================================================================
