---------------------------- MODULE FrameGeneration ----------------------------
(***************************************************************************)
(* The wrapper around slDLSSGSetOptions (src/src/streamline/streamline.cpp)*)
(* The multiplier is forced to a configured count, and what Streamline has *)
(* accepted of the game's request decides g_frame_generation_on, which the *)
(* Reflex fix reads.  Any thread may call, also two at a time.             *)
(*                                                                         *)
(* Options are a mode, a count and whether their structure is newer than   *)
(* this build's; Streamline refuses counts above a limit of its own.       *)
(***************************************************************************)
EXTENDS Naturals

CONSTANTS Callers,   \* threads that call Streamline
          Requests,  \* options the game passes
          ForceMultiplier,  \* the configured multiplier, 0 for none
          Limits     \* the highest counts Streamline may accept

ASSUME FrameGenerationAssumption ==
    /\ Requests \subseteq [mode : {"off", "on", "auto", "dynamic"}, frames : Nat, newer : BOOLEAN]
    /\ ForceMultiplier \in Nat \ {1}
    /\ Limits \subseteq Nat

VARIABLES limit,    \* the highest count Streamline accepts
          frame_generation_on,  \* g_frame_generation_on
          applied,  \* the mode and count Streamline works with
          granted,  \* the request it was asked for
          request,  \* the request each thread is making
          step      \* where each thread is in HookSetOptions

fgVars == <<limit, frame_generation_on, applied, granted, request, step>>

Off == [mode |-> "off", frames |-> 0, newer |-> FALSE]
Own(r) == [mode |-> r.mode, frames |-> r.frames]

FgInit ==
    /\ limit \in Limits
    /\ frame_generation_on = FALSE
    /\ applied = Own(Off) /\ granted = Off
    /\ request = [t \in Callers |-> Off]
    /\ step = [t \in Callers |-> "idle"]

FgGoto(t, from, to) == step[t] = from /\ step' = [step EXCEPT ![t] = to]

\* Only the count of a request that asks for frame generation is forced, not one that
\* leaves the count to Streamline and not in a structure this build does not know.
Forces(r) == ForceMultiplier # 0 /\ r.mode \notin {"off", "dynamic"} /\ ~r.newer
Forced == [mode |-> "on", frames |-> ForceMultiplier - 1]
Sent(r) == IF Forces(r) THEN Forced ELSE Own(r)
Accepts(options) == options.mode = "off" \/ options.frames <= limit

\* Streamline's own slDLSSGSetOptions, given `options` for the request of t.
SetOptionsTo(t, options, otherwise) ==
    IF Accepts(options)
    THEN applied' = options /\ granted' = request[t] /\ FgGoto(t, step[t], "store")
    ELSE UNCHANGED <<applied, granted>> /\ FgGoto(t, step[t], otherwise)

\* The game calls HookSetOptions.
Ask(t) ==
    /\ FgGoto(t, "idle", "set")
    /\ \E r \in Requests : request' = [request EXCEPT ![t] = r]
    /\ UNCHANGED <<limit, frame_generation_on, applied, granted>>

NoReplay(t) == "refused"  \* a mutant of AfterRefusal
AfterRefusal(t) == IF Forces(request[t]) THEN "replay" ELSE "refused"

SetOptions(t) ==
    /\ step[t] = "set"
    /\ SetOptionsTo(t, Sent(request[t]), AfterRefusal(t))
    /\ UNCHANGED <<limit, frame_generation_on, request>>

\* The forced count was refused: the game's own request is made instead.
Replay(t) ==
    /\ step[t] = "replay"
    /\ SetOptionsTo(t, Own(request[t]), "refused")
    /\ UNCHANGED <<limit, frame_generation_on, request>>

\* eOk: the flag is the game's mode, whatever was sent.
StoreFlag(t) ==
    /\ FgGoto(t, "store", "idle")
    /\ frame_generation_on' = (request[t].mode # "off")
    /\ UNCHANGED <<limit, applied, granted, request>>

ReturnError(t) ==
    /\ FgGoto(t, "refused", "idle")
    /\ UNCHANGED <<limit, frame_generation_on, applied, granted, request>>

HookSetOptions(t) == SetOptions(t) \/ Replay(t) \/ StoreFlag(t) \/ ReturnError(t)

FgTypeOK ==
    /\ limit \in Limits
    /\ frame_generation_on \in BOOLEAN
    /\ applied \in [mode : {"off", "on", "auto", "dynamic"}, frames : Nat]
    /\ granted \in Requests \cup {Off}
    /\ request \in [Callers -> Requests \cup {Off}]
    /\ step \in [Callers -> {"idle", "set", "replay", "store", "refused"}]

\* How many frames are generated may be forced, never whether they are
\* (streamline.cpp:154): Streamline is off exactly when the game's last granted request was
\* to be.  Nor does forcing cost the game a request that Streamline would have granted as it
\* was made (streamline.cpp:196-197).
ForceKeepsRequest ==
    /\ applied.mode = "off" <=> granted.mode = "off"
    /\ \A t \in Callers : step[t] = "refused" => ~Accepts(Own(request[t]))
=============================================================================
