------------------------------ MODULE Interposer ------------------------------
(***************************************************************************)
(* The hooks of Streamline's interposer                                    *)
(* (src/src/streamline/streamline.cpp): the worker installs them one by    *)
(* one while the game already calls the exports, any of which may be       *)
(* missing or fail to be hooked.  slGetFeatureFunction hands out the       *)
(* wrapper FrameGeneration is about; slIsFeatureSupported and              *)
(* slIsFeatureLoaded report answers as AnswerTable says.                   *)
(***************************************************************************)
EXTENDS AnswerTable, Sequences

CONSTANTS Exports,         \* in the order they are hooked; questions are exports
          GetFunction,     \* the one that hands out functions
          Functions,       \* slDLSSGSetOptions of the plugin, each time it is loaded
          HookSetOptions,  \* the engine's wrapper
          Nothing          \* no function

ASSUME InterposerAssumption ==
    /\ HookSetOptions \notin Functions
    /\ Nothing \notin Functions \cup {HookSetOptions}

VARIABLES turn,         \* the export InstallInterposerHooks has come to
          hooked,       \* the exports whose hooks are live
          loaded,       \* the function of the plugin that is loaded
          set_options,  \* g_set_options
          held,         \* what the game calls as slDLSSGSetOptions
          resolved      \* what slGetFeatureFunction has answered each thread so far

hookVars == <<turn, hooked, loaded, set_options, held, resolved>>
allVars == <<vars, hookVars>>

InterposerInit ==
    /\ Init
    /\ turn = 1 /\ hooked = {}
    /\ loaded \in Functions
    /\ set_options = Nothing /\ held = Nothing
    /\ resolved = [t \in Threads |-> Nothing]

Idle(t) == pc[t] = "idle" /\ resolved[t] = Nothing

-----------------------------------------------------------------------------
\* One InstallExport of InstallInterposerHooks, which stands alone.
InstallExport ==
    /\ turn <= Len(Exports)
    /\ \E installed \in BOOLEAN :
         hooked' = IF installed THEN hooked \cup {Exports[turn]} ELSE hooked
    /\ turn' = turn + 1
    /\ UNCHANGED <<vars, loaded, set_options, held, resolved>>

\* The game asks a question whose hook is live.
AskHooked(t, query) ==
    /\ Idle(t) /\ query.question \in hooked
    /\ Ask(t, query)
    /\ UNCHANGED hookVars

AnswerQuestion(t) ==
    /\ Load(t) \/ Claim(t) \/ Exchange(t) \/ Answered(t)
    /\ UNCHANGED hookVars

-----------------------------------------------------------------------------
\* Streamline's slGetFeatureFunction, or a tool in front of it that remembers what the game
\* was given last.
Answer(t) == {loaded} \cup ({held} \cap {HookSetOptions})

GetFeatureFunction(t) ==
    /\ Idle(t)
    /\ \E function \in Answer(t) :
         IF GetFunction \in hooked
         THEN resolved' = [resolved EXCEPT ![t] = function] /\ UNCHANGED held
         ELSE held' = function /\ UNCHANGED resolved
    /\ UNCHANGED <<vars, turn, hooked, loaded, set_options>>

KeptFirst(function) == IF set_options = Nothing THEN function ELSE set_options  \* a mutant
Kept(function) == function  \* what g_set_options is set to

\* The hook keeps Streamline's function, and the answer becomes the wrapper.
KeepFunction(t) ==
    /\ resolved[t] \in Functions
    /\ set_options' = Kept(resolved[t])
    /\ resolved' = [resolved EXCEPT ![t] = HookSetOptions]
    /\ UNCHANGED <<vars, turn, hooked, loaded, held>>

ReturnWrapper(t) ==
    /\ resolved[t] = HookSetOptions
    /\ held' = HookSetOptions
    /\ resolved' = [resolved EXCEPT ![t] = Nothing]
    /\ UNCHANGED <<vars, turn, hooked, loaded, set_options>>

\* The game unloads the plugin and loads it again, and drops what it held of it.
SetFeatureLoaded ==
    /\ \A t \in Threads : resolved[t] = Nothing
    /\ loaded' \in Functions \ {loaded}
    /\ held' = Nothing
    /\ UNCHANGED <<vars, turn, hooked, set_options, resolved>>

InterposerNext ==
    \/ InstallExport \/ SetFeatureLoaded
    \/ \E t \in Threads :
         \/ \E query \in Query : AskHooked(t, query)
         \/ AnswerQuestion(t)
         \/ GetFeatureFunction(t) \/ KeepFunction(t) \/ ReturnWrapper(t)

InterposerSpec == InterposerInit /\ [][InterposerNext]_allVars
-----------------------------------------------------------------------------
\* Types of the variables.
InterposerTypeOK ==
    /\ TypeOK
    /\ turn \in 1..Len(Exports) + 1
    /\ hooked \subseteq {Exports[k] : k \in 1..turn - 1}
    /\ loaded \in Functions
    /\ set_options \in Functions \cup {Nothing}
    /\ held \in Functions \cup {HookSetOptions, Nothing}
    /\ resolved \in [Threads -> Functions \cup {HookSetOptions, Nothing}]

\* Whoever resolved it, and however often the plugin was loaded: where the game holds the
\* wrapper, a call of it reaches the function of the plugin that is loaded, not nothing, an
\* older one or the wrapper itself (streamline.cpp:150-152, 243-247).
WrapperReachesPlugin == held = HookSetOptions => set_options = loaded
=============================================================================
