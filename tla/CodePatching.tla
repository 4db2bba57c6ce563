------------------------------ MODULE CodePatching ------------------------------
(***************************************************************************)
(* The rewriting of a runtime's gates and of a plugin's stores             *)
(* (UnlockMultiFrame in src/src/provider/multi_frame.cpp, PatchPlugin in   *)
(* src/src/streamline/plugin_patch.cpp, and the two ways of writing code   *)
(* in src/src/core/pe.cpp), instruction by instruction.  Unless the engine *)
(* is in the image's load, another thread may fetch any instruction at any *)
(* time.  RuntimeLoading and PluginLoading say who rewrites an image, and  *)
(* when; here it is claimed and pinned.                                    *)
(***************************************************************************)
EXTENDS CodeAnalysis

CONSTANTS Images,         \* [kind, code, address, forced]
          Architectures   \* those a runtime is told

\* No GPU's id is between those of Ada and Blackwell.
ASSUME CodePatchingAssumption ==
    /\ Images \subseteq [kind : {"runtime", "plugin"}, code : Seq(Instructions), address : Nat,
                        forced : {-1, 0, 1}]
    /\ {kNvApiAda, kNvApiBlackwell} \subseteq Architectures /\ Architectures \subseteq Nat
    /\ Architectures \cap kNvApiAda..kNvApiBlackwell = {kNvApiAda, kNvApiBlackwell}

VARIABLES image,    \* what is loaded, as it was built
          at_load,  \* the engine is in the image's load
          code,     \* the image's code
          todo,     \* the rewrites left to do
          written,  \* the instructions rewritten
          torn,     \* the instruction some of whose bytes are old and some new, or 0
          stage,    \* "loaded", "writing" or "reported"
          report    \* the level of the summary line

vars == <<image, at_load, code, todo, written, torn, stage, report>>

Init ==
    /\ image \in Images
    /\ at_load \in BOOLEAN
    /\ code = image.code
    /\ todo = <<>> /\ written = {} /\ torn = 0
    /\ stage = "loaded" /\ report = "none"

-----------------------------------------------------------------------------
Rewrites ==
    IF image.kind = "runtime" THEN UnlockMultiFrame(image.code)
    ELSE LET flip == AnalyzeFlipMetering(image.code, image.forced) IN
         IF flip.found THEN flip.rewrites ELSE <<>>

\* UnlockMultiFrame and PatchPlugin look for what to rewrite.
Analyze ==
    /\ stage = "loaded" /\ stage' = "writing"
    /\ todo' = Rewrites
    /\ UNCHANGED <<image, at_load, code, written, torn, report>>

Address(i) == FoldLeft(LAMBDA a, instruction : a + instruction.length,
                       image.address, SubSeq(image.code, 1, i - 1))

DifferingBytes(m, n) == Cardinality({k \in {1, 256, 65536} : (m \div k) % 256 # (n \div k) % 256})

\* How many bytes a rewrite changes; the re-encoded store and the no-op change several.
Changes(r) ==
    IF image.code[r.at].op = "cmp" THEN DifferingBytes(image.code[r.at].imm, r.as.imm)
    ELSE r.size

\* Gates are always written by PatchCode; WritePatch chooses for a plugin.
WithPatchCode == image.kind = "runtime" \/ at_load

InOneWord(r) == ((Address(r.at) + r.offset) % 8) + r.size <= 8

\* A mutant of MayWrite: whatever there is to write is written.
Always(r) == TRUE
MayWrite(r) == WithPatchCode \/ InOneWord(r)

\* Nothing can be fetched between the old bytes and the new ones.
AtOnce(r) == Changes(r) <= 1 \/ (~WithPatchCode /\ InOneWord(r))

Written(r) ==
    /\ code' = [code EXCEPT ![r.at] = r.as]
    /\ written' = written \cup {r.at}
    /\ todo' = Tail(todo)
    /\ torn' = 0

\* PatchCode or PatchRunningCode on the next rewrite.
Patch ==
    /\ todo # <<>> /\ torn = 0
    /\ LET r == Head(todo) IN
         \/ MayWrite(r) /\ AtOnce(r) /\ Written(r)
         \/ MayWrite(r) /\ ~AtOnce(r) /\ torn' = r.at /\ UNCHANGED <<code, todo, written>>
    /\ UNCHANGED <<image, at_load, stage, report>>

\* memcpy comes to its end.
FinishPatch ==
    /\ torn # 0
    /\ Written(Head(todo))
    /\ UNCHANGED <<image, at_load, stage, report>>

\* The rewrite does not fit in one word, or VirtualProtect fails: it is skipped.
SkipPatch ==
    /\ todo # <<>> /\ torn = 0
    /\ todo' = Tail(todo)
    /\ UNCHANGED <<image, at_load, code, written, torn, stage, report>>

\* A mutant of Complete: something was rewritten.
SomeWritten(rewrites) == rewrites # <<>> /\ written # {}
Complete(rewrites) ==
    /\ rewrites # <<>>
    /\ written = {rewrites[k].at : k \in DOMAIN rewrites}
    /\ image.kind = "plugin" =>
         AnalyzeFlipMetering(image.code, image.forced).model_version_store # "unfit"

\* multi_frame_unlocked or flip_metering_forced; a plugin's frame clamp comes after it.
Report ==
    /\ stage = "writing" /\ stage' = "reported"
    /\ todo = <<>>
    /\ report' = IF Complete(Rewrites) THEN "info" ELSE "warning"
    /\ todo' = IF image.kind = "plugin" THEN AnalyzeFrameClamp(image.code) ELSE <<>>
    /\ UNCHANGED <<image, at_load, code, written, torn>>

Next == Analyze \/ Patch \/ FinishPatch \/ SkipPatch \/ Report

Spec == Init /\ [][Next]_vars
-----------------------------------------------------------------------------
(* What the runtime's comparisons answer, independently of how gates are found. *)

Holds(condition, a, b) ==
    LET test == condition - (condition % 2)
        holds == CASE test \in {2, 8, 12} -> a < b
                   [] test = 4 -> a = b
                   [] test \in {6, 14} -> a <= b
                   [] OTHER -> FALSE
    IN IF test = condition THEN holds ELSE ~holds

\* A comparison with the instruction that reads it directly behind.
Comparisons ==
    {i \in DOMAIN image.code :
       image.code[i].op = "cmp" /\ ConditionTested(image.code, i + 1) # "NotConditional"}

Answer(c, i, architecture) == Holds(c[i + 1].condition, architecture, c[i].imm)
Reader(i) == image.code[i + 1].condition
AtOrAbove == {2, 3, 12, 13}

\* The comparison at i publishes a parameter: its name is the first one that is loaded within
\* the instructions after it.
Publishes(c, i, name) ==
    \E last \in i + 1..i + kInstructionsToPublication :
        /\ \A j \in i + 1..last : Decodes(c, j)
        /\ c[last].op = "lea" /\ c[last].to = name
        /\ \A j \in i + 1..last - 1 : c[j].op = "lea" => c[j].to \notin Parameters

\* What the builds are like.  A comparison that asks for an architecture at least as new as
\* Blackwell publishes the capability it decides, another one than the frame count always;
\* and a byte that is a boolean is one wherever it is stored (multi_frame.h:32-34,
\* multi_frame.cpp:33-35, plugin_patch.cpp:110-113).
ASSUME BuildsAssumption ==
    \A built \in Images :
        LET c == built.code IN
        /\ \A i \in DOMAIN c :
             built.kind = "runtime" /\ c[i].op = "cmp" /\ c[i].imm = kNvApiBlackwell
             /\ ConditionTested(c, i + 1) = "Ordering" =>
                 /\ c[i].decides = "frame count" =>
                      \A name \in Parameters : Publishes(c, i, name) => name = kMultiFrameParameter
                 /\ c[i].decides = "another capability" =>
                      \E name \in Parameters \ {kMultiFrameParameter, ""} : Publishes(c, i, name)
        /\ \A i, j \in DOMAIN c :
             c[i].op = "store" /\ c[j].op = "store" /\ c[i].field = c[j].field
             /\ c[i].value <= 1 => c[j].value <= 1

\* Types of the variables.
TypeOK ==
    /\ image \in Images /\ at_load \in BOOLEAN
    /\ DOMAIN code = DOMAIN image.code
    /\ written \subseteq DOMAIN code /\ torn \in {0} \cup DOMAIN code
    /\ stage \in {"loaded", "writing", "reported"}
    /\ report \in {"none", "info", "warning"}

\* Whatever is rewritten, before, between and after the writes: a comparison that asks for
\* one architecture, or decides another capability than the frame count, answers every
\* architecture as it did (multi_frame.h:24-34).
OtherAnswersStay ==
    image.kind = "runtime" =>
        \A i \in Comparisons, a \in Architectures :
            Reader(i) \in {4, 5} \/ image.code[i].decides = "another capability" =>
                Answer(code, i, a) = Answer(image.code, i, a)

\* Once multi_frame_unlocked has been logged without a warning, a floor the frame count is
\* published from takes Ada for Blackwell, and every other architecture as before
\* (multi_frame.h:14-18).
AdaCountsAsBlackwell ==
    image.kind = "runtime" /\ report = "info" =>
        \A i \in Comparisons, a \in Architectures :
            /\ image.code[i].decides = "frame count" /\ Reader(i) \in AtOrAbove
            /\ image.code[i].imm = kNvApiBlackwell
            => Answer(code, i, a) =
                 Answer(image.code, i, IF a = kNvApiAda THEN kNvApiBlackwell ELSE a)

\* The first store to the flag that follows a reference to the model version, in the code up
\* to the next return or jump, of the first such reference.
ModelVersionStores(flag) ==
    LET follows(r, i) ==
          /\ i \in r..r + kInstructionsAfterModelVersion - 1
          /\ code[i].op \in {"store", "register store"} /\ code[i].field = flag
          /\ \A j \in r..i : code[j].op \notin {"ret", "jmp", "bad"}
        pairs == {p \in FindReferences(image.code, kModelVersionParameter) \X DOMAIN code :
                    follows(p[1], p[2])}
    IN {p[2] : p \in {q \in pairs : \A o \in pairs : q[1] <= o[1] /\ (q[1] = o[1] => q[2] <= o[2])}}

\* Once flip_metering_forced has been logged without a warning, no constant store can turn
\* hardware metering on, through whatever register, and the store after the model-version
\* check stores the off value (ARCHITECTURE.md:305, plugin_patch.cpp:244).
InfoMeansOff ==
    image.kind = "plugin" /\ report = "info" =>
        LET flip == AnalyzeFlipMetering(image.code, image.forced) IN
        /\ \A i \in DOMAIN code :
             code[i].op = "store" /\ code[i].field.displacement = flip.flag.displacement =>
                 code[i].value # 1 - flip.off_value
        /\ \A i \in ModelVersionStores(flip.flag) :
             code[i].op = "store" /\ code[i].value = flip.off_value

\* A thread never fetches an instruction that is partly the old and partly the new one
\* (pe.h:25-28), although gates are moved byte by byte in a runtime that runs.
NeverTorn == torn # 0 => at_load
=============================================================================
