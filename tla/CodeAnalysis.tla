------------------------------ MODULE CodeAnalysis ------------------------------
(***************************************************************************)
(* Which machine code the engine rewrites, and as what: the multi-frame    *)
(* gates of a runtime (src/src/provider/multi_frame.cpp) and the stores of *)
(* the flip-metering flag and the frame clamp of a plugin                  *)
(* (src/src/streamline/plugin_patch.cpp), by the questions of              *)
(* src/src/core/x86.cpp.                                                   *)
(*                                                                         *)
(* Code is a sequence of instructions.  An instruction is what the         *)
(* questions can tell of it, its length included; one that none of them is *)
(* about is "other", and bytes that are no instruction are "bad".  Only    *)
(* one flaw of reading bytes is left out: a pattern found in the middle of *)
(* an instruction.                                                         *)
(***************************************************************************)
EXTENDS Integers, Sequences, FiniteSets, SequencesExt

CONSTANTS Parameters,  \* the names a runtime publishes, which begin with "DLSSG."
          kMaxGates,
          kInstructionsToPublication,
          kInstructionsAfterMarker,
          kInstructionsAfterModelVersion

kMultiFrameParameter == "DLSSG.MultiFrameCountMax"
kModelVersionParameter == "DLSSG.ModelVersion"
kFlipMeteringMarker == "FG1 DLL has been detected"
kMaxPlausibleFrameLimit == 8
kNvApiAda == 400        \* 0x190
kNvApiBlackwell == 432  \* 0x1B0

ASSUME CodeAnalysisAssumption ==
    {kInstructionsToPublication, kInstructionsAfterMarker, kInstructionsAfterModelVersion}
        \subseteq Nat

-----------------------------------------------------------------------------
(* Instructions, and what they are made of: `decides` says what a comparison is for, which
   no code of the engine can see. *)

Cmp(imm, eax, decides) ==
    [op |-> "cmp", imm |-> imm, length |-> IF eax THEN 5 ELSE 6, decides |-> decides]
Conditional(form, code) ==
    [op |-> form, condition |-> code, length |-> IF form = "jcc" THEN 2 ELSE 3]
Lea(text) == [op |-> "lea", to |-> text, length |-> 7]
Rex(base) == IF base >= 8 THEN 1 ELSE 0
StoreByte(base, displacement, value) ==
    [op |-> "store", field |-> [base |-> base, displacement |-> displacement],
     value |-> value, length |-> (IF displacement > 127 THEN 7 ELSE 4) + Rex(base)]
\* `rex` is one its source register needs.
StoreRegister(base, displacement, rex) ==
    [op |-> "register store", field |-> [base |-> base, displacement |-> displacement],
     length |-> IF rex THEN 7 ELSE 6 + Rex(base)]
Clamp(limit) == [op |-> "clamp", limit |-> limit, length |-> 10]
Plain(op) == [op |-> op, length |-> 2]  \* "ret", "jmp", "other", "bad"

Fields == [base : 0..15, displacement : Int]
Instructions ==
    [op : {"cmp"}, imm : Nat, length : {5, 6},
     decides : {"frame count", "request", "another capability"}]
    \cup [op : {"jcc", "setcc", "cmovcc"}, condition : 0..15, length : Nat]
    \cup [op : {"lea"}, to : STRING, length : Nat]
    \cup [op : {"store"}, field : Fields, value : 0..255, length : Nat]
    \cup [op : {"register store"}, field : Fields, length : Nat]
    \cup [op : {"clamp"}, limit : Nat, length : Nat]
    \cup [op : {"ret", "jmp", "other", "bad", "unclamped"}, length : Nat]

Decodes(code, i) == i \in DOMAIN code /\ code[i].op # "bad"

\* The instructions a loop of at most n decodes from the one at i onwards.
Window(code, i, n) == {j \in i..i+n-1 : \A k \in i..j : Decodes(code, k)}

IsReturnOrJump(instruction) == instruction.op \in {"ret", "jmp"}

\* The low nibble of the opcode: 2, 6, 12 and 14 are <, <=, < and <=, 4 is =, 0, 8 and 10 are
\* overflow, sign and parity, and an odd one negates the one before.
FromConditionCode(code) ==
    IF code \in {2, 3, 6, 7, 12, 13, 14, 15} THEN "Ordering"
    ELSE IF code \in {4, 5} THEN "Equality" ELSE "Other"

ConditionTested(code, i) ==
    IF Decodes(code, i) /\ code[i].op \in {"jcc", "setcc", "cmovcc"}
    THEN FromConditionCode(code[i].condition) ELSE "NotConditional"

\* The immediate form has no source register, and keeps only a prefix its base needs.
FitsInPlace(store) == 7 + Rex(store.field.base) = store.length

-----------------------------------------------------------------------------
(* A rewrite: the instruction it is in, what it becomes, and the bytes written, `size` of
   them from `offset`. *)

Rewrite(i, as, offset, size) == [at |-> i, as |-> as, offset |-> offset, size |-> size]

\* No two of them are in the same instruction.
Ordered(rewrites) ==
    [k \in 1..Cardinality(rewrites) |->
       CHOOSE r \in rewrites : Cardinality({s \in rewrites : s.at < r.at}) = k - 1]

(* Multi-frame gates *)

\* A mutant of PublishedParameter: any name nearby counts, not the first one.
AnyParameter(code, i) ==
    LET near == {j \in Window(code, i, kInstructionsToPublication) :
                   code[j].op = "lea" /\ code[j].to = kMultiFrameParameter}
    IN IF near = {} THEN "" ELSE kMultiFrameParameter

\* The first parameter whose name is loaded from i on.
PublishedParameter(code, i) ==
    LET near == {j \in Window(code, i, kInstructionsToPublication) :
                   code[j].op = "lea" /\ code[j].to \in Parameters}
    IN IF near = {} THEN "" ELSE code[Min(near)].to

FindMultiFrameGates(code) ==
    {[at |-> i,
      condition |-> ConditionTested(code, i + 1),
      publishes |-> PublishedParameter(code, i + 1)] :
        i \in {j \in DOMAIN code : code[j].op = "cmp" /\ code[j].imm = kNvApiBlackwell}}

\* A mutant of Unlocks: what publishes nothing is left alone.
OnlyPublished(gate) == gate.condition = "Ordering" /\ gate.publishes = kMultiFrameParameter
Unlocks(gate) ==
    gate.condition = "Ordering" /\ gate.publishes \in {"", kMultiFrameParameter}

\* The comparisons with eax, which are shorter, are found first.  The immediate is the last
\* four bytes of one.
UnlockMultiFrame(code) ==
    LET gates == FindMultiFrameGates(code)
        unlocked(length) == {gate \in gates : Unlocks(gate) /\ code[gate.at].length = length}
        rewrites(length) == {Rewrite(gate.at, [code[gate.at] EXCEPT !.imm = kNvApiAda],
                                     length - 4, 4) : gate \in unlocked(length)}
    IN IF Cardinality(gates) > kMaxGates THEN <<>> ELSE Ordered(rewrites(5)) \o Ordered(rewrites(6))

-----------------------------------------------------------------------------
(* Flip metering *)

FindReferences(code, text) == {i \in DOMAIN code : code[i].op = "lea" /\ code[i].to = text}

FallbackStores(code, reference) ==
    {i \in Window(code, reference, kInstructionsAfterMarker) :
       /\ code[i].op = "store" /\ code[i].value <= 1
       /\ code[i].field.displacement > 127}

\* The instructions from a reference to the model version up to a return or a jump.
StraightLine(code, reference) ==
    {i \in Window(code, reference, kInstructionsAfterModelVersion) :
       \A j \in reference..i : ~IsReturnOrJump(code[j])}

\* The first of sites[reference], of the lowest reference that has any.
FirstSite(sites) ==
    Min(sites[Min({reference \in DOMAIN sites : sites[reference] # {}})])
NoSite(sites) == \A reference \in DOMAIN sites : sites[reference] = {}

\* The flag's constant stores of the value that is not `off`, through any register.
StoresOfOn(code, displacement, off) ==
    Ordered({Rewrite(i, [code[i] EXCEPT !.value = off], code[i].length - 1, 1) :
               i \in {j \in DOMAIN code :
                        /\ code[j].op = "store"
                        /\ code[j].field.displacement = displacement
                        /\ code[j].value = 1 - off}})

AnalyzeModelVersionStore(code, flag, off) ==
    LET stores == [reference \in FindReferences(code, kModelVersionParameter) |->
                     {i \in StraightLine(code, reference) :
                        code[i].op \in {"store", "register store"} /\ code[i].field = flag}]
        found == FirstSite(stores)
    IN IF NoSite(stores) THEN [model_version_store |-> "absent", rewrites |-> <<>>]
       ELSE IF code[found].op = "store"
            THEN [model_version_store |-> "constant", rewrites |-> <<>>]
       ELSE IF ~FitsInPlace(code[found])
            THEN [model_version_store |-> "unfit", rewrites |-> <<>>]
       ELSE [model_version_store |-> "register",
             rewrites |-> <<Rewrite(found, StoreByte(flag.base, flag.displacement, off), 0,
                                    code[found].length)>>]

NoFlipMetering == [found |-> FALSE]

\* `forced` is FlipMeteringValue; a negative one leaves the off value the plugin's own.
AnalyzeFlipMetering(code, forced) ==
    LET stores == [reference \in FindReferences(code, kFlipMeteringMarker) |->
                     FallbackStores(code, reference)]
        fallback == code[FirstSite(stores)]
        off == IF forced >= 0 THEN forced ELSE fallback.value
        store == AnalyzeModelVersionStore(code, fallback.field, off)
    IN IF NoSite(stores) THEN NoFlipMetering
       ELSE [found |-> TRUE, flag |-> fallback.field, off_value |-> off,
             model_version_store |-> store.model_version_store,
             rewrites |-> StoresOfOn(code, fallback.field.displacement, off) \o store.rewrites]

\* The clamp that is the only one, of a plausible limit; its cmovb is the last three bytes.
AnalyzeFrameClamp(code) ==
    LET matches == {i \in DOMAIN code : code[i].op = "clamp"} IN
    IF Cardinality(matches) = 1
       /\ code[Min(matches)].limit \in 1..kMaxPlausibleFrameLimit
    THEN <<Rewrite(Min(matches), [op |-> "unclamped", length |-> 10], 7, 3)>> ELSE <<>>
=============================================================================
