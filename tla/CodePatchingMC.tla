----------------------------- MODULE CodePatchingMC -----------------------------
(* Images for CodePatching: runtimes made of blocks, plugins made of instructions. *)
EXTENDS CodePatching

ReflexWarp == "DLSSG.ReflexWarp.Available"
MCParameters == {kMultiFrameParameter, ReflexWarp, kModelVersionParameter}
MCArchitectures == {352, 368, kNvApiAda, kNvApiBlackwell}  \* Turing and Ampere too

Other == Plain("other")
Compared(decides) == Cmp(kNvApiBlackwell, TRUE, decides)

\* What a runtime compares the architecture for: a comparison, the instruction that reads it,
\* and what is published of it.
Blocks ==
    {<<Compared("frame count"), Conditional("setcc", 3), Lea(kMultiFrameParameter)>>,
     <<Compared("frame count"), Conditional("cmovcc", 12), Other, Other, Other, Other,
       Lea(kMultiFrameParameter)>>,
     <<Cmp(kNvApiBlackwell, FALSE, "request"), Conditional("jcc", 12), Other>>,
     <<Compared("frame count"), Other, Conditional("cmovcc", 12), Lea(kMultiFrameParameter)>>,
     <<Compared("frame count"), Conditional("jcc", 7), Lea(kMultiFrameParameter)>>,
     <<Compared("another capability"), Conditional("jcc", 2), Lea(ReflexWarp)>>,
     <<Compared("another capability"), Conditional("setcc", 13), Other, Lea(ReflexWarp)>>,
     <<Compared("another capability"), Conditional("setcc", 4), Lea(kMultiFrameParameter)>>,
     <<Compared("another capability"), Conditional("jcc", 8), Plain("bad")>>,
     <<Cmp(kNvApiAda, TRUE, "another capability"), Conditional("jcc", 12)>>}

Runtimes ==
    {[kind |-> "runtime", code |-> FlattenSeq(blocks), address |-> address, forced |-> -1] :
        blocks \in UNION {[1..n -> Blocks] : n \in 1..3}, address \in {5}}

\* How a plugin begins: a fallback that stores one value or the other, after something else
\* or not at all.
Beginnings ==
    {<<Lea(kFlipMeteringMarker), StoreByte(3, 300, 0)>>,
     <<Lea(kFlipMeteringMarker), Other, StoreByte(3, 100, 0), StoreByte(3, 300, 1)>>,
     <<Lea(kFlipMeteringMarker), StoreByte(11, 300, 1)>>,
     <<StoreByte(3, 300, 1), Lea(kFlipMeteringMarker), Plain("bad")>>}

Pieces ==
    {Lea(kFlipMeteringMarker), Lea(kModelVersionParameter), Plain("ret"), Other,
     StoreByte(3, 300, 0), StoreByte(3, 300, 1), StoreByte(6, 300, 1), StoreByte(3, 301, 1),
     StoreRegister(3, 300, TRUE), StoreRegister(3, 300, FALSE), StoreRegister(11, 300, TRUE),
     Clamp(3), Clamp(9)}

Plugins ==
    {[kind |-> "plugin", code |-> beginning \o rest, address |-> address, forced |-> forced] :
        beginning \in Beginnings, rest \in [1..3 -> Pieces],
        address \in {0, 4}, forced \in {-1, 1}}

MCImages == Runtimes \cup Plugins
=============================================================================
