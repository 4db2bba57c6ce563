---------------------------- MODULE KernelCreationMC ----------------------------
(* One Ampere GPU, the game's runtime, and the one RuntimeFile names, with one *)
(* blob of every shape the code tells apart.                                   *)
EXTENDS KernelCreation, TLC

CONSTANTS game, bundled, t1, t2, gpu,
          native,   \* a cubin with a twin for this GPU in either build
          packed,   \* a cubin that came out of the container `two`
          mixed,    \* a cubin that came out of the container `runs`
          orphan,   \* a cubin of which the runtime holds nothing else
          old,      \* a cubin this GPU can run
          two,      \* a container with PTX for Ada and Blackwell, same interface
          other_if, \* the same with another interface for Blackwell
          runs,     \* a container that holds a build for this GPU as well
          broken,   \* a container whose closest PTX does not decompress
          text,     \* PTX text for Ada
          probe     \* nothing this code recognises

MCModules == {game, bundled}
MCName == game :> "nvngx_dlssg.dll"
MCArch == gpu :> "Ampere"
GA102 == gpu :> 2

Settings(enabled, multi, sm) ==
    [spoof_callers : {{}}, redirect_runtime : {TRUE},
     runtime_file : {[dir |-> "", leaf |-> "bundled.dll"]},
     spoof_arch_to_game : {TRUE}, stub_scg_priority : {TRUE},
     retarget_kernels : enabled, multi_frame : multi, target_sm : sm]

\* SpoofCallers lists both runtimes: the configured list names the game's.
MCSettings == {[s EXCEPT !.spoof_callers = {[dir |-> "", leaf |-> "nvngx_dlssg.dll"]}] :
                  s \in Settings(BOOLEAN, BOOLEAN, {0})}

Ptx(arch, interface, readable) ==
    [ptx |-> TRUE, arch |-> arch, interface |-> interface, readable |-> readable,
     directive |-> TRUE]
Sass(arch) ==
    [ptx |-> FALSE, arch |-> arch, interface |-> "", readable |-> TRUE, directive |-> FALSE]

Neither == [p \in MCModules |-> {}]
Nowhere == [p \in MCModules |-> NoBlob]
A(maker, kind, arch, images, twins, container) ==
    [maker |-> maker, kind |-> kind, arch |-> arch, images |-> images,
     twins |-> twins, container |-> container]
Container(maker, images) == A(maker, "container", 0, images, Neither, Nowhere)

AllShapes ==
    native :> A(game, "cubin", 89, {}, [Neither EXCEPT ![game] = {86, 89}, ![bundled] = {86}],
                Nowhere) @@
    packed :> A(bundled, "cubin", 89, {}, Neither, [Nowhere EXCEPT ![bundled] = two]) @@
    mixed :> A(game, "cubin", 89, {}, Neither, [Nowhere EXCEPT ![game] = runs]) @@
    orphan :> A(game, "cubin", 120, {}, Neither, Nowhere) @@
    old :> A(game, "cubin", 80, {}, Neither, Nowhere) @@
    two :> Container(bundled, {Ptx(89, "one", TRUE), Ptx(120, "one", TRUE), Sass(89)}) @@
    other_if :> Container(game, {Ptx(89, "one", TRUE), Ptx(100, "one", FALSE),
                                 Ptx(120, "two", TRUE)}) @@
    runs :> Container(game, {Ptx(89, "one", TRUE), Sass(86), Sass(89)}) @@
    broken :> Container(game, {Ptx(89, "one", FALSE), Ptx(120, "one", TRUE)}) @@
    text :> A(game, "text", 89, {}, Neither, Nowhere) @@
    probe :> A(game, "other", 0, {}, Neither, Nowhere)

MCBlobs == DOMAIN AllShapes

Interchangeable == Permutations({t1, t2})
=============================================================================
