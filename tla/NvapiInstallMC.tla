---------------------------- MODULE NvapiInstallMC ----------------------------
(* A small machine and a few interfaces for NvapiInstall.  The modules are the game's own  *)
(* runtime and the one RuntimeFile names.                                                  *)
EXTENDS NvapiInstall, TLC

CONSTANTS runtime, redirected, t1, t2, gpu1, gpu2

MCName == runtime :> "nvngx_dlssg.dll"
MCImpl == gpu1 :> 4 @@ gpu2 :> 0
WithTuring == gpu1 :> "Ampere" @@ gpu2 :> "Turing"
MCInterfaces == <<"GetArchInfo", "SetRawScgPriority", "CreateCuModule">>

Plain(name) == [dir |-> "", leaf |-> name]
DefaultCallers == {Plain("sl.common.dll"), Plain("_nvngx.dll"), Plain("nvngx_dlssg.dll")}

MCConfigurations ==
    [spoof_callers : {DefaultCallers}, redirect_runtime : {TRUE},
     runtime_file : {Plain("opendlssg_nvngx_dlssg.dll")},
     spoof_arch_to_game : BOOLEAN, stub_scg_priority : {TRUE}]

Interchangeable == Permutations({t1, t2})
=============================================================================
