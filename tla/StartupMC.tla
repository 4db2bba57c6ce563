------------------------------- MODULE StartupMC -------------------------------
(* Files and texts for Startup.  Number and Items list every text a file here holds. *)
EXTENDS Startup

MCNumber ==
    "-1" :> -1 @@ "0" :> 0 @@ "1" :> 1 @@ "2" :> 2 @@ "4" :> 4 @@ "6" :> 6 @@ "7" :> 7
    @@ "49" :> 49 @@ "50" :> 50 @@ "201" :> 201
MCItems == "none" :> <<"none">> @@ "a.dll" :> <<"a.dll">> @@ "a.dll, none" :> <<"a.dll", "none">>

\* One value of one key, in its section.
One(section, key, value) == <<Section(section), Pair(key, value)>>

\* An empty file; one that disables the engine; texts that mean something and texts that
\* do not, with every reader; the same where nothing can be reported; and a key outside its
\* section, twice in it, and in a section that is opened again.
MCFiles ==
    {<<>>, One("general", "enabled", "off"),
     One("framegeneration", "forcemultiplier", "4") \o One("kernels", "targetsm", "49")
     \o One("compatibility", "flipmeteringvalue", "2") \o One("runtime", "mode", "bundled"),
     One("framegeneration", "forcemultiplier", "many") \o One("kernels", "targetsm", "50")
     \o One("compatibility", "spoofcallers", "a.dll, none") \o One("runtime", "mode", ""),
     One("framegeneration", "forcemultiplier", "7") \o One("logging", "level", "0"),
     <<Pair("enabled", "0"), Section("framegeneration"), Pair("multiframe", "no"), Comment,
       Pair("multiframe", "2"), Section("general"), Section("framegeneration"),
       Pair("forcemultiplier", "6"), Pair("", "1")>>}

MCFolders ==
    [name : {"winmm.dll"}, lines : MCFiles] \cup [name : {"renamed.dll"}, lines : {<<>>}]

Interchangeable == Permutations(Processes) \cup Permutations(Pids)
=============================================================================
