-------------------------------- MODULE Startup --------------------------------
(***************************************************************************)
(* The engine's start in every process that loads the proxy DLL from one   *)
(* game folder (src/src/dllmain.cpp, src/src/app/runtime.cpp,              *)
(* src/src/core/log.cpp): games, their launchers and crash reporters,      *)
(* which come and go, and share opendlssg.ini and the log directory.       *)
(*                                                                         *)
(* DllMain runs under the loader lock, so the game cannot free the DLL     *)
(* within it, and the thread it creates starts after it has returned.  A   *)
(* log file belongs to a process id; the files are kept in the order of    *)
(* their last writes, newest first.  Windows refuses to delete a file that *)
(* a process has open as the log does, without FILE_SHARE_DELETE.          *)
(***************************************************************************)
EXTENDS Settings, FiniteSets

CONSTANTS Processes, Pids, NoPid,
          Folders,    \* the name the DLL may have, and what opendlssg.ini may hold
          RealDll,    \* the system DLL it stands in for
          kKeptLogs

ASSUME StartupAssumption ==
    /\ IsFiniteSet(Processes) /\ IsFiniteSet(Pids)
    /\ NoPid \notin Pids
    /\ kKeptLogs \in Nat \ {0}

ASSUME FoldersAssumption == Folders \subseteq [name : STRING, lines : Seq(Lines)]

VARIABLES folder,  \* the game folder
          logs,    \* the files of the log directory
          proc     \* the engine in each process, see Fresh

vars == <<folder, logs, proc>>

Stages == {"absent", "thread", "inert", "list", "prune", "report", "disabled", "apply", "run"}

\* A process that has not loaded the DLL.
Fresh ==
    [stage |-> "absent",
     pid |-> NoPid,
     held |-> FALSE,      \* the game holds a reference on the DLL
     pinned |-> FALSE,    \* DllMain has pinned it
     bound |-> FALSE,     \* the forwarded exports lead to the system DLL
     log |-> NoPid,       \* g_file
     doomed |-> <<>>,     \* the files PruneOldLogs has found and will delete
     alone |-> FALSE,     \* no other process has run since it found them
     newest |-> <<>>,     \* if so, those written last then
     reported |-> {},     \* the settings named in config_value_rejected lines
     redirect |-> FALSE]  \* the runtime redirect is configured

Init == folder \in Folders /\ logs = <<>> /\ proc = [p \in Processes |-> Fresh]

settings == FromIni(Load(folder.lines))
Setting(f) == settings[f].value
Rejected == {f \in DOMAIN settings : settings[f].rejected}

Running(p) == proc[p].stage # "absent"
Step(p, from, to) == proc[p].stage = from /\ proc' = [proc EXCEPT ![p] = to]

-----------------------------------------------------------------------------
(* DllMain and the game's loader. *)

NotPinned == FALSE  \* a mutant of Pinned: pinning is left to a later time
Pinned == TRUE

\* A DLL named otherwise than the one it stands in for forwards nothing.  The system DLL is
\* taken to be there, with every export.
BindActive == folder.name = RealDll

\* The game loads the DLL.  Without its thread, the engine only forwards.
DllMain(p) ==
    /\ ~Running(p)
    /\ \E id \in Pids \ {proc[q].pid : q \in Processes},
          next \in {"thread", "inert"} :
         proc' = [q \in Processes |->
                    IF q = p
                    THEN [Fresh EXCEPT !.stage = next, !.pid = id, !.held = TRUE,
                                       !.pinned = Pinned, !.bound = BindActive]
                    ELSE [proc[q] EXCEPT !.alone = FALSE, !.newest = <<>>]]
    /\ UNCHANGED <<folder, logs>>

FreeLibrary(p) ==
    /\ proc[p].held
    /\ proc' = [proc EXCEPT ![p].held = FALSE]
    /\ UNCHANGED <<folder, logs>>

\* The process ends or crashes; what it has written stays.
Exit(p) ==
    /\ Running(p)
    /\ proc' = [proc EXCEPT ![p] = Fresh]
    /\ UNCHANGED <<folder, logs>>

-----------------------------------------------------------------------------
(* Initialize: the settings, then the log. *)

Initialize(p) ==
    /\ Step(p, "thread", [proc[p] EXCEPT !.stage =
                              IF Setting("log_level") = 0 THEN "report" ELSE "list"])
    /\ UNCHANGED <<folder, logs>>

\* Mutants of Sorted and FirstOld: the oldest files come first; no slot is left for the
\* file about to be opened.
OldestFirst(files) == Reverse(files)
NoSlotLeft == kKeptLogs + 1

Sorted(files) == files
FirstOld == kKeptLogs

Alone(p) == \A q \in Processes \ {p} : ~Running(q)
Newest == SubSeq(logs, 1, Min({kKeptLogs - 1, Len(logs)}))

ListLogs(p) ==
    /\ Step(p, "list", [proc[p] EXCEPT
                            !.stage = "prune",
                            !.doomed = SubSeq(Sorted(logs), FirstOld, Len(logs)),
                            !.alone = Alone(p),
                            !.newest = IF Alone(p) THEN Newest ELSE <<>>])
    /\ UNCHANGED <<folder, logs>>

OpenFiles == {proc[q].log : q \in Processes}

\* DeleteFileW on one of the listed files, which may be gone, or open, by now.
DeleteOldLog(p) ==
    /\ proc[p].doomed # <<>>
    /\ Step(p, "prune", [proc[p] EXCEPT !.doomed = Tail(@)])
    /\ LET file == Head(proc[p].doomed)
       IN logs' = IF file \in OpenFiles THEN logs ELSE RemoveFirst(logs, file)
    /\ UNCHANGED folder

\* The file of a process id is appended to, or made.  It may not be writable.
OpenLog(p) ==
    /\ proc[p].doomed = <<>>
    /\ \/ /\ Step(p, "prune", [proc[p] EXCEPT !.stage = "report", !.log = proc[p].pid])
          /\ logs' = IF Contains(logs, proc[p].pid) THEN logs ELSE <<proc[p].pid>> \o logs
       \/ Step(p, "prune", [proc[p] EXCEPT !.stage = "report"]) /\ UNCHANGED logs
    /\ UNCHANGED folder

\* A line in a log makes it the one written last.
Touched(p) ==
    IF proc[p].log = NoPid THEN logs
    ELSE <<proc[p].log>> \o RemoveFirst(logs, proc[p].log)

AfterReport == IF Setting("enabled") THEN "apply" ELSE "disabled"

\* The headers and the rejected values, all of which every level writes.
ReportSettings(p) ==
    /\ Step(p, "report", [proc[p] EXCEPT
                              !.stage = AfterReport, !.alone = FALSE, !.newest = <<>>,
                              !.reported = IF proc[p].log = NoPid THEN {} ELSE Rejected])
    /\ logs' = Touched(p)
    /\ UNCHANGED folder

-----------------------------------------------------------------------------
(* Initialize: the subsystems. *)

\* ApplySettings hands every subsystem what it needs; only then does loader::Start hook
\* LoadLibraryExW and create the worker.  The redirect is left out when there is no such file.
StartEngine(p) ==
    /\ \E exists \in BOOLEAN :
         Step(p, "apply", [proc[p] EXCEPT
                              !.stage = "run",
                              !.redirect = Setting("redirect_runtime") /\ exists])
    /\ UNCHANGED <<folder, logs>>

\* What the hooks and the worker have to say.
WriteEvent(p) ==
    /\ proc[p].stage = "run" /\ proc[p].log # NoPid
    /\ logs' = Touched(p)
    /\ UNCHANGED <<folder, proc>>

Next ==
    \E p \in Processes :
        \/ DllMain(p) \/ FreeLibrary(p) \/ Exit(p)
        \/ Initialize(p) \/ ListLogs(p) \/ DeleteOldLog(p) \/ OpenLog(p) \/ ReportSettings(p)
        \/ StartEngine(p) \/ WriteEvent(p)

Spec == Init /\ [][Next]_vars
-----------------------------------------------------------------------------
\* Types of the variables.
Processing ==
    [stage : Stages, pid : Pids \cup {NoPid}, held : BOOLEAN, pinned : BOOLEAN, bound : BOOLEAN,
     log : Pids \cup {NoPid}, doomed : Seq(Pids), alone : BOOLEAN, newest : Seq(Pids),
     reported : SUBSET DOMAIN settings, redirect : BOOLEAN]

TypeOK ==
    /\ folder \in Folders
    /\ logs \in Seq(Pids)
    /\ proc \in [Processes -> Processing]

\* A file is listed once.
Distinct(files) == \A i, j \in DOMAIN files : files[i] = files[j] => i = j

\* From the moment a game's load of the DLL returns, the game may call what the DLL
\* forwards, and free the DLL, at any time: the exports are bound, and a reference other
\* than the game's keeps the engine's code mapped (dllmain.cpp:30-40).
UsableOnceLoaded ==
    \A p \in Processes : Running(p) =>
        /\ proc[p].held \/ proc[p].pinned
        /\ folder.name = RealDll => proc[p].bound

\* Whatever the file holds, a setting is what docs/CONFIGURATION.md says of its text, or the
\* default; and a text that was not followed is named in the log of every process that has
\* one (docs/CONFIGURATION.md:27-28).
NothingSilentlyDropped ==
    \A p \in Processes : proc[p].stage \in {"disabled", "apply"} =>
        \A f \in DOMAIN Documented :
            /\ AsDocumented(folder.lines, f)
            /\ settings[f].rejected /\ proc[p].log # NoPid => f \in proc[p].reported

\* The newest logs are kept, and no more than kKeptLogs with the one just opened, if no
\* other process ran meanwhile (docs/ARCHITECTURE.md:678-679, log.cpp:60-63).
NewestKept ==
    \A p \in Processes :
        proc[p].stage = "report" /\ proc[p].log # NoPid /\ proc[p].alone =>
            RemoveFirst(logs, proc[p].pid) = RemoveFirst(proc[p].newest, proc[p].pid)

\* Processes that start, run and end at once leave at most one file each beyond the
\* kKeptLogs - 1 that pruning leaves, although none deletes the file of another, and each
\* deletes by a list that may be out of date (log.cpp:81-89).
LogsBounded == Len(logs) <= kKeptLogs - 1 + Cardinality(Processes)
=============================================================================
