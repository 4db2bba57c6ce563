-------------------------------- MODULE Settings --------------------------------
(***************************************************************************)
(* What opendlssg.ini says and what the engine makes of it                 *)
(* (src/src/core/config.cpp, src/src/app/settings.cpp).                    *)
(*                                                                         *)
(* A file is the sequence of its lines; a line is a section header, a pair *)
(* or something else (a comment, a blank line, a line without "=").        *)
(* Encoding, blanks, comments and letter case are gone from names and      *)
(* values: Load and the readers drop them too.  What std::from_chars and   *)
(* the splitting at commas make of a text are tables.                      *)
(***************************************************************************)
EXTENDS Integers, Sequences, SequencesExt, TLC

CONSTANTS Number,  \* the texts that are whole numbers, and their values
          Items    \* the texts that are lists, and their items

NoText == ""

ASSUME SettingsAssumption ==
    /\ Number \in [DOMAIN Number -> Int]
    /\ NoText \notin DOMAIN Number

Section(name) == [kind |-> "section", name |-> name]
Pair(key, value) == [kind |-> "pair", key |-> key, value |-> value]
Comment == [kind |-> "other"]
Lines ==
    [kind : {"section"}, name : STRING] \cup [kind : {"pair"}, key : STRING, value : STRING]
    \cup {Comment}

Yes == {"1", "true", "on", "yes"}
No == {"0", "false", "off", "no"}

-----------------------------------------------------------------------------
(* Ini *)

\* One line of Load: sections_[section][key] is overwritten.
ReadLine(ini, line) ==
    IF line.kind = "section" THEN [ini EXCEPT !.section = line.name]
    ELSE IF line.kind = "pair" /\ line.key # NoText
         THEN LET key == <<ini.section, line.key>> IN
              [ini EXCEPT !.values = [k \in DOMAIN @ \cup {key} |->
                                        IF k = key THEN line.value ELSE @[k]]]
         ELSE ini

\* The section and the values after every line.
Reading(lines) ==
    LET read[i \in 0..Len(lines)] ==
          IF i = 0 THEN [section |-> NoText, values |-> <<>>] ELSE ReadLine(read[i - 1], lines[i])
    IN read

Load(lines) == Reading(lines)[Len(lines)].values

\* What a reader returns, and whether it calls Reject.
Read(value) == [value |-> value, rejected |-> FALSE]
Reject(value) == [value |-> value, rejected |-> TRUE]

\* Find, with nothing found and nothing written after "=" taken as one: the readers of
\* numbers, switches and names do the same with both.
Text(ini, key) == IF key \in DOMAIN ini THEN ini[key] ELSE NoText

GetString(ini, key, fallback) == Read(IF Text(ini, key) = NoText THEN fallback ELSE Text(ini, key))

GetInt(ini, key, fallback) ==
    IF Text(ini, key) = NoText THEN Read(fallback)
    ELSE IF Text(ini, key) \in DOMAIN Number THEN Read(Number[Text(ini, key)])
    ELSE Reject(fallback)

GetBool(ini, key, fallback) ==
    IF Text(ini, key) = NoText THEN Read(fallback)
    ELSE IF Text(ini, key) \in Yes \cup No THEN Read(Text(ini, key) \in Yes)
    ELSE Reject(fallback)

-----------------------------------------------------------------------------
(* Settings::FromIni *)

ReadRange(ini, key, fallback, low, high) ==
    LET read == GetInt(ini, key, fallback) IN
    IF read.value \in low..high THEN read ELSE Reject(fallback)

\* A mutant of ReadOptionalRange: what is out of range is only dropped.
DropOutside(ini, key, low, high) ==
    LET read == GetInt(ini, key, 0) IN
    IF read.value = 0 \/ read.value \in low..high THEN read ELSE Read(0)

ReadOptionalRange(ini, key, low, high) ==
    LET read == GetInt(ini, key, 0) IN
    IF read.value = 0 \/ read.value \in low..high THEN read ELSE Reject(0)

\* Only a Mode that is not in the file is Off; one left empty is not.
ReadMode(ini, key) ==
    LET mode == IF key \in DOMAIN ini THEN ini[key] ELSE "off" IN
    IF mode \in {"off", "bundled"} THEN Read(mode = "bundled") ELSE Reject(FALSE)

\* An empty list, left by "none" alone, makes the spoof unconditional.
SplitModules(value) == SelectSeq(Items[value], LAMBDA item : item # NoText /\ item # "none")

ReadCallers(ini, key, fallback) ==
    Read(IF Text(ini, key) = NoText THEN fallback ELSE SplitModules(Text(ini, key)))

DefaultCallers == <<"sl.common.dll", "_nvngx.dll", "nvngx_dlssg.dll">>
DefaultRuntime == "opendlssg_nvngx_dlssg.dll"
DefaultDirectory == "opendlssg/logs"

FromIni(ini) ==
    [enabled |-> GetBool(ini, <<"general", "enabled">>, TRUE),
     spoof_arch_to_game |-> GetBool(ini, <<"compatibility", "spoofarchtogame">>, TRUE),
     spoof_callers |-> ReadCallers(ini, <<"compatibility", "spoofcallers">>, DefaultCallers),
     patch_flip_metering |-> GetBool(ini, <<"compatibility", "patchflipmetering">>, TRUE),
     flip_metering_value |->
         ReadRange(ini, <<"compatibility", "flipmeteringvalue">>, -1, -1, 1),
     patch_frame_clamp |-> GetBool(ini, <<"compatibility", "patchframeclamp">>, FALSE),
     stub_scg_priority |-> GetBool(ini, <<"compatibility", "stubscgpriority">>, TRUE),
     force_multiplier |->
         ReadOptionalRange(ini, <<"framegeneration", "forcemultiplier">>, 2, 6),
     multi_frame |-> GetBool(ini, <<"framegeneration", "multiframe">>, TRUE),
     retarget_kernels |-> GetBool(ini, <<"kernels", "retarget">>, TRUE),
     target_sm |-> ReadOptionalRange(ini, <<"kernels", "targetsm">>, 50, 200),
     vulkan_hooks |-> GetBool(ini, <<"kernels", "vulkanhooks">>, TRUE),
     redirect_runtime |-> ReadMode(ini, <<"runtime", "mode">>),
     runtime_file |-> GetString(ini, <<"runtime", "runtimefile">>, DefaultRuntime),
     streamline_diagnostics |-> GetBool(ini, <<"debug", "streamlinediagnostics">>, FALSE),
     dump_kernels |-> GetBool(ini, <<"debug", "dumpkernels">>, FALSE),
     log_level |-> ReadRange(ini, <<"logging", "level">>, 1, 0, 3),
     log_directory |-> GetString(ini, <<"logging", "directory">>, DefaultDirectory)]

-----------------------------------------------------------------------------
(* What docs/CONFIGURATION.md documents, independently of how the file is read. *)

\* The text the file gives a key: that of its last pair under its section.
GivenBy(lines, i, section, key) ==
    /\ lines[i].kind = "pair" /\ lines[i].key = key
    /\ \E j \in 1..i-1 :
         /\ lines[j] = Section(section)
         /\ \A k \in j+1..i-1 : lines[k].kind # "section"

Given(lines, section, key) == {i \in DOMAIN lines : GivenBy(lines, i, section, key)}

GivenText(lines, section, key) ==
    IF Given(lines, section, key) = {} THEN NoText
    ELSE lines[CHOOSE i \in Given(lines, section, key) :
                 \A j \in Given(lines, section, key) : j <= i].value

Switch(default) ==
    [default |-> default, meaning |-> [t \in Yes \cup No |-> t \in Yes]]
Whole(default, range) ==
    [default |-> default,
     meaning |-> [t \in {n \in DOMAIN Number : Number[n] \in range} |-> Number[t]]]

\* Section, key, default and the texts that mean something, of every kind of setting.
Documented ==
    [enabled |-> <<"general", "enabled", Switch(TRUE)>>,
     multi_frame |-> <<"framegeneration", "multiframe", Switch(TRUE)>>,
     patch_frame_clamp |-> <<"compatibility", "patchframeclamp", Switch(FALSE)>>,
     flip_metering_value |-> <<"compatibility", "flipmeteringvalue", Whole(-1, -1..1)>>,
     force_multiplier |-> <<"framegeneration", "forcemultiplier", Whole(0, {0} \cup 2..6)>>,
     target_sm |-> <<"kernels", "targetsm", Whole(0, {0} \cup 50..200)>>,
     log_level |-> <<"logging", "level", Whole(1, 0..3)>>,
     redirect_runtime |->
         <<"runtime", "mode",
           [default |-> FALSE, meaning |-> [t \in {"off", "bundled"} |-> t = "bundled"]]>>]

\* A setting has the value documented for its text; a text that means nothing leaves the
\* default, and is rejected unless it is empty.
AsMeant(read, text, about) ==
    IF text \in DOMAIN about.meaning THEN read = Read(about.meaning[text])
    ELSE read.value = about.default /\ (text # NoText => read.rejected)

AsDocumented(lines, f) ==
    AsMeant(FromIni(Load(lines))[f], GivenText(lines, Documented[f][1], Documented[f][2]),
            Documented[f][3])
=============================================================================
